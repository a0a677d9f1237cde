------------------------ MODULE AccountServicesProofs ------------------------
(***************************************************************************)
(* What an account does beside its syncs, for any number of messages,      *)
(* folders, items, lookups, modifications and restarts: one inductive      *)
(* invariant for each part of AccountServices.                             *)
(***************************************************************************)
EXTENDS AccountServices, TLAPS, FiniteSetTheorems

-----------------------------------------------------------------------------
(* New messages. *)

NewsTypes ==
    /\ jobs \in SUBSET Mails /\ newByConv \in SUBSET Mails
    /\ arrived \in SUBSET Mails /\ untouched \in SUBSET Mails
    /\ mail \in [Mails -> {"unknown", "unread", "read", "out"}]
    /\ group \in [id : Nat, members : SUBSET Mails, flush : BOOLEAN]
    /\ pendingDate \in Nat
    /\ clearTask \in {"none", "loud", "silent"}

\* A message that waits for its task is not known yet; one that is tracked is unread.
NewsFiled ==
    /\ \A m \in jobs : mail[m] = "unknown"
    /\ \A m \in newByConv : mail[m] = "unread"

\* The date that newness is decided by is of a message that arrived, so that the newest are new.
NewestTracked ==
    /\ pendingDate = 0 \/ \E o \in arrived : DateOf[o] = pendingDate
    /\ \A m \in untouched : (\A o \in arrived : DateOf[o] <= DateOf[m]) => m \in newByConv

\* Until it is written, a silent clear has left the front-end with nothing, or it was told since.
ToldOrDue ==
    \/ told = newByConv \/ flushTask \/ alone \/ group.flush \/ lost \/ unseen
    \/ clearTask = "silent" /\ told = {}

NewsInv == NewsTypes /\ NewsFiled /\ NewestTracked /\ ToldOrDue

LEMMA NewsRefresh ==
    ASSUME NewsInv, NEW mine \in SUBSET Mails, News!Refresh(mine)
    PROVE  NewsInv'
<1> USE DEF News!Refresh
<1>1. NewsTypes'
  BY DEF NewsInv, NewsTypes, News!NoGroup
<1>2. NewsFiled' /\ NewestTracked'
  BY DEF NewsInv, NewsFiled, NewestTracked
<1>3. ToldOrDue'
  BY DEF NewsInv, NewsTypes, ToldOrDue
<1> QED
  BY <1>1, <1>2, <1>3 DEF NewsInv

LEMMA NewsAdded ==
    ASSUME NewsInv, NEW m \in Mails, NEW unread \in BOOLEAN, News!AddMessage(m, unread)
    PROVE  NewsInv'
<1> DEFINE isNew == DateOf[m] >= pendingDate
<1>1. /\ m \in jobs /\ jobs' = jobs \ {m}
      /\ mail' = [mail EXCEPT ![m] = IF unread THEN "unread" ELSE "read"]
      /\ flushTask' = flushTask /\ clearTask' = clearTask /\ told' = told
      /\ lost' = lost /\ unseen' = unseen
      /\ DateOf[m] \in Nat
  BY NewsAssumption DEF News!AddMessage
<1>2. \/ /\ unread /\ arrived' = arrived \cup {m} /\ untouched' = untouched \cup {m}
         /\ newByConv' = (IF isNew THEN newByConv \cup {m} ELSE newByConv)
         /\ pendingDate' = (IF isNew THEN DateOf[m] ELSE pendingDate)
      \/ /\ ~unread /\ arrived' = arrived /\ untouched' = untouched
         /\ newByConv' = newByConv /\ pendingDate' = pendingDate
  BY DEF News!AddMessage
<1>3. /\ \/ group' = [group EXCEPT !.members = @ \ {m}]
         \/ group' = [[group EXCEPT !.members = @ \ {m}] EXCEPT !.flush = TRUE]
      /\ alone => alone'
      /\ unread /\ isNew => alone' \/ group'.flush
  <2> DEFINE left == [group EXCEPT !.members = @ \ {m}]
  <2>1. /\ group \in [id : Nat, members : SUBSET Mails, flush : BOOLEAN]
        /\ left \in [id : Nat, members : SUBSET Mails, flush : BOOLEAN]
    BY DEF NewsInv, NewsTypes
  <2>2. \/ unread /\ ~isNew /\ group' = left /\ alone' = alone
        \/ unread /\ alone' = TRUE /\ group' = left
        \/ unread /\ group' = [left EXCEPT !.flush = TRUE] /\ alone' = alone
        \/ ~unread /\ group' = left /\ alone' = alone
    BY DEF News!AddMessage
  <2>3. [left EXCEPT !.flush = TRUE].flush = TRUE
    BY <2>1
  <2>4. /\ \/ group' = left
           \/ group' = [left EXCEPT !.flush = TRUE]
        /\ alone => alone'
    BY <2>2
  <2>5. unread /\ isNew => alone' \/ group'.flush
    BY <2>2, <2>3
  <2> QED
    BY <2>4, <2>5
<1> HIDE DEF isNew
<1>4. NewsTypes'
  <2>1. group' \in [id : Nat, members : SUBSET Mails, flush : BOOLEAN]
    <3>1. group \in [id : Nat, members : SUBSET Mails, flush : BOOLEAN]
      BY DEF NewsInv, NewsTypes
    <3>2. [group EXCEPT !.members = @ \ {m}] \in [id : Nat, members : SUBSET Mails, flush : BOOLEAN]
      BY <3>1
    <3>3. PICK left \in [id : Nat, members : SUBSET Mails, flush : BOOLEAN] :
             group' = left \/ group' = [left EXCEPT !.flush = TRUE]
      BY <1>3, <3>2
    <3>4. [left EXCEPT !.flush = TRUE] \in [id : Nat, members : SUBSET Mails, flush : BOOLEAN]
      OBVIOUS
    <3> QED
      BY <3>3, <3>4
  <2>2. /\ newByConv' \in SUBSET Mails /\ arrived' \in SUBSET Mails
        /\ untouched' \in SUBSET Mails /\ pendingDate' \in Nat
    BY <1>1, <1>2 DEF NewsInv, NewsTypes
  <2> QED
    BY <1>1, <2>1, <2>2 DEF NewsInv, NewsTypes
<1>5. NewsFiled'
  BY <1>1, <1>2 DEF NewsInv, NewsTypes, NewsFiled
<1>6. NewestTracked'
  <2>1. CASE ~unread
    BY <1>2, <2>1 DEF NewsInv, NewestTracked
  <2>2. CASE unread
    <3>1. pendingDate' = 0 \/ \E o \in arrived' : DateOf[o] = pendingDate'
      BY <1>2, <2>2 DEF NewsInv, NewestTracked
    <3>2. ASSUME NEW o \in untouched', \A x \in arrived' : DateOf[x] <= DateOf[o]
          PROVE  o \in newByConv'
      <4>1. CASE o # m
        BY <1>2, <2>2, <3>2, <4>1 DEF NewsInv, NewestTracked
      <4>2. CASE o = m
        <5>1. DateOf[m] >= pendingDate
          BY <1>1, <1>2, <2>2, <3>2, <4>2 DEF NewsInv, NewestTracked
        <5> QED
          BY <1>2, <2>2, <4>2, <5>1 DEF isNew
      <4> QED
        BY <4>1, <4>2
    <3> QED
      BY <3>1, <3>2 DEF NewestTracked
  <2> QED
    BY <2>1, <2>2
<1>7. ToldOrDue'
  BY <1>1, <1>2, <1>3 DEF NewsInv, NewsTypes, ToldOrDue
<1> QED
  BY <1>4, <1>5, <1>6, <1>7 DEF NewsInv

LEMMA NewsChanged ==
    ASSUME NewsInv, NEW m \in Mails, NEW to \in {"unread", "read", "out"}, NEW id,
           News!Change(m, to, id)
    PROVE  NewsInv'
<1>1. /\ mail[m] \notin {"unknown", to} /\ mail' = [mail EXCEPT ![m] = to]
      /\ untouched' = untouched \ {m} /\ jobs' = jobs /\ pendingDate' = pendingDate
      /\ flushTask' = flushTask /\ clearTask' = clearTask /\ told' = told
      /\ arrived' = arrived /\ lost' = lost /\ unseen' = unseen
  BY DEF News!Change
<1>2. \/ /\ to # "unread" /\ newByConv' = newByConv \ {m}
         /\ \/ alone' = TRUE /\ group' = group
            \/ group' = [group EXCEPT !.flush = TRUE] /\ alone' = alone
      \/ /\ to = "unread" \/ m \notin newByConv
         /\ newByConv' = newByConv /\ group' = group /\ alone' = alone
  BY DEF News!Change, News!FollowOn
<1>3. NewsTypes'
  BY <1>1, <1>2 DEF NewsInv, NewsTypes
<1>4. NewsFiled'
  BY <1>1, <1>2 DEF NewsInv, NewsTypes, NewsFiled
<1>5. NewestTracked'
  BY <1>1, <1>2 DEF NewsInv, NewestTracked
<1>6. ToldOrDue'
  BY <1>1, <1>2 DEF NewsInv, NewsTypes, ToldOrDue
<1> QED
  BY <1>3, <1>4, <1>5, <1>6 DEF NewsInv

LEMMA NewsElse ==
    ASSUME NewsInv,
           \/ News!GroupEnds \/ News!Flush \/ News!Clear \/ News!Restart
           \/ \E how \in {"loud", "silent"} : News!AskClear(how)
    PROVE  NewsInv'
<1>1. CASE News!GroupEnds
  BY <1>1 DEF News!GroupEnds, NewsInv, NewsTypes, NewsFiled, NewestTracked, ToldOrDue
<1>2. CASE News!Flush
  BY <1>2 DEF News!Flush, NewsInv, NewsTypes, NewsFiled, NewestTracked, ToldOrDue
<1>3. CASE News!Clear
  BY <1>3 DEF News!Clear, NewsInv, NewsTypes, NewsFiled, NewestTracked, ToldOrDue
<1>4. CASE News!Restart
  BY <1>4 DEF News!Restart, News!newOnDisk, NewsInv, NewsTypes, NewsFiled, NewestTracked, ToldOrDue
<1>5. CASE \E how \in {"loud", "silent"} : News!AskClear(how)
  BY <1>5 DEF News!AskClear, NewsInv, NewsTypes, NewsFiled, NewestTracked, ToldOrDue
<1> QED
  BY <1>1, <1>2, <1>3, <1>4, <1>5

LEMMA NewsStep ==
    ASSUME NewsInv, News!NewNext
    PROVE  NewsInv'
BY NewsRefresh, NewsAdded, NewsChanged, NewsElse DEF News!NewNext

\* What is tracked as new is what arrived and was not read since, and the user
\* has been told of it or will be (tasks/new_tracking.js, new_flush.js),
\* through any number of syncs, changes, clearings and restarts.
THEOREM NewsAreTrueHolds == AnySpec => []NewsAreTrue
<1> DEFINE Inv == part = "news" => NewsInv
<1>1. AnyInit => Inv
  <2>1. News!NewInit => NewsInv
    BY DEF News!NewInit, News!NoGroup, NewsInv, NewsTypes, NewsFiled, NewestTracked, ToldOrDue
  <2> QED
    BY <2>1 DEF AnyInit
<1>2. Inv /\ [AnyNext]_anyVars => Inv'
  <2> SUFFICES ASSUME Inv, [AnyNext]_anyVars, part' = "news" PROVE NewsInv'
    OBVIOUS
  <2>1. part = "news" /\ NewsInv /\ (News!NewNext \/ UNCHANGED newsVars)
    BY DEF AnyNext, anyVars
  <2>2. CASE UNCHANGED newsVars
    BY <2>1, <2>2 DEF newsVars, NewsInv, NewsTypes, NewsFiled, NewestTracked, ToldOrDue
  <2> QED
    BY <2>1, <2>2, NewsStep
<1>3. Inv => NewsAreTrue
  BY DEF NewsInv, NewsFiled, NewestTracked, ToldOrDue, NewsAreTrue, News!NewIsUnread, News!ToldIsTracked
<1> QED
  BY <1>1, <1>2, <1>3, PTL DEF AnySpec

-----------------------------------------------------------------------------
(* Credentials. *)

Renewing(s) == attempt[s] \in {"renewing", "forcing"}

CredTypes == Creds!CredTypeOK /\ mods \in 0..MaxMods /\ forced \in Nat

\* Before the probes nothing has been asked for, and once they failed the receiving one is over.
CredStages ==
    /\ stage = "none" => /\ \A s \in Creds!Sides : attempt[s] = "idle" /\ asked[s] = 1
                         /\ cred.refresh = 1 /\ cred.access = 1 /\ open = {} /\ forced = 0
    /\ stage = "failed" => attempt["receive"] \in {"failed", "ready"}

\* What is saved is what is used.
SavedForUse == stage = "made" => saved = <<cred>>

\* A renewal that is forced is noted, and the note goes with the count.
RenewedOnce == forced <= 1 /\ (~recent => forced = 0)

\* Every renewal under way is of the grant that the token is to be of.
TokenAsked == ~raced => /\ cred.access = cred.refresh
                        /\ \A s \in Creds!Sides : Renewing(s) => asked[s] = cred.refresh

CredInv ==
    /\ CredTypes /\ CredStages /\ Creds!NothingLeftOpen /\ SavedForUse
    /\ RenewedOnce /\ TokenAsked /\ Creds!PasswordsStayTogether

LEMMA CredFacts ==
    /\ Creds!Sides = {"receive", "send"} /\ MaxMods \in Nat
    /\ Creds!Grants = 1..(MaxMods + 1)
BY CredsAssumption DEF Creds!Sides, Creds!Grants

\* The types, one variable at a time.
LEMMA CredTyped ==
    ASSUME CredTypes
    PROVE  /\ stage \in {"off", "none", "probing", "made", "failed"}
           /\ cred \in Creds!Creds /\ saved \in {<<>>} \cup {<<c>> : c \in Creds!Creds}
           /\ attempt \in [Creds!Sides -> {"idle", "renewing", "forcing", "connecting", "ready", "failed"}]
           /\ asked \in [Creds!Sides -> 1..(MaxMods + 1)] /\ open \subseteq Creds!Sides
           /\ oauth \in BOOLEAN /\ recent \in BOOLEAN /\ apart \in BOOLEAN /\ raced \in BOOLEAN
           /\ mods \in 0..MaxMods /\ MaxMods \in Nat /\ forced \in Nat
BY CredFacts DEF CredTypes, Creds!CredTypeOK

LEMMA CredCreate ==
    ASSUME CredInv, Creds!Create
    PROVE  CredInv'
<1> USE CredFacts DEF Creds!Create, Creds!passwords
<1>1. CredTypes'
  BY DEF CredInv, CredTypes, CredStages, SavedForUse, Creds!CredTypeOK, Creds!Creds, Creds!Grants
<1>2. CredStages'
  BY DEF CredInv, CredTypes, Creds!CredTypeOK, Renewing, CredStages
<1>3. Creds!NothingLeftOpen'
  BY DEF CredInv, CredTypes, Creds!CredTypeOK, Renewing, CredStages, Creds!NothingLeftOpen
<1>4. SavedForUse'
  BY DEF CredInv, CredTypes, Creds!CredTypeOK, Renewing, CredStages, SavedForUse
<1>5. RenewedOnce'
  BY DEF CredInv, CredTypes, Creds!CredTypeOK, Renewing, CredStages, RenewedOnce
<1>6. TokenAsked'
  BY DEF CredInv, CredTypes, Creds!CredTypeOK, Renewing, CredStages, TokenAsked
<1>7. Creds!PasswordsStayTogether'
  BY DEF CredInv, CredTypes, Creds!CredTypeOK, Renewing, CredStages, Creds!PasswordsStayTogether
<1> QED
  BY <1>1, <1>2, <1>3, <1>4, <1>5, <1>6, <1>7 DEF CredInv

LEMMA CredRefuseReceive ==
    ASSUME CredInv, Creds!RefuseReceive
    PROVE  CredInv'
<1> USE CredFacts DEF Creds!RefuseReceive, Creds!passwords
<1>1. CredTypes'
  BY DEF CredInv, CredTypes, CredStages, SavedForUse, Creds!CredTypeOK, Creds!Creds, Creds!Grants
<1>2. CredStages'
  BY DEF CredInv, CredTypes, Creds!CredTypeOK, Renewing, CredStages
<1>3. Creds!NothingLeftOpen'
  BY DEF CredInv, CredTypes, Creds!CredTypeOK, Renewing, CredStages, Creds!NothingLeftOpen
<1>4. SavedForUse'
  BY DEF CredInv, CredTypes, Creds!CredTypeOK, Renewing, CredStages, SavedForUse
<1>5. RenewedOnce'
  BY DEF CredInv, CredTypes, Creds!CredTypeOK, Renewing, CredStages, RenewedOnce
<1>6. TokenAsked'
  BY DEF CredInv, CredTypes, Creds!CredTypeOK, Renewing, CredStages, TokenAsked
<1>7. Creds!PasswordsStayTogether'
  BY DEF CredInv, CredTypes, Creds!CredTypeOK, Renewing, CredStages, Creds!PasswordsStayTogether
<1> QED
  BY <1>1, <1>2, <1>3, <1>4, <1>5, <1>6, <1>7 DEF CredInv

LEMMA CredRefuseSend ==
    ASSUME CredInv, Creds!RefuseSend
    PROVE  CredInv'
<1> USE CredFacts DEF Creds!RefuseSend, Creds!passwords
<1>1. CredTypes'
  BY DEF CredInv, CredTypes, CredStages, SavedForUse, Creds!CredTypeOK, Creds!Creds, Creds!Grants
<1>2. CredStages'
  BY DEF CredInv, CredTypes, Creds!CredTypeOK, Renewing, CredStages
<1>3. Creds!NothingLeftOpen'
  BY DEF CredInv, CredTypes, Creds!CredTypeOK, Renewing, CredStages, Creds!NothingLeftOpen
<1>4. SavedForUse'
  BY DEF CredInv, CredTypes, Creds!CredTypeOK, Renewing, CredStages, SavedForUse
<1>5. RenewedOnce'
  BY DEF CredInv, CredTypes, Creds!CredTypeOK, Renewing, CredStages, RenewedOnce
<1>6. TokenAsked'
  BY DEF CredInv, CredTypes, Creds!CredTypeOK, Renewing, CredStages, TokenAsked
<1>7. Creds!PasswordsStayTogether'
  BY DEF CredInv, CredTypes, Creds!CredTypeOK, Renewing, CredStages, Creds!PasswordsStayTogether
<1> QED
  BY <1>1, <1>2, <1>3, <1>4, <1>5, <1>6, <1>7 DEF CredInv

LEMMA CredAccept ==
    ASSUME CredInv, Creds!Accept
    PROVE  CredInv'
<1> USE CredFacts DEF Creds!Accept, Creds!passwords
<1>1. CredTypes'
  BY DEF CredInv, CredTypes, CredStages, SavedForUse, Creds!CredTypeOK, Creds!Creds, Creds!Grants
<1>2. CredStages'
  BY DEF CredInv, CredTypes, Creds!CredTypeOK, Renewing, CredStages
<1>3. Creds!NothingLeftOpen'
  BY DEF CredInv, CredTypes, Creds!CredTypeOK, Renewing, CredStages, Creds!NothingLeftOpen
<1>4. SavedForUse'
  BY DEF CredInv, CredTypes, Creds!CredTypeOK, Renewing, CredStages, SavedForUse
<1>5. RenewedOnce'
  BY DEF CredInv, CredTypes, Creds!CredTypeOK, Renewing, CredStages, RenewedOnce
<1>6. TokenAsked'
  BY DEF CredInv, CredTypes, Creds!CredTypeOK, Renewing, CredStages, TokenAsked
<1>7. Creds!PasswordsStayTogether'
  BY DEF CredInv, CredTypes, Creds!CredTypeOK, Renewing, CredStages, Creds!PasswordsStayTogether
<1> QED
  BY <1>1, <1>2, <1>3, <1>4, <1>5, <1>6, <1>7 DEF CredInv

\* What is meant is a pair of passwords, the same one for both if both keys ask for it.
LEMMA MeantTyped ==
    ASSUME NEW keys \in SUBSET Creds!PasswordKeys, NEW p \in Passwords, NEW w \in Creds!Pairs
    PROVE  /\ Creds!Meant(keys, p, w) \in Creds!Pairs
           /\ Creds!Meant(keys, p, w).password \in Passwords
           /\ Creds!Meant(keys, p, w).outgoingPassword \in Passwords
           /\ keys = {"incomingPassword", "outgoingPassword"} =>
                Creds!Meant(keys, p, w).password = Creds!Meant(keys, p, w).outgoingPassword
BY DEF Creds!Meant, Creds!Pairs

LEMMA CredModifyPassword ==
    ASSUME CredInv, NEW keys \in (SUBSET Creds!PasswordKeys) \ {{}}, NEW p \in Passwords,
           Creds!ModifyPassword(keys, p)
    PROVE  CredInv'
<1> USE CredFacts
<1>1. CredTypes /\ cred \in Creds!Creds /\ wanted \in Creds!Pairs /\ apart \in BOOLEAN /\ unheard \in BOOLEAN
  BY CredTyped DEF CredInv, CredTypes, Creds!CredTypeOK
<1>2. stage = "made" /\ stage' = stage /\ oauth' = oauth /\ recent' = recent /\ attempt' = attempt
      /\ asked' = asked /\ open' = open /\ forced' = forced /\ raced' = raced
      /\ mods \in 0..MaxMods /\ mods < MaxMods /\ mods' = mods + 1
  BY DEF Creds!ModifyPassword, CredInv, CredTypes
<1> DEFINE pair == Creds!PasswordsOf(cred)
           new  == Creds!Meant(keys, p, pair)
<1>3. /\ IF "password" \in keys THEN UNCHANGED <<cred, saved>>
         ELSE /\ cred' = [cred EXCEPT !.password = new.password, !.outgoingPassword = new.outgoingPassword]
              /\ saved' = <<cred'>>
      /\ wanted' = Creds!Meant(keys, p, wanted)
      /\ apart' = (apart \/ keys \in {{"incomingPassword"}, {"outgoingPassword"}})
      /\ unheard' = (unheard \/ "password" \in keys)
  BY DEF Creds!ModifyPassword, Creds!Throws
<1>4. pair \in Creds!Pairs
  BY <1>1 DEF Creds!PasswordsOf, Creds!Pairs, Creds!Creds
<1>5. new.password \in Passwords /\ new.outgoingPassword \in Passwords /\ wanted' \in Creds!Pairs
      /\ (keys = {"incomingPassword", "outgoingPassword"} => new.password = new.outgoingPassword)
  <2>1. /\ Creds!Meant(keys, p, pair).password \in Passwords
        /\ Creds!Meant(keys, p, pair).outgoingPassword \in Passwords
        /\ keys = {"incomingPassword", "outgoingPassword"} =>
             Creds!Meant(keys, p, pair).password = Creds!Meant(keys, p, pair).outgoingPassword
    BY <1>4, MeantTyped
  <2>2. Creds!Meant(keys, p, wanted) \in Creds!Pairs
    BY <1>1, MeantTyped
  <2> QED
    BY <1>3, <2>1, <2>2
<1>6. /\ cred' \in Creds!Creds
      /\ cred'.access = cred.access /\ cred'.refresh = cred.refresh
      /\ "password" \notin keys => /\ cred'.password = new.password
                                  /\ cred'.outgoingPassword = new.outgoingPassword
      /\ "password" \in keys => cred' = cred
  <2> HIDE DEF new
  <2>1. CASE "password" \in keys
    BY <1>1, <1>3, <2>1
  <2>2. CASE "password" \notin keys
    <3>1. cred' = [cred EXCEPT !.password = new.password, !.outgoingPassword = new.outgoingPassword]
      BY <1>3, <2>2 DEF new
    <3> QED
      BY <1>1, <1>5, <2>2, <3>1 DEF Creds!Creds
  <2> QED
    BY <2>1, <2>2
<1> HIDE DEF new, pair
<1>7. SavedForUse'
  BY <1>2, <1>3 DEF CredInv, SavedForUse
<1>8. CredTypes'
  <2>1. saved' \in {<<>>} \cup {<<c>> : c \in Creds!Creds}
    BY <1>2, <1>6, <1>7 DEF SavedForUse
  <2>2. mods' \in 0..MaxMods
    BY <1>2
  <2>3. apart' \in BOOLEAN /\ unheard' \in BOOLEAN
    BY <1>1, <1>3
  <2> QED
    BY <1>1, <1>2, <1>5, <1>6, <2>1, <2>2, <2>3 DEF CredTypes, Creds!CredTypeOK
<1>9. CredStages' /\ Creds!NothingLeftOpen' /\ RenewedOnce'
  BY <1>2 DEF CredInv, CredStages, Creds!NothingLeftOpen, RenewedOnce
<1>10. TokenAsked'
  BY <1>2, <1>6 DEF CredInv, TokenAsked, Renewing
<1>11. Creds!PasswordsStayTogether'
  <2> SUFFICES ASSUME ~apart' PROVE cred'.password = cred'.outgoingPassword
    BY DEF Creds!PasswordsStayTogether
  <2>1. ~apart /\ keys \notin {{"incomingPassword"}, {"outgoingPassword"}}
    BY <1>1, <1>3
  <2>2. cred.password = cred.outgoingPassword
    BY <2>1 DEF CredInv, Creds!PasswordsStayTogether
  <2>3. CASE "password" \in keys
    BY <1>6, <2>2, <2>3
  <2>4. CASE "password" \notin keys
    <3>1. keys = {"incomingPassword", "outgoingPassword"}
      BY <2>1, <2>4 DEF Creds!PasswordKeys
    <3> QED
      BY <1>5, <1>6, <2>4, <3>1
  <2> QED
    BY <2>3, <2>4
<1> QED
  BY <1>7, <1>8, <1>9, <1>10, <1>11 DEF CredInv

LEMMA CredReauthorize ==
    ASSUME CredInv, Creds!Reauthorize
    PROVE  CredInv'
<1> USE CredFacts DEF Creds!Reauthorize, Creds!passwords
<1>1. CredTypes'
  <2>1. cred \in Creds!Creds /\ mods' \in 0..MaxMods /\ mods' + 1 \in 1..(MaxMods + 1)
    BY CredTyped DEF CredInv
  <2>2. cred' \in Creds!Creds
    <3>1. PICK g \in 1..(MaxMods + 1) : g = mods' + 1
      BY <2>1
    <3>2. cred' = [cred EXCEPT !.access = g, !.refresh = g, !.expired = FALSE]
      BY <3>1
    <3> QED
      BY <2>1, <3>2 DEF Creds!Creds
  <2>3. raced' \in BOOLEAN
    BY CredTyped DEF CredInv
  <2> QED
    BY <2>1, <2>2, <2>3 DEF CredInv, CredTypes, Creds!CredTypeOK
<1>2. CredStages'
  BY DEF CredInv, CredTypes, Creds!CredTypeOK, Renewing, CredStages
<1>3. Creds!NothingLeftOpen'
  BY DEF CredInv, CredTypes, Creds!CredTypeOK, Renewing, CredStages, Creds!NothingLeftOpen
<1>4. SavedForUse'
  BY DEF CredInv, CredTypes, Creds!CredTypeOK, Renewing, CredStages, SavedForUse
<1>5. RenewedOnce'
  BY DEF CredInv, CredTypes, Creds!CredTypeOK, Renewing, CredStages, RenewedOnce
<1>6. TokenAsked'
  <2>1. cred \in Creds!Creds /\ raced \in BOOLEAN
    BY CredTyped DEF CredInv
  <2>2. cred'.access = cred'.refresh
    BY <2>1 DEF Creds!Creds
  <2>3. ~raced' => \A s \in Creds!Sides : ~Renewing(s)'
    BY <2>1 DEF Renewing
  <2> QED
    BY <2>2, <2>3 DEF TokenAsked
<1>7. Creds!PasswordsStayTogether'
  BY DEF CredInv, CredTypes, Creds!CredTypeOK, Renewing, CredStages, Creds!PasswordsStayTogether
<1> QED
  BY <1>1, <1>2, <1>3, <1>4, <1>5, <1>6, <1>7 DEF CredInv

LEMMA CredExpires ==
    ASSUME CredInv, Creds!Expires
    PROVE  CredInv'
<1> USE CredFacts DEF Creds!Expires, Creds!passwords
<1>1. CredTypes'
  <2>1. cred \in Creds!Creds /\ saved = <<cred>>
    BY CredTyped DEF CredInv, SavedForUse
  <2>2. cred' \in Creds!Creds
    BY <2>1 DEF Creds!Creds
  <2>3. saved' = <<cred'>>
    BY <2>1
  <2> QED
    BY <2>2, <2>3 DEF CredInv, CredTypes, Creds!CredTypeOK
<1>2. CredStages'
  BY DEF CredInv, CredTypes, Creds!CredTypeOK, Renewing, CredStages
<1>3. Creds!NothingLeftOpen'
  BY DEF CredInv, CredTypes, Creds!CredTypeOK, Renewing, CredStages, Creds!NothingLeftOpen
<1>4. SavedForUse'
  <2>1. cred \in Creds!Creds /\ saved = <<cred>>
    BY CredTyped DEF CredInv, SavedForUse
  <2> QED
    BY <2>1 DEF SavedForUse
<1>5. RenewedOnce'
  BY DEF CredInv, CredTypes, Creds!CredTypeOK, Renewing, CredStages, RenewedOnce
<1>6. TokenAsked'
  BY DEF CredInv, CredTypes, Creds!CredTypeOK, Renewing, CredStages, TokenAsked
<1>7. Creds!PasswordsStayTogether'
  BY DEF CredInv, CredTypes, Creds!CredTypeOK, Renewing, CredStages, Creds!PasswordsStayTogether
<1> QED
  BY <1>1, <1>2, <1>3, <1>4, <1>5, <1>6, <1>7 DEF CredInv

LEMMA CredWindowPasses ==
    ASSUME CredInv, Creds!WindowPasses
    PROVE  CredInv'
<1> USE CredFacts DEF Creds!WindowPasses, Creds!passwords
<1>1. CredTypes'
  BY DEF CredInv, CredTypes, CredStages, SavedForUse, Creds!CredTypeOK, Creds!Creds, Creds!Grants
<1>2. CredStages'
  BY DEF CredInv, CredTypes, Creds!CredTypeOK, Renewing, CredStages
<1>3. Creds!NothingLeftOpen'
  BY DEF CredInv, CredTypes, Creds!CredTypeOK, Renewing, CredStages, Creds!NothingLeftOpen
<1>4. SavedForUse'
  BY DEF CredInv, CredTypes, Creds!CredTypeOK, Renewing, CredStages, SavedForUse
<1>5. RenewedOnce'
  BY DEF CredInv, CredTypes, Creds!CredTypeOK, Renewing, CredStages, RenewedOnce
<1>6. TokenAsked'
  BY DEF CredInv, CredTypes, Creds!CredTypeOK, Renewing, CredStages, TokenAsked
<1>7. Creds!PasswordsStayTogether'
  BY DEF CredInv, CredTypes, Creds!CredTypeOK, Renewing, CredStages, Creds!PasswordsStayTogether
<1> QED
  BY <1>1, <1>2, <1>3, <1>4, <1>5, <1>6, <1>7 DEF CredInv

LEMMA CredReboot ==
    ASSUME CredInv, Creds!Reboot
    PROVE  CredInv'
<1> USE CredFacts DEF Creds!Reboot, Creds!passwords
<1>1. CredTypes'
  <2>1. cred \in Creds!Creds /\ saved = <<cred>>
    BY CredTyped DEF CredInv, SavedForUse
  <2>2. cred' = cred
    BY <2>1
  <2> QED
    BY <2>1, <2>2 DEF CredInv, CredTypes, Creds!CredTypeOK
<1>2. CredStages'
  BY DEF CredInv, CredTypes, Creds!CredTypeOK, Renewing, CredStages
<1>3. Creds!NothingLeftOpen'
  BY DEF CredInv, CredTypes, Creds!CredTypeOK, Renewing, CredStages, Creds!NothingLeftOpen
<1>4. SavedForUse'
  BY DEF CredInv, CredTypes, Creds!CredTypeOK, Renewing, CredStages, SavedForUse
<1>5. RenewedOnce'
  BY DEF CredInv, CredTypes, Creds!CredTypeOK, Renewing, CredStages, RenewedOnce
<1>6. TokenAsked'
  <2>1. cred \in Creds!Creds /\ saved = <<cred>>
    BY CredTyped DEF CredInv, SavedForUse
  <2>2. cred' = cred
    BY <2>1
  <2> QED
    BY <2>1, <2>2 DEF CredInv, TokenAsked, Renewing
<1>7. Creds!PasswordsStayTogether'
  <2>1. cred \in Creds!Creds /\ saved = <<cred>>
    BY CredTyped DEF CredInv, SavedForUse
  <2>2. cred' = cred
    BY <2>1
  <2> QED
    BY <2>1, <2>2 DEF CredInv, Creds!PasswordsStayTogether
<1> QED
  BY <1>1, <1>2, <1>3, <1>4, <1>5, <1>6, <1>7 DEF CredInv

LEMMA CredConnect ==
    ASSUME CredInv, NEW s \in Creds!Sides, Creds!Connect(s)
    PROVE  CredInv'
<1> USE CredFacts DEF Creds!Connect, Creds!passwords, Creds!Begin
<1>1. CredTypes'
  <2>1. cred.refresh \in 1..(MaxMods + 1) /\ cred.access \in 1..(MaxMods + 1)
    BY CredTyped DEF CredInv, Creds!Creds, Creds!Grants
  <2>2. asked' \in [Creds!Sides -> 1..(MaxMods + 1)]
    BY <2>1, CredTyped DEF CredInv
  <2>3. attempt' \in [Creds!Sides -> {"idle", "renewing", "forcing", "connecting", "ready", "failed"}]
    BY CredTyped DEF CredInv
  <2>4. open' \subseteq Creds!Sides /\ recent' \in BOOLEAN
    BY CredTyped DEF CredInv
  <2> QED
    BY <2>2, <2>3, <2>4 DEF CredInv, CredTypes, Creds!CredTypeOK
<1>2. CredStages'
  BY DEF CredInv, CredTypes, Creds!CredTypeOK, Renewing, CredStages
<1>3. Creds!NothingLeftOpen'
  BY ZenonT(60) DEF CredInv, CredTypes, Creds!CredTypeOK, Renewing, CredStages, Creds!NothingLeftOpen
<1>4. SavedForUse'
  BY DEF CredInv, CredTypes, Creds!CredTypeOK, Renewing, CredStages, SavedForUse
<1>5. RenewedOnce'
  BY DEF CredInv, CredTypes, Creds!CredTypeOK, Renewing, CredStages, RenewedOnce
<1>6. TokenAsked'
  BY DEF CredInv, CredTypes, Creds!CredTypeOK, Renewing, CredStages, TokenAsked
<1>7. Creds!PasswordsStayTogether'
  BY DEF CredInv, CredTypes, Creds!CredTypeOK, Renewing, CredStages, Creds!PasswordsStayTogether
<1> QED
  BY <1>1, <1>2, <1>3, <1>4, <1>5, <1>6, <1>7 DEF CredInv

LEMMA CredRenewed ==
    ASSUME CredInv, NEW s \in Creds!Sides, Creds!Renewed(s)
    PROVE  CredInv'
<1> USE CredFacts DEF Creds!Renewed, Creds!passwords
<1>1. CredTypes'
  BY DEF CredInv, CredTypes, CredStages, SavedForUse, Creds!CredTypeOK, Creds!Creds, Creds!Grants
<1>2. CredStages'
  BY DEF CredInv, CredTypes, Creds!CredTypeOK, Renewing, CredStages
<1>3. Creds!NothingLeftOpen'
  BY DEF CredInv, CredTypes, Creds!CredTypeOK, Renewing, CredStages, Creds!NothingLeftOpen
<1>4. SavedForUse'
  BY DEF CredInv, CredTypes, Creds!CredTypeOK, Renewing, CredStages, SavedForUse
<1>5. RenewedOnce'
  BY DEF CredInv, CredTypes, Creds!CredTypeOK, Renewing, CredStages, RenewedOnce
<1>6. TokenAsked'
  BY DEF CredInv, CredTypes, Creds!CredTypeOK, Renewing, CredStages, TokenAsked
<1>7. Creds!PasswordsStayTogether'
  BY DEF CredInv, CredTypes, Creds!CredTypeOK, Renewing, CredStages, Creds!PasswordsStayTogether
<1> QED
  BY <1>1, <1>2, <1>3, <1>4, <1>5, <1>6, <1>7 DEF CredInv

LEMMA CredNotRenewed ==
    ASSUME CredInv, NEW s \in Creds!Sides, Creds!NotRenewed(s)
    PROVE  CredInv'
<1> USE CredFacts DEF Creds!NotRenewed, Creds!passwords
<1>1. CredTypes'
  BY DEF CredInv, CredTypes, CredStages, SavedForUse, Creds!CredTypeOK, Creds!Creds, Creds!Grants
<1>2. CredStages'
  BY DEF CredInv, CredTypes, Creds!CredTypeOK, Renewing, CredStages
<1>3. Creds!NothingLeftOpen'
  BY DEF CredInv, CredTypes, Creds!CredTypeOK, Renewing, CredStages, Creds!NothingLeftOpen
<1>4. SavedForUse'
  BY DEF CredInv, CredTypes, Creds!CredTypeOK, Renewing, CredStages, SavedForUse
<1>5. RenewedOnce'
  BY DEF CredInv, CredTypes, Creds!CredTypeOK, Renewing, CredStages, RenewedOnce
<1>6. TokenAsked'
  BY DEF CredInv, CredTypes, Creds!CredTypeOK, Renewing, CredStages, TokenAsked
<1>7. Creds!PasswordsStayTogether'
  BY DEF CredInv, CredTypes, Creds!CredTypeOK, Renewing, CredStages, Creds!PasswordsStayTogether
<1> QED
  BY <1>1, <1>2, <1>3, <1>4, <1>5, <1>6, <1>7 DEF CredInv

LEMMA CredEstablished ==
    ASSUME CredInv, NEW s \in Creds!Sides, Creds!Established(s)
    PROVE  CredInv'
<1> USE CredFacts DEF Creds!Established, Creds!passwords
<1>1. CredTypes'
  BY DEF CredInv, CredTypes, CredStages, SavedForUse, Creds!CredTypeOK, Creds!Creds, Creds!Grants
<1>2. CredStages'
  BY DEF CredInv, CredTypes, Creds!CredTypeOK, Renewing, CredStages
<1>3. Creds!NothingLeftOpen'
  BY DEF CredInv, CredTypes, Creds!CredTypeOK, Renewing, CredStages, Creds!NothingLeftOpen
<1>4. SavedForUse'
  BY DEF CredInv, CredTypes, Creds!CredTypeOK, Renewing, CredStages, SavedForUse
<1>5. RenewedOnce'
  BY DEF CredInv, CredTypes, Creds!CredTypeOK, Renewing, CredStages, RenewedOnce
<1>6. TokenAsked'
  BY DEF CredInv, CredTypes, Creds!CredTypeOK, Renewing, CredStages, TokenAsked
<1>7. Creds!PasswordsStayTogether'
  BY DEF CredInv, CredTypes, Creds!CredTypeOK, Renewing, CredStages, Creds!PasswordsStayTogether
<1> QED
  BY <1>1, <1>2, <1>3, <1>4, <1>5, <1>6, <1>7 DEF CredInv

LEMMA CredRefused ==
    ASSUME CredInv, NEW s \in Creds!Sides, Creds!Refused(s)
    PROVE  CredInv'
<1> USE CredFacts DEF Creds!Refused, Creds!passwords, Creds!RenewPossible
<1>1. CredTypes'
  <2>1. cred.refresh \in 1..(MaxMods + 1)
    BY CredTyped DEF CredInv, Creds!Creds
  <2>2. asked' \in [Creds!Sides -> 1..(MaxMods + 1)]
    BY <2>1, CredTyped DEF CredInv
  <2>3. attempt' \in [Creds!Sides -> {"idle", "renewing", "forcing", "connecting", "ready", "failed"}]
    BY CredTyped DEF CredInv
  <2>4. open' \subseteq Creds!Sides
    BY CredTyped DEF CredInv
  <2>5. recent' \in BOOLEAN
    BY CredTyped DEF CredInv
  <2>6. forced' \in Nat
    BY CredTyped DEF CredInv
  <2> QED
    BY <2>2, <2>3, <2>4, <2>5, <2>6 DEF CredInv, CredTypes, Creds!CredTypeOK
<1>2. CredStages'
  BY DEF CredInv, CredTypes, Creds!CredTypeOK, Renewing, CredStages
<1>3. Creds!NothingLeftOpen'
  BY DEF CredInv, CredTypes, Creds!CredTypeOK, Renewing, CredStages, Creds!NothingLeftOpen
<1>4. SavedForUse'
  BY DEF CredInv, CredTypes, Creds!CredTypeOK, Renewing, CredStages, SavedForUse
<1>5. RenewedOnce'
  BY DEF CredInv, CredTypes, Creds!CredTypeOK, Renewing, CredStages, RenewedOnce
<1>6. TokenAsked'
  BY DEF CredInv, CredTypes, Creds!CredTypeOK, Renewing, CredStages, TokenAsked
<1>7. Creds!PasswordsStayTogether'
  BY DEF CredInv, CredTypes, Creds!CredTypeOK, Renewing, CredStages, Creds!PasswordsStayTogether
<1> QED
  BY <1>1, <1>2, <1>3, <1>4, <1>5, <1>6, <1>7 DEF CredInv

LEMMA CredEnds ==
    ASSUME CredInv, NEW s \in Creds!Sides, Creds!Ends(s)
    PROVE  CredInv'
<1> USE CredFacts DEF Creds!Ends, Creds!passwords
<1>1. CredTypes'
  BY DEF CredInv, CredTypes, CredStages, SavedForUse, Creds!CredTypeOK, Creds!Creds, Creds!Grants
<1>2. CredStages'
  BY DEF CredInv, CredTypes, Creds!CredTypeOK, Renewing, CredStages
<1>3. Creds!NothingLeftOpen'
  BY DEF CredInv, CredTypes, Creds!CredTypeOK, Renewing, CredStages, Creds!NothingLeftOpen
<1>4. SavedForUse'
  BY DEF CredInv, CredTypes, Creds!CredTypeOK, Renewing, CredStages, SavedForUse
<1>5. RenewedOnce'
  BY DEF CredInv, CredTypes, Creds!CredTypeOK, Renewing, CredStages, RenewedOnce
<1>6. TokenAsked'
  BY DEF CredInv, CredTypes, Creds!CredTypeOK, Renewing, CredStages, TokenAsked
<1>7. Creds!PasswordsStayTogether'
  BY DEF CredInv, CredTypes, Creds!CredTypeOK, Renewing, CredStages, Creds!PasswordsStayTogether
<1> QED
  BY <1>1, <1>2, <1>3, <1>4, <1>5, <1>6, <1>7 DEF CredInv

LEMMA CredStep ==
    ASSUME CredInv, Creds!CredNext
    PROVE  CredInv'
BY CredCreate, CredRefuseReceive, CredRefuseSend, CredAccept, CredModifyPassword, CredReauthorize, CredExpires, CredWindowPasses, CredReboot, CredConnect, CredRenewed, CredNotRenewed, CredEstablished, CredRefused, CredEnds
   DEF Creds!CredNext

\* The user gets the passwords that he asked for last.
LEMMA CredAsAsked ==
    ASSUME CredInv, CredInv', Creds!PasswordsAsAsked, Creds!CredNext
    PROVE  Creds!PasswordsAsAsked'
<1>1. cred \in Creds!Creds /\ wanted \in Creds!Pairs /\ unheard \in BOOLEAN
  BY CredTyped DEF CredInv, CredTypes, Creds!CredTypeOK
<1>2. ASSUME NEW keys \in (SUBSET Creds!PasswordKeys) \ {{}}, NEW p \in Passwords,
             Creds!ModifyPassword(keys, p)
      PROVE  Creds!PasswordsAsAsked'
  <2> SUFFICES ASSUME ~unheard' PROVE Creds!PasswordsOf(cred)' = wanted'
    BY DEF Creds!PasswordsAsAsked
  <2> DEFINE new == Creds!Meant(keys, p, wanted)
  <2>1. "password" \notin keys /\ Creds!PasswordsOf(cred) = wanted
    BY <1>1, <1>2 DEF Creds!ModifyPassword, Creds!PasswordsAsAsked
  <2>3. new \in Creds!Pairs
    BY <1>1, MeantTyped
  <2>4. cred' = [cred EXCEPT !.password = new.password, !.outgoingPassword = new.outgoingPassword]
        /\ wanted' = new
    BY <1>2, <2>1 DEF new, Creds!ModifyPassword, Creds!Throws
  <2> HIDE DEF new
  <2>5. cred'.password = new.password /\ cred'.outgoingPassword = new.outgoingPassword
    BY <1>1, <2>4 DEF Creds!Creds
  <2> QED
    BY <2>3, <2>4, <2>5 DEF Creds!PasswordsOf, Creds!Pairs
<1>3. CASE ~\E keys \in (SUBSET Creds!PasswordKeys) \ {{}}, p \in Passwords : Creds!ModifyPassword(keys, p)
  <2> DEFINE Kept == /\ cred'.password = cred.password /\ cred'.outgoingPassword = cred.outgoingPassword
                     /\ wanted' = wanted /\ unheard' = unheard
  <2>1. Kept
    <3>1. CASE Creds!Create \/ Creds!Reauthorize \/ Creds!Expires
      BY <1>1, <3>1 DEF Creds!Create, Creds!Reauthorize, Creds!Expires, Creds!Creds, Creds!passwords
    <3>2. CASE Creds!Reboot
      BY <3>2 DEF CredInv, SavedForUse, Creds!Reboot, Creds!passwords
    <3>3. CASE Creds!RefuseReceive \/ Creds!RefuseSend \/ Creds!Accept \/ Creds!WindowPasses
      BY <3>3 DEF Creds!RefuseReceive, Creds!RefuseSend, Creds!Accept, Creds!WindowPasses, Creds!passwords
    <3>4. ASSUME NEW s \in Creds!Sides, Creds!Renewed(s) PROVE Kept
      BY <1>1, <3>4 DEF Creds!Renewed, Creds!Creds, Creds!passwords
    <3>5. ASSUME NEW s \in Creds!Sides,
                 Creds!Connect(s) \/ Creds!NotRenewed(s) \/ Creds!Established(s) \/ Creds!Refused(s) \/ Creds!Ends(s)
          PROVE  Kept
      BY <3>5 DEF Creds!Connect, Creds!NotRenewed, Creds!Established, Creds!Refused, Creds!Ends, Creds!passwords
    <3> QED
      BY <1>3, <3>1, <3>2, <3>3, <3>4, <3>5 DEF Creds!CredNext
  <2> QED
    BY <2>1 DEF Creds!PasswordsAsAsked, Creds!PasswordsOf
<1> QED
  BY <1>2, <1>3

\* The credentials in use are those that are saved and were asked for last, the token is renewed by
\* force once in a while at most, and no connection is left open, however the probes, the connections
\* of both sides, the modifications and the restarts interleave.
THEOREM CredentialsInStepHolds == AnySpec => []CredentialsInStep
<1> DEFINE Inv == part = "creds" => CredInv /\ Creds!PasswordsAsAsked
<1>1. AnyInit => Inv
  <2>1. ASSUME Creds!CredInit PROVE CredInv /\ Creds!PasswordsAsAsked
    <3>1. CredTypes
      <4>1. cred \in Creds!Creds /\ oauth \in BOOLEAN /\ saved = <<>> /\ recent = FALSE /\ raced = FALSE
        BY <2>1 DEF Creds!CredInit
      <4>2. apart \in BOOLEAN /\ mods \in 0..MaxMods /\ forced \in Nat /\ open \subseteq Creds!Sides
        BY <2>1, CredFacts DEF Creds!CredInit
      <4>3. attempt \in [Creds!Sides -> {"idle", "renewing", "forcing", "connecting", "ready", "failed"}]
        BY <2>1 DEF Creds!CredInit
      <4>4. asked \in [Creds!Sides -> Creds!Grants] /\ stage = "none"
        BY <2>1, CredFacts DEF Creds!CredInit
      <4>5. wanted \in Creds!Pairs /\ unheard \in BOOLEAN
        BY <2>1, <4>1 DEF Creds!CredInit, Creds!PasswordsOf, Creds!Pairs, Creds!Creds
      <4> QED
        BY <4>1, <4>2, <4>3, <4>4, <4>5 DEF CredTypes, Creds!CredTypeOK
    <3>2. CredStages /\ SavedForUse /\ RenewedOnce /\ Creds!NothingLeftOpen
      BY <2>1, CredFacts DEF Creds!CredInit, CredStages, SavedForUse, RenewedOnce, Creds!NothingLeftOpen
    <3>3. TokenAsked /\ Creds!PasswordsStayTogether
      BY <2>1, CredFacts DEF Creds!CredInit, TokenAsked, Renewing, Creds!PasswordsStayTogether
    <3>4. Creds!PasswordsAsAsked
      BY <2>1 DEF Creds!CredInit, Creds!PasswordsAsAsked
    <3> QED
      BY <3>1, <3>2, <3>3, <3>4 DEF CredInv
  <2> QED
    BY <2>1 DEF AnyInit
<1>2. Inv /\ [AnyNext]_anyVars => Inv'
  <2> SUFFICES ASSUME Inv, [AnyNext]_anyVars, part' = "creds" PROVE CredInv' /\ Creds!PasswordsAsAsked'
    OBVIOUS
  <2>1. part = "creds" /\ CredInv /\ Creds!PasswordsAsAsked /\ (Creds!CredNext \/ UNCHANGED credVars)
    BY DEF AnyNext, anyVars
  <2>2. CASE UNCHANGED credVars
    BY <2>1, <2>2 DEF credVars, CredInv, CredTypes, CredStages, SavedForUse, RenewedOnce,
       TokenAsked, Renewing, Creds!NothingLeftOpen, Creds!PasswordsStayTogether, Creds!PasswordsAsAsked,
       Creds!PasswordsOf, Creds!CredTypeOK
  <2> QED
    BY <2>1, <2>2, CredStep, CredAsAsked
<1>3. Inv => CredentialsInStep
  BY DEF CredInv, CredTypes, SavedForUse, RenewedOnce, TokenAsked, CredentialsInStep,
     Creds!CredsInStep, Creds!SavedIsUsed, Creds!NotHammered, Creds!TokenIsOfGrant
<1> QED
  BY <1>1, <1>2, <1>3, PTL DEF AnySpec

-----------------------------------------------------------------------------
(* The servers of an address. *)

LookTypes ==
    /\ Servers!LookupTypeOK /\ MaxLookups \in Nat
    /\ value \in [Servers!Sources -> {<<>>} \cup ((0..MaxLookups) \X Servers!Sources)]
    /\ posted \in Seq((0..MaxLookups) \X Servers!Texts \X BOOLEAN)
    /\ found \in {<<>>} \cup ((0..MaxLookups) \X Servers!Sources)

\* Only the sources of the group that is being asked have a request, and only texts are parsed.
AskedOnly ==
    \A s \in Servers!Sources : /\ request[s] # "none" => s \in Servers!GroupOf[asking]
                               /\ request[s] = "parsing" => s \in Servers!Texts

\* As long as texts did not overlap: the text with the parser is that of the one request that
\* waits for it; a request that is resolved has its own config, if it gave one; no source of
\* an earlier group gave one; and what was found is what is preferred.
OwnText ==
    posted # <<>> => /\ Len(posted) = 1 /\ posted[1][1] = lookup
                     /\ request[posted[1][2]] = "parsing"
                     /\ (posted[1][3] <=> posted[1][2] \in gave)
OwnConfig ==
    \A s \in Servers!Sources :
        value[s] = IF s \in gave /\ request[s] = "resolved" THEN <<lookup, s>> ELSE <<>>
GaveNow ==
    asking # "idle" =>
        \A t \in gave :
            \/ t \in Servers!GroupOf[asking] /\ request[t] \in {"parsing", "resolved"}
            \/ t = "mx" /\ asking \notin {"local", "hosted"}
InOrder == ~overlapped => OwnText /\ OwnConfig /\ GaveNow

LookInv ==
    /\ LookTypes /\ AskedOnly /\ Servers!WaitingIsServed /\ InOrder /\ Servers!FoundIsPreferred

LEMMA LookFacts ==
    /\ Servers!Sources = {"local", "mxLocal", "mxIspdb", "subdomain", "wellknown", "ispdb", "subdir",
                          "autodiscover", "mx"}
    /\ Servers!Texts = {"local", "mxLocal", "mxIspdb", "subdomain", "wellknown", "ispdb"}
    /\ Servers!Probes = {"subdir", "autodiscover"}
    /\ DOMAIN Servers!GroupOf = {"idle", "local", "hosted", "mxLocal", "mxIspdb", "probe"}
    /\ Servers!GroupOf["idle"] = {} /\ Servers!GroupOf["local"] = {"local"}
    /\ Servers!GroupOf["hosted"] = {"subdomain", "wellknown", "ispdb", "mx"}
    /\ Servers!GroupOf["mxLocal"] = {"mxLocal"} /\ Servers!GroupOf["mxIspdb"] = {"mxIspdb"}
    /\ Servers!GroupOf["probe"] = {"subdir", "autodiscover"}
<1>1. /\ Servers!Texts = {"local", "mxLocal", "mxIspdb", "subdomain", "wellknown", "ispdb"}
      /\ Servers!Probes = {"subdir", "autodiscover"}
  BY DEF Servers!Texts, Servers!Hosted, Servers!Probes
<1>2. Servers!Sources = {"local", "mxLocal", "mxIspdb", "subdomain", "wellknown", "ispdb", "subdir",
                         "autodiscover", "mx"}
  BY <1>1 DEF Servers!Sources
<1>3. DOMAIN Servers!GroupOf = {"idle", "local", "hosted", "mxLocal", "mxIspdb", "probe"}
  BY DEF Servers!GroupOf
<1>4. /\ Servers!GroupOf["idle"] = {} /\ Servers!GroupOf["local"] = {"local"}
      /\ Servers!GroupOf["mxLocal"] = {"mxLocal"} /\ Servers!GroupOf["mxIspdb"] = {"mxIspdb"}
  BY DEF Servers!GroupOf
<1>5. Servers!GroupOf["hosted"] = {"subdomain", "wellknown", "ispdb", "mx"}
  BY DEF Servers!GroupOf, Servers!Hosted
<1>6. Servers!GroupOf["probe"] = {"subdir", "autodiscover"}
  BY DEF Servers!GroupOf, Servers!Probes
<1> QED
  BY <1>1, <1>2, <1>3, <1>4, <1>5, <1>6

LEMMA PairIsSome ==
    ASSUME NEW a, NEW b
    PROVE  <<a, b>> # <<>>
OBVIOUS

LEMMA LeastIs ==
    ASSUME NEW S \in SUBSET Nat, NEW i \in S, \A j \in S : i <= j
    PROVE  Servers!Min(S) = i
<1>1. \A x \in S : (\A y \in S : x =< y) => x = i
  <2> SUFFICES ASSUME NEW x \in S, x =< i PROVE x = i
    OBVIOUS
  <2>1. i =< x /\ i \in Nat /\ x \in Nat
    OBVIOUS
  <2> QED
    BY <2>1
<1>2. i \in S /\ \A y \in S : i =< y
  OBVIOUS
<1>3. (CHOOSE x \in S : \A y \in S : x =< y) = i
  BY <1>1, <1>2
<1> QED
  BY <1>3 DEF Servers!Min

\* First takes the config of the first source that has one.
LEMMA FirstOfTwo ==
    ASSUME NEW a, NEW b, NEW val
    PROVE  Servers!First(<<a, b>>, val) = IF val[a] # <<>> THEN val[a] ELSE val[b]
<1> DEFINE s == <<a, b>>
           has == {i \in DOMAIN s : val[s[i]] # <<>>}
<1>1. DOMAIN s = {1, 2} /\ s[1] = a /\ s[2] = b
  OBVIOUS
<1>2. Servers!First(s, val) = IF has = {} THEN <<>> ELSE val[s[Servers!Min(has)]]
  BY DEF Servers!First
<1> HIDE DEF s
<1>3. has \in SUBSET Nat
  BY <1>1
<1>4. CASE val[a] # <<>>
  <2>1. 1 \in has /\ \A j \in has : 1 <= j
    BY <1>1, <1>4
  <2>2. Servers!Min(has) = 1
    BY <2>1, <1>3, LeastIs
  <2> QED
    BY <1>1, <1>2, <1>4, <2>1, <2>2 DEF s
<1>5. CASE val[a] = <<>> /\ val[b] # <<>>
  <2>1. 2 \in has /\ \A j \in has : 2 <= j
    BY <1>1, <1>5
  <2>2. Servers!Min(has) = 2
    BY <2>1, <1>3, LeastIs
  <2> QED
    BY <1>1, <1>2, <1>5, <2>1, <2>2 DEF s
<1>6. CASE val[a] = <<>> /\ val[b] = <<>>
  <2>1. has = {}
    BY <1>1, <1>6
  <2> QED
    BY <1>2, <1>6, <2>1 DEF s
<1> QED
  BY <1>4, <1>5, <1>6

LEMMA FirstOfThree ==
    ASSUME NEW a, NEW b, NEW c, NEW val
    PROVE  Servers!First(<<a, b, c>>, val) =
               IF val[a] # <<>> THEN val[a] ELSE IF val[b] # <<>> THEN val[b] ELSE val[c]
<1> DEFINE s == <<a, b, c>>
           has == {i \in DOMAIN s : val[s[i]] # <<>>}
<1>1. DOMAIN s = {1, 2, 3} /\ s[1] = a /\ s[2] = b /\ s[3] = c
  OBVIOUS
<1>2. Servers!First(s, val) = IF has = {} THEN <<>> ELSE val[s[Servers!Min(has)]]
  BY DEF Servers!First
<1> HIDE DEF s
<1>3. has \in SUBSET Nat
  BY <1>1
<1>4. CASE val[a] # <<>>
  <2>1. 1 \in has /\ \A j \in has : 1 <= j
    BY <1>1, <1>4
  <2>2. Servers!Min(has) = 1
    BY <2>1, <1>3, LeastIs
  <2> QED
    BY <1>1, <1>2, <1>4, <2>1, <2>2 DEF s
<1>5. CASE val[a] = <<>> /\ val[b] # <<>>
  <2>1. 2 \in has /\ \A j \in has : 2 <= j
    BY <1>1, <1>5
  <2>2. Servers!Min(has) = 2
    BY <2>1, <1>3, LeastIs
  <2> QED
    BY <1>1, <1>2, <1>5, <2>1, <2>2 DEF s
<1>6. CASE val[a] = <<>> /\ val[b] = <<>> /\ val[c] # <<>>
  <2>1. 3 \in has /\ \A j \in has : 3 <= j
    BY <1>1, <1>6
  <2>2. Servers!Min(has) = 3
    BY <2>1, <1>3, LeastIs
  <2> QED
    BY <1>1, <1>2, <1>6, <2>1, <2>2 DEF s
<1>7. CASE val[a] = <<>> /\ val[b] = <<>> /\ val[c] = <<>>
  <2>1. has = {}
    BY <1>1, <1>7
  <2> QED
    BY <1>2, <1>7, <2>1 DEF s
<1> QED
  BY <1>4, <1>5, <1>6, <1>7

\* What is preferred among the sources G.
Best(G, n) == LET able == {i \in DOMAIN Servers!Preferred : Servers!Preferred[i] \in G}
              IN  IF able = {} THEN <<>> ELSE <<n, Servers!Preferred[Servers!Min(able)]>>

LEMMA PreferredFacts ==
    /\ DOMAIN Servers!Preferred = 1..8
    /\ Servers!Preferred[1] = "local" /\ Servers!Preferred[2] = "subdomain"
    /\ Servers!Preferred[3] = "wellknown" /\ Servers!Preferred[4] = "ispdb"
    /\ Servers!Preferred[5] = "mxLocal" /\ Servers!Preferred[6] = "mxIspdb"
    /\ Servers!Preferred[7] = "subdir" /\ Servers!Preferred[8] = "autodiscover"
BY DEF Servers!Preferred

LEMMA BestIs ==
    ASSUME NEW G, NEW n, NEW i \in 1..8, Servers!Preferred[i] \in G,
           \A j \in 1..8 : j < i => Servers!Preferred[j] \notin G
    PROVE  Best(G, n) = <<n, Servers!Preferred[i]>>
<1> DEFINE able == {k \in DOMAIN Servers!Preferred : Servers!Preferred[k] \in G}
<1>1. able \in SUBSET Nat /\ i \in able
  BY PreferredFacts
<1>2. \A j \in able : i <= j
  BY PreferredFacts
<1>3. Servers!Min(able) = i
  BY <1>1, <1>2, LeastIs
<1> QED
  BY <1>1, <1>3 DEF Best

LEMMA BestIsNone ==
    ASSUME NEW G, NEW n, \A j \in 1..8 : Servers!Preferred[j] \notin G
    PROVE  Best(G, n) = <<>>
BY PreferredFacts DEF Best

\* The types, one variable at a time.
LEMMA LookTyped ==
    ASSUME LookTypes
    PROVE  /\ lookup \in 0..MaxLookups /\ MaxLookups \in Nat
           /\ asking \in DOMAIN Servers!GroupOf
           /\ request \in [Servers!Sources -> {"none", "sent", "parsing", "resolved", "rejected"}]
           /\ value \in [Servers!Sources -> {<<>>} \cup ((0..MaxLookups) \X Servers!Sources)]
           /\ posted \in Seq((0..MaxLookups) \X Servers!Texts \X BOOLEAN)
           /\ found \in {<<>>} \cup ((0..MaxLookups) \X Servers!Sources)
           /\ gave \subseteq Servers!Sources /\ overlapped \in BOOLEAN
           /\ \A s \in Servers!Sources : value[s] # <<>> => request[s] = "resolved"
BY DEF LookTypes, Servers!LookupTypeOK

\* With nothing being asked there is no request.
LEMMA IdleHasNone ==
    ASSUME LookInv, asking = "idle", NEW s \in Servers!Sources
    PROVE  request[s] = "none"
BY LookFacts DEF LookInv, AskedOnly

\* A request that is sent is of the group that is being asked.
LEMMA SentIsAsked ==
    ASSUME LookInv, NEW s \in Servers!Sources, request[s] # "none"
    PROVE  asking # "idle" /\ s \in Servers!GroupOf[asking]
BY LookFacts DEF LookInv, AskedOnly

LEMMA LookLearn ==
    ASSUME LookInv, Servers!Learn
    PROVE  LookInv'
<1> USE DEF Servers!Learn, Servers!Ask
<1>1. LookTypes /\ LookTypes'
  <2>1. LookTypes
    BY DEF LookInv
  <2>2. /\ lookup' \in 0..MaxLookups /\ asking' = "local" /\ gave' = {} /\ overlapped' = overlapped
        /\ posted' = posted /\ found' = <<>>
    BY <2>1, LookTyped
  <2>3. request' \in [Servers!Sources -> {"none", "sent", "parsing", "resolved", "rejected"}]
    OBVIOUS
  <2>4. /\ value' \in [Servers!Sources -> {<<>>} \cup ((0..MaxLookups) \X Servers!Sources)]
        /\ \A s \in Servers!Sources : value'[s] = <<>>
    OBVIOUS
  <2> QED
    BY <2>1, <2>2, <2>3, <2>4, LookTyped, LookFacts DEF LookTypes, Servers!LookupTypeOK
<1>2. AskedOnly'
  BY DEF AskedOnly
<1>3. Servers!WaitingIsServed'
  BY LookFacts DEF Servers!WaitingIsServed
<1>4. InOrder'
  <2> SUFFICES ASSUME ~overlapped PROVE (OwnText /\ OwnConfig /\ GaveNow)'
    BY DEF InOrder
  <2>1. posted = <<>>
    <3> SUFFICES ASSUME posted # <<>> PROVE FALSE
      OBVIOUS
    <3>1. Len(posted) = 1 /\ request[posted[1][2]] = "parsing"
      BY DEF LookInv, InOrder, OwnText
    <3>2. posted[1][2] \in Servers!Texts
      BY <1>1, <3>1, LookTyped
    <3>3. posted[1][2] \in Servers!Sources
      BY <3>2, LookFacts
    <3> QED
      BY <3>1, <3>3, IdleHasNone
  <2>2. OwnText'
    BY <2>1 DEF OwnText
  <2>3. OwnConfig' /\ GaveNow'
    BY DEF OwnConfig, GaveNow
  <2> QED
    BY <2>2, <2>3
<1>5. Servers!FoundIsPreferred'
  BY DEF Servers!FoundIsPreferred
<1> QED
  BY <1>1, <1>2, <1>3, <1>4, <1>5 DEF LookInv

LEMMA LookFails ==
    ASSUME LookInv, NEW s \in Servers!Sources, Servers!Fails(s)
    PROVE  LookInv'
<1> USE DEF Servers!Fails
<1>1. LookTypes'
  <2>1. LookTypes /\ value[s] = <<>>
    BY LookTyped DEF LookInv
  <2>2. request' \in [Servers!Sources -> {"none", "sent", "parsing", "resolved", "rejected"}]
    BY <2>1, LookTyped
  <2>3. \A t \in Servers!Sources : value[t] # <<>> => request'[t] = "resolved"
    BY <2>1, LookTyped
  <2> QED
    BY <2>1, <2>2, <2>3, LookTyped DEF LookTypes, Servers!LookupTypeOK
<1>2. \A t \in Servers!Sources : request'[t] = IF t = s THEN "rejected" ELSE request[t]
  BY LookTyped DEF LookInv
<1>3. asking # "idle" /\ s \in Servers!GroupOf[asking]
  BY SentIsAsked
<1>4. AskedOnly'
  BY <1>2, <1>3 DEF AskedOnly, LookInv
<1>5. Servers!WaitingIsServed'
  BY <1>2, LookFacts DEF Servers!WaitingIsServed, LookInv
<1>6. InOrder'
  <2> SUFFICES ASSUME ~overlapped PROVE (OwnText /\ OwnConfig /\ GaveNow)'
    BY DEF InOrder
  <2>1. OwnText /\ OwnConfig /\ GaveNow
    BY DEF LookInv, InOrder
  <2>2. OwnText'
    <3> SUFFICES ASSUME posted # <<>> PROVE request'[posted[1][2]] = "parsing"
      BY <2>1 DEF OwnText
    <3>1. posted[1][2] \in Servers!Texts
      BY <2>1, LookTyped DEF LookInv, OwnText
    <3>2. posted[1][2] \in Servers!Sources
      BY <3>1, LookFacts
    <3> QED
      BY <1>2, <2>1, <3>2 DEF OwnText
  <2>3. OwnConfig'
    BY <1>2, <2>1 DEF OwnConfig
  <2>4. GaveNow'
    BY <1>2, <1>3, <2>1, LookTyped DEF GaveNow, LookInv
  <2> QED
    BY <2>2, <2>3, <2>4
<1>7. Servers!FoundIsPreferred'
  BY <1>3 DEF Servers!FoundIsPreferred
<1> QED
  BY <1>1, <1>4, <1>5, <1>6, <1>7 DEF LookInv

LEMMA LookAnswers ==
    ASSUME LookInv, NEW s \in Servers!Sources, Servers!Answers(s)
    PROVE  LookInv'
<1> USE DEF Servers!Answers
<1>0. LookTypes /\ lookup \in 0..MaxLookups /\ s \notin Servers!Texts
  BY LookTyped, LookFacts DEF LookInv
<1>1. \A t \in Servers!Sources : request'[t] = IF t = s THEN "resolved" ELSE request[t]
  BY <1>0, LookTyped
<1>2. \/ gave' = gave \cup {s} /\ \A t \in Servers!Sources : value'[t] = IF t = s THEN <<lookup, s>> ELSE value[t]
      \/ gave' = gave /\ value' = value /\ s = "mx"
  BY <1>0, LookTyped
<1>3. asking # "idle" /\ s \in Servers!GroupOf[asking]
  BY SentIsAsked
<1>4. LookTypes'
  <2>1. request' \in [Servers!Sources -> {"none", "sent", "parsing", "resolved", "rejected"}]
    BY <1>0, LookTyped
  <2>2. value' \in [Servers!Sources -> {<<>>} \cup ((0..MaxLookups) \X Servers!Sources)]
    BY <1>0, LookTyped
  <2>3. \A t \in Servers!Sources : value'[t] # <<>> => request'[t] = "resolved"
    BY <1>0, <1>1, <1>2, LookTyped
  <2>4. gave' \subseteq Servers!Sources
    BY <1>0, LookTyped
  <2> QED
    BY <1>0, <2>1, <2>2, <2>3, <2>4, LookTyped DEF LookTypes, Servers!LookupTypeOK
<1>5. AskedOnly'
  BY <1>1, <1>3 DEF AskedOnly, LookInv
<1>6. Servers!WaitingIsServed'
  BY <1>1, LookFacts DEF Servers!WaitingIsServed, LookInv
<1>7. InOrder'
  <2> SUFFICES ASSUME ~overlapped PROVE (OwnText /\ OwnConfig /\ GaveNow)'
    BY DEF InOrder
  <2>1. OwnText /\ OwnConfig /\ GaveNow
    BY DEF LookInv, InOrder
  <2>2. OwnText'
    <3> SUFFICES ASSUME posted # <<>>
                 PROVE request'[posted[1][2]] = "parsing" /\ (posted[1][3] <=> posted[1][2] \in gave')
      BY <2>1 DEF OwnText
    <3>1. posted[1][2] \in Servers!Texts
      BY <1>0, <2>1, LookTyped DEF OwnText
    <3>2. posted[1][2] \in Servers!Sources /\ posted[1][2] # s
      BY <1>0, <3>1, LookFacts
    <3> QED
      BY <1>1, <1>2, <2>1, <3>2 DEF OwnText
  <2>3. OwnConfig'
    <3>1. s \notin gave
      <4>1. asking \in DOMAIN Servers!GroupOf /\ request[s] = "sent"
        BY <1>0, LookTyped
      <4>2. s = "mx" => asking \in {"local", "hosted"}
        BY <1>3, <4>1, LookFacts
      <4> QED
        BY <1>3, <2>1, <4>1, <4>2 DEF GaveNow
    <3> SUFFICES ASSUME NEW t \in Servers!Sources
                 PROVE  value'[t] = IF t \in gave' /\ request'[t] = "resolved" THEN <<lookup, t>> ELSE <<>>
      BY DEF OwnConfig
    <3> QED
      BY <1>1, <1>2, <2>1, <3>1 DEF OwnConfig
  <2>4. GaveNow'
    BY <1>1, <1>2, <1>3, <1>0, <2>1, LookTyped DEF GaveNow
  <2> QED
    BY <2>2, <2>3, <2>4
<1>8. Servers!FoundIsPreferred'
  BY <1>3 DEF Servers!FoundIsPreferred
<1> QED
  BY <1>4, <1>5, <1>6, <1>7, <1>8 DEF LookInv

LEMMA LookLoads ==
    ASSUME LookInv, NEW s \in Servers!Sources, Servers!Loads(s)
    PROVE  LookInv'
<1>0. LookTypes /\ lookup \in 0..MaxLookups /\ s \in Servers!Texts /\ request[s] = "sent"
  BY DEF LookInv, LookTypes, Servers!LookupTypeOK, Servers!Loads
<1>1. PICK has \in BOOLEAN : /\ posted' = Append(posted, <<lookup, s, has>>)
                             /\ gave' = IF has THEN gave \cup {s} ELSE gave
  BY DEF Servers!Loads
<1>2. /\ request' = [request EXCEPT ![s] = "parsing"]
      /\ overlapped' = (overlapped \/ posted # <<>>)
      /\ lookup' = lookup /\ asking' = asking /\ value' = value /\ found' = found
  BY DEF Servers!Loads
<1>3. \A t \in Servers!Sources : request'[t] = IF t = s THEN "parsing" ELSE request[t]
  BY <1>0, <1>2, LookTyped
<1>4. asking # "idle" /\ s \in Servers!GroupOf[asking]
  BY <1>0, SentIsAsked
<1>5. posted \in Seq((0..MaxLookups) \X Servers!Texts \X BOOLEAN)
  BY <1>0, LookTyped
<1>6. <<lookup, s, has>> \in (0..MaxLookups) \X Servers!Texts \X BOOLEAN
  BY <1>0
<1>7. LookTypes'
  <2>1. request' \in [Servers!Sources -> {"none", "sent", "parsing", "resolved", "rejected"}]
    BY <1>0, <1>2, LookTyped
  <2>2. value[s] = <<>>
    BY <1>0, LookTyped
  <2>3. \A t \in Servers!Sources : value'[t] # <<>> => request'[t] = "resolved"
    BY <1>0, <1>2, <1>3, <2>2, LookTyped
  <2>4. gave' \subseteq Servers!Sources
    BY <1>0, <1>1, LookTyped
  <2>5. overlapped' \in BOOLEAN
    BY <1>0, <1>2, LookTyped
  <2>6. posted' \in Seq((0..MaxLookups) \X Servers!Texts \X BOOLEAN)
    BY <1>1, <1>5, <1>6
  <2> QED
    BY <1>0, <1>2, <2>1, <2>3, <2>4, <2>5, <2>6, LookTyped DEF LookTypes, Servers!LookupTypeOK
<1>8. AskedOnly'
  BY <1>0, <1>2, <1>3, <1>4 DEF AskedOnly, LookInv
<1>9. Servers!WaitingIsServed'
  <2> SUFFICES ASSUME NEW t \in Servers!Texts, request'[t] = "parsing"
               PROVE  \E i \in 1..Len(posted') : posted'[i][1] = lookup /\ posted'[i][2] = t
    BY <1>2 DEF Servers!WaitingIsServed
  <2>1. Len(posted') = Len(posted) + 1 /\ Len(posted) \in Nat
    BY <1>1, <1>5, <1>6
  <2>2. \A i \in 1..Len(posted) : posted'[i] = posted[i]
    BY <1>1, <1>5, <1>6
  <2>3. posted'[Len(posted) + 1] = <<lookup, s, has>>
    BY <1>1, <1>5, <1>6
  <2>4. CASE t = s
    <3>1. Len(posted) + 1 \in 1..Len(posted')
      BY <2>1
    <3>2. posted'[Len(posted) + 1][1] = lookup /\ posted'[Len(posted) + 1][2] = t
      BY <2>3, <2>4
    <3> QED
      BY <3>1, <3>2
  <2>5. CASE t # s
    <3>1. request[t] = "parsing"
      BY <1>3, <2>5, LookFacts
    <3>2. PICK i \in 1..Len(posted) : posted[i][1] = lookup /\ posted[i][2] = t
      BY <3>1 DEF LookInv, Servers!WaitingIsServed
    <3>3. i \in 1..Len(posted')
      BY <2>1
    <3> QED
      BY <2>2, <3>2, <3>3
  <2> QED
    BY <2>4, <2>5
<1>10. InOrder'
  <2> SUFFICES ASSUME ~overlapped' PROVE (OwnText /\ OwnConfig /\ GaveNow)'
    BY DEF InOrder
  <2>1. ~overlapped /\ posted = <<>>
    BY <1>0, <1>2, LookTyped
  <2>2. OwnText /\ OwnConfig /\ GaveNow
    BY <2>1 DEF LookInv, InOrder
  <2>3. s \notin gave
    <3>1. asking \in DOMAIN Servers!GroupOf
      BY <1>0, LookTyped
    <3>2. s # "mx"
      BY <1>0, LookFacts
    <3> QED
      BY <1>0, <1>4, <2>2, <3>2 DEF GaveNow
  <2>4. OwnText'
    <3>1. Len(posted') = 1 /\ posted'[1] = <<lookup, s, has>>
      BY <1>1, <1>5, <1>6, <2>1
    <3>2. s \in gave' <=> has
      BY <1>1, <2>3
    <3>3. request'[s] = "parsing"
      BY <1>3
    <3> QED
      BY <1>2, <3>1, <3>2, <3>3 DEF OwnText
  <2>5. OwnConfig'
    <3> SUFFICES ASSUME NEW t \in Servers!Sources
                 PROVE  value[t] = IF t \in gave' /\ request'[t] = "resolved" THEN <<lookup, t>> ELSE <<>>
      BY <1>2 DEF OwnConfig
    <3>1. CASE t = s
      BY <1>0, <1>3, <2>2, <3>1 DEF OwnConfig
    <3>2. CASE t # s
      BY <1>1, <1>3, <2>2, <3>2 DEF OwnConfig
    <3> QED
      BY <3>1, <3>2
  <2>6. GaveNow'
    <3> SUFFICES ASSUME NEW t \in gave'
                 PROVE  \/ t \in Servers!GroupOf[asking] /\ request'[t] \in {"parsing", "resolved"}
                        \/ t = "mx" /\ asking \notin {"local", "hosted"}
      BY <1>2 DEF GaveNow
    <3>1. CASE t = s
      BY <1>3, <1>4, <3>1
    <3>2. CASE t # s
      <4>1. t \in gave /\ t \in Servers!Sources
        BY <1>0, <1>1, <3>2, LookTyped
      <4> QED
        BY <1>3, <1>4, <2>2, <3>2, <4>1 DEF GaveNow
    <3> QED
      BY <3>1, <3>2
  <2> QED
    BY <2>4, <2>5, <2>6
<1>11. Servers!FoundIsPreferred'
  BY <1>2, <1>4 DEF Servers!FoundIsPreferred
<1> QED
  BY <1>7, <1>8, <1>9, <1>10, <1>11 DEF LookInv

LEMMA LookParsed ==
    ASSUME LookInv, Servers!Parsed
    PROVE  LookInv'
<1> DEFINE text == Head(posted)
           config == IF text[3] THEN <<text[1], text[2]>> ELSE <<>>
<1>0. LookTypes /\ posted # <<>> /\ posted \in Seq((0..MaxLookups) \X Servers!Texts \X BOOLEAN)
  BY LookTyped DEF LookInv, Servers!Parsed
<1>1. posted[1] \in (0..MaxLookups) \X Servers!Texts \X BOOLEAN /\ text = posted[1]
  BY <1>0
<1>2. config \in {<<>>} \cup ((0..MaxLookups) \X Servers!Sources)
  BY <1>1, LookFacts
<1>3. /\ request' = [s \in Servers!Sources |-> IF request[s] = "parsing" THEN "resolved" ELSE request[s]]
      /\ value' = [s \in Servers!Sources |-> IF request[s] = "parsing" THEN config ELSE value[s]]
      /\ posted' = Tail(posted)
      /\ lookup' = lookup /\ asking' = asking /\ found' = found /\ gave' = gave /\ overlapped' = overlapped
  BY DEF Servers!Parsed
<1> HIDE DEF config, text
<1>4. LookTypes'
  <2>1. request' \in [Servers!Sources -> {"none", "sent", "parsing", "resolved", "rejected"}]
    BY <1>0, <1>3, LookTyped
  <2>2. value' \in [Servers!Sources -> {<<>>} \cup ((0..MaxLookups) \X Servers!Sources)]
    BY <1>0, <1>2, <1>3, LookTyped
  <2>3. \A s \in Servers!Sources : value'[s] # <<>> => request'[s] = "resolved"
    BY <1>0, <1>3, LookTyped
  <2>4. posted' \in Seq((0..MaxLookups) \X Servers!Texts \X BOOLEAN)
    BY <1>0, <1>3
  <2> QED
    BY <1>0, <1>3, <2>1, <2>2, <2>3, <2>4, LookTyped DEF LookTypes, Servers!LookupTypeOK
<1>5. AskedOnly'
  BY <1>3 DEF AskedOnly, LookInv
<1>6. Servers!WaitingIsServed'
  BY <1>3, LookFacts DEF Servers!WaitingIsServed
<1>7. InOrder'
  <2> SUFFICES ASSUME ~overlapped PROVE (OwnText /\ OwnConfig /\ GaveNow)'
    BY <1>3 DEF InOrder
  <2>1. OwnText /\ OwnConfig /\ GaveNow
    BY DEF LookInv, InOrder
  <2>2. Len(posted) = 1 /\ posted[1][1] = lookup /\ (posted[1][3] <=> posted[1][2] \in gave)
    BY <1>0, <2>1 DEF OwnText
  <2>3. \A s \in Servers!Sources : request[s] = "parsing" => posted[1][2] = s
    <3> SUFFICES ASSUME NEW s \in Servers!Sources, request[s] = "parsing" PROVE posted[1][2] = s
      OBVIOUS
    <3>1. s \in Servers!Texts
      BY DEF LookInv, AskedOnly
    <3>2. PICK i \in 1..Len(posted) : posted[i][2] = s
      BY <3>1 DEF LookInv, Servers!WaitingIsServed
    <3> QED
      BY <2>2, <3>2
  <2>4. OwnText'
    <3>1. posted' = <<>>
      BY SMTT(30), <1>0, <1>3, <2>2
    <3> QED
      BY <3>1 DEF OwnText
  <2>5. OwnConfig'
    <3> SUFFICES ASSUME NEW s \in Servers!Sources
                 PROVE  value'[s] = IF s \in gave /\ request'[s] = "resolved" THEN <<lookup, s>> ELSE <<>>
      BY <1>3 DEF OwnConfig
    <3>1. CASE request[s] = "parsing"
      <4>1. posted[1][2] = s
        BY <2>3, <3>1
      <4>2. config = IF s \in gave THEN <<lookup, s>> ELSE <<>>
        BY <1>1, <2>2, <4>1 DEF config
      <4> QED
        BY <1>3, <3>1, <4>2
    <3>2. CASE request[s] # "parsing"
      BY <1>3, <2>1, <3>2 DEF OwnConfig
    <3> QED
      BY <3>1, <3>2
  <2>6. GaveNow'
    <3>1. gave \subseteq Servers!Sources
      BY <1>0, LookTyped
    <3> QED
      BY <1>3, <2>1, <3>1 DEF GaveNow
  <2> QED
    BY <2>4, <2>5, <2>6
<1>8. Servers!FoundIsPreferred'
  BY <1>3 DEF Servers!FoundIsPreferred, LookInv
<1> QED
  BY <1>4, <1>5, <1>6, <1>7, <1>8 DEF LookInv

\* What a group of sources that have all come to an end has: the config of each that gave one.
LEMMA GroupHas ==
    ASSUME LookInv, asking # "idle", ~overlapped,
           \A s \in Servers!GroupOf[asking] : request[s] \in {"resolved", "rejected"}
    PROVE  /\ posted = <<>>
           /\ \A s \in Servers!GroupOf[asking] :
                 value[s] = IF s \in gave THEN <<lookup, s>> ELSE <<>>
           /\ \A s \in gave : \/ s \in Servers!GroupOf[asking]
                              \/ s = "mx" /\ asking \notin {"local", "hosted"}
<1>1. OwnText /\ OwnConfig /\ GaveNow
  BY DEF LookInv, InOrder
<1>2. LookTypes /\ asking \in DOMAIN Servers!GroupOf
  BY LookTyped DEF LookInv
<1>3. Servers!GroupOf[asking] \subseteq Servers!Sources
  BY <1>2, LookFacts
<1>4. posted = <<>>
  <2> SUFFICES ASSUME posted # <<>> PROVE FALSE
    OBVIOUS
  <2>1. Len(posted) = 1 /\ request[posted[1][2]] = "parsing"
    BY <1>1 DEF OwnText
  <2>2. posted[1][2] \in Servers!Texts
    BY <1>2, <2>1, LookTyped
  <2>3. posted[1][2] \in Servers!Sources
    BY <2>2, LookFacts
  <2>4. posted[1][2] \in Servers!GroupOf[asking]
    BY <2>1, <2>3 DEF LookInv, AskedOnly
  <2> QED
    BY <2>1, <2>4
<1>5. ASSUME NEW s \in Servers!GroupOf[asking]
      PROVE  value[s] = IF s \in gave THEN <<lookup, s>> ELSE <<>>
  <2>1. s \in gave => request[s] \in {"parsing", "resolved"}
    <3>1. s = "mx" => asking \in {"local", "hosted"}
      BY <1>2, LookFacts
    <3> QED
      BY <1>1, <3>1 DEF GaveNow
  <2> QED
    BY <1>1, <1>3, <2>1 DEF OwnConfig
<1> QED
  BY <1>1, <1>4, <1>5 DEF GaveNow

\* The config that a group comes to is what is preferred among all that gave one, and it
\* has none only if no source that counts gave one.
LEMMA ConfigIsBest ==
    ASSUME LookTypes, asking # "idle",
           \A s \in Servers!GroupOf[asking] : value[s] = IF s \in gave THEN <<lookup, s>> ELSE <<>>,
           \A s \in gave : s \in Servers!GroupOf[asking] \/ s = "mx"
    PROVE  /\ Servers!Config = Best(gave, lookup)
           /\ Servers!Config = <<>> => \A s \in gave : s = "mx"
<1> DEFINE v(s) == IF s \in gave THEN <<lookup, s>> ELSE <<>>
<1>0. \A s : <<lookup, s>> # <<>>
  BY PairIsSome
<1>1. asking \in {"local", "hosted", "mxLocal", "mxIspdb", "probe"}
  BY LookTyped, LookFacts
<1>2. CASE asking = "local"
  <2>1. Servers!Config = v("local")
    BY <1>2, LookFacts DEF Servers!Config
  <2>2. \A s \in gave : s \in {"local", "mx"}
    BY <1>2, LookFacts
  <2>3. CASE "local" \in gave
    <3>1. \A j \in 1..8 : j < 1 => Servers!Preferred[j] \notin gave
      OBVIOUS
    <3>2. Best(gave, lookup) = <<lookup, "local">>
      BY <2>3, <3>1, BestIs, PreferredFacts
    <3> QED
      BY <1>0, <2>1, <2>3, <3>2
  <2>4. CASE "local" \notin gave
    <3>1. \A j \in 1..8 : Servers!Preferred[j] \notin gave
      BY <2>2, <2>4, PreferredFacts
    <3> QED
      BY <2>1, <2>2, <2>4, <3>1, BestIsNone
  <2> QED
    BY <2>3, <2>4
<1>3. CASE asking = "mxLocal"
  <2>1. Servers!Config = v("mxLocal")
    BY <1>3, LookFacts DEF Servers!Config
  <2>2. \A s \in gave : s \in {"mxLocal", "mx"}
    BY <1>3, LookFacts
  <2>3. CASE "mxLocal" \in gave
    <3>1. \A j \in 1..8 : j < 5 => Servers!Preferred[j] \notin gave
      BY <2>2, PreferredFacts
    <3>2. Best(gave, lookup) = <<lookup, "mxLocal">>
      BY <2>3, <3>1, BestIs, PreferredFacts
    <3> QED
      BY <1>0, <2>1, <2>3, <3>2
  <2>4. CASE "mxLocal" \notin gave
    <3>1. \A j \in 1..8 : Servers!Preferred[j] \notin gave
      BY <2>2, <2>4, PreferredFacts
    <3> QED
      BY <2>1, <2>2, <2>4, <3>1, BestIsNone
  <2> QED
    BY <2>3, <2>4
<1>4. CASE asking = "mxIspdb"
  <2>1. Servers!Config = v("mxIspdb")
    BY <1>4, LookFacts DEF Servers!Config
  <2>2. \A s \in gave : s \in {"mxIspdb", "mx"}
    BY <1>4, LookFacts
  <2>3. CASE "mxIspdb" \in gave
    <3>1. \A j \in 1..8 : j < 6 => Servers!Preferred[j] \notin gave
      BY <2>2, PreferredFacts
    <3>2. Best(gave, lookup) = <<lookup, "mxIspdb">>
      BY <2>3, <3>1, BestIs, PreferredFacts
    <3> QED
      BY <1>0, <2>1, <2>3, <3>2
  <2>4. CASE "mxIspdb" \notin gave
    <3>1. \A j \in 1..8 : Servers!Preferred[j] \notin gave
      BY <2>2, <2>4, PreferredFacts
    <3> QED
      BY <2>1, <2>2, <2>4, <3>1, BestIsNone
  <2> QED
    BY <2>3, <2>4
<1>5. CASE asking = "hosted"
  <2>1. /\ value["subdomain"] = v("subdomain") /\ value["wellknown"] = v("wellknown")
        /\ value["ispdb"] = v("ispdb")
    BY <1>5, LookFacts
  <2>2. Servers!Config = Servers!First(<<"subdomain", "wellknown", "ispdb">>, value)
    BY <1>5 DEF Servers!Config
  <2>3. Servers!Config = IF v("subdomain") # <<>> THEN v("subdomain")
                         ELSE IF v("wellknown") # <<>> THEN v("wellknown") ELSE v("ispdb")
    BY <2>1, <2>2, FirstOfThree
  <2>4. \A s \in gave : s \in {"subdomain", "wellknown", "ispdb", "mx"}
    BY <1>5, LookFacts
  <2>5. CASE "subdomain" \in gave
    <3>1. \A j \in 1..8 : j < 2 => Servers!Preferred[j] \notin gave
      BY <2>4, PreferredFacts
    <3>2. Best(gave, lookup) = <<lookup, "subdomain">>
      BY <2>5, <3>1, BestIs, PreferredFacts
    <3> QED
      BY <1>0, <2>3, <2>5, <3>2
  <2>6. CASE "subdomain" \notin gave /\ "wellknown" \in gave
    <3>1. \A j \in 1..8 : j < 3 => Servers!Preferred[j] \notin gave
      BY <2>4, <2>6, PreferredFacts
    <3>2. Best(gave, lookup) = <<lookup, "wellknown">>
      BY <2>6, <3>1, BestIs, PreferredFacts
    <3> QED
      BY <1>0, <2>3, <2>6, <3>2
  <2>7. CASE "subdomain" \notin gave /\ "wellknown" \notin gave /\ "ispdb" \in gave
    <3>1. \A j \in 1..8 : j < 4 => Servers!Preferred[j] \notin gave
      BY <2>4, <2>7, PreferredFacts
    <3>2. Best(gave, lookup) = <<lookup, "ispdb">>
      BY <2>7, <3>1, BestIs, PreferredFacts
    <3> QED
      BY <1>0, <2>3, <2>7, <3>2
  <2>8. CASE "subdomain" \notin gave /\ "wellknown" \notin gave /\ "ispdb" \notin gave
    <3>1. \A j \in 1..8 : Servers!Preferred[j] \notin gave
      BY <2>4, <2>8, PreferredFacts
    <3>2. Servers!Config = <<>>
      BY <2>3, <2>8
    <3> QED
      BY <2>4, <2>8, <3>1, <3>2, BestIsNone
  <2> QED
    BY <2>5, <2>6, <2>7, <2>8
<1>6. CASE asking = "probe"
  <2>1. value["subdir"] = v("subdir") /\ value["autodiscover"] = v("autodiscover")
    BY <1>6, LookFacts
  <2>2. Servers!Config = Servers!First(<<"subdir", "autodiscover">>, value)
    BY <1>6 DEF Servers!Config
  <2>3. Servers!Config = IF v("subdir") # <<>> THEN v("subdir") ELSE v("autodiscover")
    BY <2>1, <2>2, FirstOfTwo
  <2>4. \A s \in gave : s \in {"subdir", "autodiscover", "mx"}
    BY <1>6, LookFacts
  <2>5. CASE "subdir" \in gave
    <3>1. \A j \in 1..8 : j < 7 => Servers!Preferred[j] \notin gave
      BY <2>4, PreferredFacts
    <3>2. Best(gave, lookup) = <<lookup, "subdir">>
      BY <2>5, <3>1, BestIs, PreferredFacts
    <3> QED
      BY <1>0, <2>3, <2>5, <3>2
  <2>6. CASE "subdir" \notin gave /\ "autodiscover" \in gave
    <3>1. \A j \in 1..8 : j < 8 => Servers!Preferred[j] \notin gave
      BY <2>4, <2>6, PreferredFacts
    <3>2. Best(gave, lookup) = <<lookup, "autodiscover">>
      BY <2>6, <3>1, BestIs, PreferredFacts
    <3> QED
      BY <1>0, <2>3, <2>6, <3>2
  <2>7. CASE "subdir" \notin gave /\ "autodiscover" \notin gave
    <3>1. \A j \in 1..8 : Servers!Preferred[j] \notin gave
      BY <2>4, <2>7, PreferredFacts
    <3>2. Servers!Config = <<>>
      BY <2>3, <2>7
    <3> QED
      BY <2>4, <2>7, <3>1, <3>2, BestIsNone
  <2> QED
    BY <2>5, <2>6, <2>7
<1> QED
  BY <1>1, <1>2, <1>3, <1>4, <1>5, <1>6

\* What a group comes to is a config of one of its sources, or none.
LEMMA ConfigTyped ==
    ASSUME LookTypes, asking # "idle"
    PROVE  Servers!Config \in {<<>>} \cup ((0..MaxLookups) \X Servers!Sources)
<1> DEFINE C == {<<>>} \cup ((0..MaxLookups) \X Servers!Sources)
<1>1. asking \in {"local", "hosted", "mxLocal", "mxIspdb", "probe"}
  BY LookTyped, LookFacts
<1>2. /\ value["local"] \in C /\ value["mxLocal"] \in C /\ value["mxIspdb"] \in C
      /\ value["subdomain"] \in C /\ value["wellknown"] \in C /\ value["ispdb"] \in C
      /\ value["subdir"] \in C /\ value["autodiscover"] \in C
  BY LookTyped, LookFacts
<1> HIDE DEF C
<1>3. CASE asking = "hosted"
  <2>1. Servers!Config = Servers!First(<<"subdomain", "wellknown", "ispdb">>, value)
    BY <1>3 DEF Servers!Config
  <2> QED
    BY <1>2, <2>1, FirstOfThree DEF C
<1>4. CASE asking = "probe"
  <2>1. Servers!Config = Servers!First(<<"subdir", "autodiscover">>, value)
    BY <1>4 DEF Servers!Config
  <2> QED
    BY <1>2, <2>1, FirstOfTwo DEF C
<1>5. CASE asking \notin {"hosted", "probe"}
  <2>1. Servers!Config = value[asking]
    BY <1>5 DEF Servers!Config
  <2> QED
    BY <1>1, <1>2, <1>5, <2>1 DEF C
<1> QED
  BY <1>3, <1>4, <1>5

LEMMA LookProceed ==
    ASSUME LookInv, Servers!Proceed
    PROVE  LookInv'
<1> DEFINE g == IF Servers!Config # <<>> THEN "idle" ELSE Servers!Following
<1>0. LookTypes /\ asking # "idle" /\ asking \in {"local", "hosted", "mxLocal", "mxIspdb", "probe"}
  BY LookTyped, LookFacts DEF LookInv, Servers!Proceed
<1>1. /\ \A s \in Servers!GroupOf[asking] : request[s] \in {"resolved", "rejected"}
      /\ found' = Servers!Config /\ asking' = g
      /\ request' = [s \in Servers!Sources |-> IF s \in Servers!GroupOf[g] THEN "sent" ELSE "none"]
      /\ value' = [s \in Servers!Sources |-> <<>>]
      /\ lookup' = lookup /\ posted' = posted /\ gave' = gave /\ overlapped' = overlapped
  BY DEF Servers!Proceed, Servers!Ask
<1>2. /\ g \in {"idle", "hosted", "mxLocal", "mxIspdb", "probe"}
      /\ g = "hosted" => asking = "local"
      /\ g = "idle" => Servers!Config # <<>> \/ asking = "probe"
      /\ g # "idle" => Servers!Config = <<>>
  <2>1. /\ Servers!Following \in {"idle", "hosted", "mxLocal", "mxIspdb", "probe"}
        /\ Servers!Following = "hosted" => asking = "local"
        /\ Servers!Following = "idle" => asking = "probe"
    BY <1>0 DEF Servers!Following
  <2> QED
    BY <2>1
<1> HIDE DEF g
<1>3. LookTypes'
  <2>1. asking' \in DOMAIN Servers!GroupOf
    BY <1>1, <1>2, LookFacts
  <2>2. request' \in [Servers!Sources -> {"none", "sent", "parsing", "resolved", "rejected"}]
    BY <1>1
  <2>3. /\ value' \in [Servers!Sources -> {<<>>} \cup ((0..MaxLookups) \X Servers!Sources)]
        /\ \A s \in Servers!Sources : value'[s] = <<>>
    BY <1>1
  <2>4. found' \in {<<>>} \cup ((0..MaxLookups) \X Servers!Sources)
    BY <1>0, <1>1, ConfigTyped
  <2> QED
    BY <1>0, <1>1, <2>1, <2>2, <2>3, <2>4, LookTyped DEF LookTypes, Servers!LookupTypeOK
<1>4. AskedOnly'
  BY <1>1 DEF AskedOnly
<1>5. Servers!WaitingIsServed'
  BY <1>1, LookFacts DEF Servers!WaitingIsServed
<1>6. ASSUME ~overlapped
      PROVE  /\ posted = <<>> /\ Servers!Config = Best(gave, lookup)
             /\ Servers!Config = <<>> => \A s \in gave : s = "mx" /\ asking # "local"
  <2>1. /\ posted = <<>>
        /\ \A s \in Servers!GroupOf[asking] : value[s] = IF s \in gave THEN <<lookup, s>> ELSE <<>>
        /\ \A s \in gave : \/ s \in Servers!GroupOf[asking]
                           \/ s = "mx" /\ asking \notin {"local", "hosted"}
    BY <1>0, <1>1, <1>6, GroupHas
  <2>2. \A s \in gave : s \in Servers!GroupOf[asking] \/ s = "mx"
    BY <2>1
  <2>3. /\ Servers!Config = Best(gave, lookup)
        /\ Servers!Config = <<>> => \A s \in gave : s = "mx"
    BY <1>0, <2>1, <2>2, ConfigIsBest
  <2>4. asking = "local" => "mx" \notin Servers!GroupOf[asking]
    BY LookFacts
  <2> QED
    BY <2>1, <2>3, <2>4
<1>7. InOrder'
  <2> SUFFICES ASSUME ~overlapped PROVE (OwnText /\ OwnConfig /\ GaveNow)'
    BY <1>1 DEF InOrder
  <2>1. OwnText'
    BY <1>1, <1>6 DEF OwnText
  <2>2. OwnConfig'
    BY <1>1 DEF OwnConfig
  <2>3. GaveNow'
    <3> SUFFICES ASSUME asking' # "idle", NEW s \in gave PROVE s = "mx" /\ asking' \notin {"local", "hosted"}
      BY <1>1 DEF GaveNow
    <3>1. s = "mx" /\ asking # "local"
      BY <1>1, <1>2, <1>6
    <3> QED
      BY <1>1, <1>2, <3>1
  <2> QED
    BY <2>1, <2>2, <2>3
<1>8. Servers!FoundIsPreferred'
  BY <1>1, <1>6 DEF Servers!FoundIsPreferred, Best
<1> QED
  BY <1>3, <1>4, <1>5, <1>7, <1>8 DEF LookInv

LEMMA LookStep ==
    ASSUME LookInv, Servers!LookupNext
    PROVE  LookInv'
BY LookLearn, LookParsed, LookProceed, LookLoads, LookFails, LookAnswers DEF Servers!LookupNext

\* A lookup comes to the config of the source that is preferred among all those of the domain that
\* have one, whichever answered first (autoconfig_lookup.js), as long as the parser never had two
\* texts at once (configparser-main.js), and what waits for the parser has its text there.
THEOREM ServersAreTrueHolds == AnySpec => []ServersAreTrue
<1> DEFINE Inv == part = "servers" => LookInv
<1>1. AnyInit => Inv
  <2>1. ASSUME Servers!LookupInit PROVE LookInv
    <3>1. /\ lookup = 0 /\ asking = "idle" /\ posted = <<>> /\ found = <<>> /\ gave = {} /\ overlapped = FALSE
          /\ request = [s \in Servers!Sources |-> "none"] /\ value = [s \in Servers!Sources |-> <<>>]
      BY <2>1 DEF Servers!LookupInit
    <3>2. LookTypes
      <4>1. /\ request \in [Servers!Sources -> {"none", "sent", "parsing", "resolved", "rejected"}]
            /\ \A s \in Servers!Sources : value[s] = <<>>
        BY <3>1
      <4>2. value \in [Servers!Sources -> {<<>>} \cup ((0..MaxLookups) \X Servers!Sources)]
        BY <3>1
      <4>3. posted \in Seq((0..MaxLookups) \X Servers!Texts \X BOOLEAN) /\ asking \in DOMAIN Servers!GroupOf
        BY <3>1, LookFacts
      <4>4. lookup \in 0..MaxLookups /\ MaxLookups \in Nat
        BY <3>1, ServersAssumption
      <4>5. gave \subseteq Servers!Sources /\ overlapped \in BOOLEAN
        BY <3>1
      <4>6. Servers!LookupTypeOK
        BY <4>1, <4>3, <4>4, <4>5 DEF Servers!LookupTypeOK
      <4> QED
        BY <3>1, <4>2, <4>3, <4>4, <4>6 DEF LookTypes
    <3>3. AskedOnly /\ Servers!WaitingIsServed
      BY <3>1, LookFacts DEF AskedOnly, Servers!WaitingIsServed
    <3>4. InOrder
      BY <3>1 DEF InOrder, OwnText, OwnConfig, GaveNow
    <3>5. Servers!FoundIsPreferred
      BY <3>1 DEF Servers!FoundIsPreferred
    <3> QED
      BY <3>2, <3>3, <3>4, <3>5 DEF LookInv
  <2> QED
    BY <2>1 DEF AnyInit
<1>2. Inv /\ [AnyNext]_anyVars => Inv'
  <2> SUFFICES ASSUME Inv, [AnyNext]_anyVars, part' = "servers" PROVE LookInv'
    OBVIOUS
  <2>1. part = "servers" /\ LookInv /\ (Servers!LookupNext \/ UNCHANGED lookupVars)
    BY DEF AnyNext, anyVars
  <2>2. CASE UNCHANGED lookupVars
    BY <2>1, <2>2 DEF lookupVars, LookInv, LookTypes, AskedOnly, InOrder, OwnText, OwnConfig, GaveNow,
       Servers!LookupTypeOK, Servers!WaitingIsServed, Servers!FoundIsPreferred
  <2> QED
    BY <2>1, <2>2, LookStep
<1>3. Inv => ServersAreTrue
  BY DEF LookInv, LookTypes, ServersAreTrue, Servers!LookupIsTrue
<1> QED
  BY <1>1, <1>2, <1>3, PTL DEF AnySpec

-----------------------------------------------------------------------------
(* The account and its connections (Accounts, Conn). *)

\* What a concatenation is, place by place.
LEMMA Concatenation ==
    ASSUME NEW S, NEW s \in Seq(S), NEW r \in Seq(S)
    PROVE  /\ s \o r \in Seq(S) /\ Len(s \o r) = Len(s) + Len(r)
           /\ \A j \in 1..(Len(s) + Len(r)) :
                 (s \o r)[j] = IF j <= Len(s) THEN s[j] ELSE r[j - Len(s)]
OBVIOUS

\* What RemoveAt returns, place by place.
LEMMA Removal ==
    ASSUME NEW S, NEW s \in Seq(S), NEW k \in DOMAIN s
    PROVE  /\ RemoveAt(s, k) \in Seq(S)
           /\ Len(RemoveAt(s, k)) = Len(s) - 1
           /\ \A j \in 1..(Len(s) - 1) :
                 RemoveAt(s, k)[j] = IF j < k THEN s[j] ELSE s[j + 1]
<1> DEFINE a == SubSeq(s, 1, k - 1)  z == SubSeq(s, k + 1, Len(s))
<1>1. a \in Seq(S) /\ Len(a) = k - 1 /\ \A j \in 1..(k - 1) : a[j] = s[j]
  OBVIOUS
<1>2. z \in Seq(S) /\ Len(z) = Len(s) - k /\ \A j \in 1..(Len(s) - k) : z[j] = s[j + k]
  OBVIOUS
<1>3. RemoveAt(s, k) = a \o z
  BY DEF RemoveAt
<1> HIDE DEF a, z
<1>4. k \in 1..Len(s) /\ Len(s) \in Nat
  OBVIOUS
<1>5. /\ a \o z \in Seq(S) /\ Len(a \o z) = Len(s) - 1
      /\ \A j \in 1..(Len(s) - 1) : (a \o z)[j] = IF j <= k - 1 THEN a[j] ELSE z[j - (k - 1)]
  <2>1. Len(a) + Len(z) = Len(s) - 1 /\ Len(a) = k - 1
    BY <1>1, <1>2, <1>4
  <2>2. /\ a \o z \in Seq(S) /\ Len(a \o z) = Len(a) + Len(z)
        /\ \A j \in 1..(Len(a) + Len(z)) :
              (a \o z)[j] = IF j <= Len(a) THEN a[j] ELSE z[j - Len(a)]
    BY <1>1, <1>2, Concatenation
  <2>3. ASSUME NEW j \in 1..(Len(s) - 1)
        PROVE  (a \o z)[j] = IF j <= k - 1 THEN a[j] ELSE z[j - (k - 1)]
    BY ONLY <2>1, <2>2
  <2> QED
    BY <2>1, <2>2, <2>3
<1>6. ASSUME NEW j \in 1..(Len(s) - 1), j >= k PROVE z[j - (k - 1)] = s[j + 1]
  <2>1. j - (k - 1) \in 1..(Len(s) - k) /\ (j - (k - 1)) + k = j + 1
    BY <1>4, <1>6
  <2> QED
    BY <1>2, <2>1
<1> QED
  BY <1>1, <1>3, <1>4, <1>5, <1>6

-----------------------------------------------------------------------------
(* The pool of an account. *)

Link == [id : Conns, inUseBy : {"pimap", None}]
Demand == [dieOnConnectFailure |-> FALSE]

Ids(p) == {p.owned[i].id : i \in DOMAIN p.owned}
AtWork(p) == p.timers + p.opening

Pools ==
    [state : EndpointStates, next : 0..Retries, pending : BOOLEAN, timers : Nat, opening : Nat,
     closing : SUBSET Conns, demands : {<<>>, <<Demand>>}, owned : Seq(Link),
     conn : Conns \cup {None}, promise : {"none", "waiting", "resolved"}]

\* One connection is in use at most, and it is the client's; each has a number of its own.
Linked(p) ==
    /\ \A i, j \in DOMAIN p.owned : p.owned[i].id = p.owned[j].id => i = j
    /\ \A i \in DOMAIN p.owned : p.owned[i].inUseBy # None <=> p.conn = p.owned[i].id
    /\ p.conn # None => \E i \in DOMAIN p.owned : p.owned[i].id = p.conn

\* The client waits while its demand does, and is not served.
Demanded(p) ==
    /\ p.demands = IF p.promise = "waiting" THEN <<Demand>> ELSE <<>>
    /\ p.promise = "waiting" => p.conn = None
    /\ p.promise = "resolved" => p.conn # None

\* There is room for the one attempt that is under way.
OneAttempt(p) ==
    /\ AtWork(p) <= 1 /\ (AtWork(p) = 1 => p.pending)
    /\ Len(p.owned) + AtWork(p) <= MaxConns

PoolOK(p) == p \in Pools /\ Linked(p) /\ Demanded(p) /\ OneAttempt(p)

\* Nothing of it is to come, and whatever it owns is being closed.
ShutDown(p) == p.state = "shutdown" /\ AtWork(p) = 0 /\ p.closing = Ids(p)

LEMMA ConnFacts ==
    /\ MaxConns \in Nat \ {0} /\ Retries \in Nat \ {0} /\ None \notin Nat
    /\ Conns = 1..(MaxConns + 1) /\ None \notin Conns /\ None # "pimap"
    /\ EndpointStates = {"healthy", "unreachable", "broken", "shutdown"}
BY ConnAssumption DEF Conns, EndpointStates

\* The fields of a pool, one at a time.
LEMMA PoolTyped ==
    ASSUME NEW p \in Pools
    PROVE  /\ p.state \in EndpointStates /\ p.next \in 0..Retries /\ p.pending \in BOOLEAN
           /\ p.timers \in Nat /\ p.opening \in Nat /\ p.closing \subseteq Conns
           /\ p.demands \in {<<>>, <<Demand>>} /\ p.owned \in Seq(Link) /\ Len(p.owned) \in Nat
           /\ DOMAIN p.owned = 1..Len(p.owned)
           /\ \A i \in DOMAIN p.owned : p.owned[i] \in Link
           /\ p.conn \in Conns \cup {None} /\ p.promise \in {"none", "waiting", "resolved"}
           /\ AtWork(p) \in Nat /\ AtWork(p) = p.timers + p.opening
<1>1. p.owned \in Seq(Link)
  BY DEF Pools
<1>2. \A i \in DOMAIN p.owned : p.owned[i] \in Link
  BY <1>1
<1>3. Len(p.owned) \in Nat /\ DOMAIN p.owned = 1..Len(p.owned)
  BY <1>1
<1>4. /\ p.state \in EndpointStates /\ p.next \in 0..Retries /\ p.pending \in BOOLEAN
      /\ p.timers \in Nat /\ p.opening \in Nat /\ p.closing \subseteq Conns
  BY DEF Pools
<1>5. /\ p.demands \in {<<>>, <<Demand>>}
      /\ p.conn \in Conns \cup {None} /\ p.promise \in {"none", "waiting", "resolved"}
  BY DEF Pools
<1> QED
  BY <1>1, <1>2, <1>3, <1>4, <1>5 DEF AtWork

LEMMA DemandIsSome == <<Demand>> # <<>> /\ Len(<<Demand>>) = 1 /\ Tail(<<Demand>>) = <<>> /\ Len(<<>>) = 0
OBVIOUS

\* What an attempt and the endpoint change, and what they leave alone.
SameUse(p, q) ==
    /\ q.owned = p.owned /\ q.conn = p.conn /\ q.promise = p.promise /\ q.demands = p.demands
    /\ q.closing = p.closing

\* A connection is asked for if there is room and none is under way.
LEMMA MakeConnectionHolds ==
    ASSUME NEW p \in Pools, OneAttempt(p)
    PROVE  LET q == MakeConnectionIfPossible(p)
           IN  /\ q \in Pools /\ SameUse(p, q) /\ OneAttempt(q)
               /\ p.state = "shutdown" => q.state = "shutdown" /\ AtWork(q) = AtWork(p)
<1> DEFINE q == MakeConnectionIfPossible(p)
           r == [p EXCEPT !.pending = TRUE]
<1>1. CASE Len(p.owned) >= MaxConns \/ p.pending
  <2>1. q = p
    BY <1>1 DEF MakeConnectionIfPossible
  <2> QED
    BY <2>1 DEF SameUse
<1>2. CASE ~(Len(p.owned) >= MaxConns \/ p.pending)
  <2>1. q = ScheduleConnectAttempt(r)
    BY <1>2 DEF MakeConnectionIfPossible
  <2>2. /\ r \in Pools /\ r.pending = TRUE /\ SameUse(p, r) /\ r.state = p.state
        /\ r.timers = p.timers /\ r.opening = p.opening /\ r.next = p.next
    BY DEF Pools, SameUse
  <2>3. AtWork(p) = 0 /\ AtWork(r) = 0 /\ Len(p.owned) + 1 <= MaxConns
    <3>1. /\ AtWork(p) \in Nat /\ AtWork(r) = AtWork(p) /\ AtWork(p) <= 1 /\ AtWork(p) # 1
      BY <1>2, <2>2, PoolTyped DEF OneAttempt, AtWork
    <3>2. Len(p.owned) \in Nat /\ MaxConns \in Nat /\ ~(Len(p.owned) >= MaxConns)
      BY <1>2, PoolTyped, ConnFacts
    <3> QED
      BY <3>1, <3>2
  <2> HIDE DEF r, q
  <2>4. CASE r.state = "shutdown"
    <3>1. q = r
      BY <2>1, <2>4 DEF ScheduleConnectAttempt
    <3> QED
      BY <2>2, <2>3, <3>1, PoolTyped, ConnFacts DEF q, OneAttempt, SameUse
  <2>5. CASE r.state # "shutdown" /\ r.next >= Retries
    <3>1. q = [r EXCEPT !.opening = @ + 1]
      BY <2>1, <2>5 DEF ScheduleConnectAttempt
    <3>2. /\ q \in Pools /\ SameUse(r, q) /\ q.pending = TRUE /\ q.timers = r.timers
          /\ q.opening = r.opening + 1
      BY <2>2, <3>1 DEF Pools, SameUse
    <3>3. AtWork(q) = 1
      BY <2>2, <2>3, <3>2, PoolTyped DEF AtWork
    <3>4. q.owned = p.owned
      BY <2>2, <3>2 DEF SameUse
    <3>5. OneAttempt(q)
      BY <2>3, <3>2, <3>3, <3>4 DEF OneAttempt
    <3> QED
      BY <2>2, <2>5, <3>2, <3>5 DEF q, SameUse
  <2>6. CASE r.state # "shutdown" /\ ~(r.next >= Retries)
    <3>1. q = [r EXCEPT !.next = @ + 1, !.timers = @ + 1]
      BY <2>1, <2>6 DEF ScheduleConnectAttempt
    <3>2. r.next + 1 \in 0..Retries
      BY <2>2, <2>6, PoolTyped, ConnFacts
    <3>3. /\ q \in Pools /\ SameUse(r, q) /\ q.pending = TRUE /\ q.opening = r.opening
          /\ q.timers = r.timers + 1
      <4>1. PICK n \in 0..Retries, m \in Nat : n = r.next + 1 /\ m = r.timers + 1
        BY <2>2, <3>2, PoolTyped
      <4>2. q = [r EXCEPT !.next = n, !.timers = m]
        BY <3>1, <4>1
      <4>3. q \in Pools
        BY <2>2, <4>2 DEF Pools
      <4> QED
        BY <2>2, <4>1, <4>2, <4>3 DEF Pools, SameUse
    <3>4. AtWork(q) = 1
      BY <2>2, <2>3, <3>3, PoolTyped DEF AtWork
    <3>5. q.owned = p.owned
      BY <2>2, <3>3 DEF SameUse
    <3>6. OneAttempt(q)
      BY <2>3, <3>3, <3>4, <3>5 DEF OneAttempt
    <3> QED
      BY <2>2, <2>6, <3>3, <3>6 DEF q, SameUse
  <2> QED
    BY <2>4, <2>5, <2>6
<1> QED
  BY <1>1, <1>2

\* Linked and Demanded depend on what is used only.
LEMMA SameUseHolds ==
    ASSUME NEW p, NEW q, SameUse(p, q)
    PROVE  (Linked(p) => Linked(q)) /\ (Demanded(p) => Demanded(q)) /\ Ids(q) = Ids(p)
BY DEF SameUse, Linked, Demanded, Ids

\* With no connection in use all are free, and the demand gets the first.
LEMMA AllocateHolds ==
    ASSUME NEW p \in Pools, Linked(p), OneAttempt(p), p.conn = None, p.demands = <<Demand>>,
           Len(p.owned) >= 1
    PROVE  LET q == Allocate(p)
           IN  /\ q \in Pools /\ Linked(q) /\ OneAttempt(q) /\ Ids(q) = Ids(p)
               /\ q.demands = <<>> /\ q.conn # None /\ q.promise = "none"
               /\ q.state = p.state /\ q.closing = p.closing /\ AtWork(q) = AtWork(p)
<1> DEFINE q == Allocate(p)
           n == Len(p.owned)
           one == p.owned[1]
<1>1. n \in Nat /\ DOMAIN p.owned = 1..n /\ 1 \in 1..n /\ one \in Link /\ p.owned \in Seq(Link)
  BY PoolTyped
<1>2. \A i \in 1..n : p.owned[i].inUseBy = None
  <2> SUFFICES ASSUME NEW i \in 1..n PROVE p.owned[i].inUseBy = None
    OBVIOUS
  <2>1. p.owned[i].id \in Conns
    BY <1>1, PoolTyped DEF Link
  <2>2. p.owned[i].id # None
    BY <2>1, ConnFacts
  <2> QED
    BY <1>1, <2>2 DEF Linked
<1>3. Free(p) = 1..n
  BY <1>1, <1>2 DEF Free
<1>4. (CHOOSE k \in Free(p) : \A l \in Free(p) : k <= l) = 1
  <2>1. \A k \in 1..n : (\A l \in 1..n : k <= l) => k = 1
    BY <1>1
  <2>2. \A l \in 1..n : 1 <= l
    BY <1>1
  <2> QED
    BY <1>1, <1>3, <2>1, <2>2
<1>5. q = [[p EXCEPT !.owned[1].inUseBy = "pimap", !.demands = Tail(@)]
           EXCEPT !.conn = one.id, !.promise = "none"]
  <2>1. p.demands # <<>> /\ Free(p) # {}
    BY <1>1, <1>3, DemandIsSome
  <2>2. q = LET i == CHOOSE k \in Free(p) : \A l \in Free(p) : k <= l
            IN  GotConnection([p EXCEPT !.owned[i].inUseBy = "pimap", !.demands = Tail(@)],
                              p.owned[i].id)
    BY <2>1 DEF Allocate
  <2> QED
    BY <1>4, <2>2 DEF GotConnection
<1>6. PICK inUse : inUse = [p.owned EXCEPT ![1].inUseBy = "pimap"]
  OBVIOUS
<1>7. /\ inUse \in Seq(Link) /\ Len(inUse) = n /\ DOMAIN inUse = 1..n
      /\ inUse[1] = [one EXCEPT !.inUseBy = "pimap"] /\ \A i \in 2..n : inUse[i] = p.owned[i]
  <2>1. [one EXCEPT !.inUseBy = "pimap"] \in Link
    BY <1>1 DEF Link
  <2> QED
    BY <1>1, <1>6, <2>1
<1>8. one.id \in Conns
  BY <1>1 DEF Link
<1> HIDE DEF q, one
<1>9. /\ q.owned = inUse /\ q.demands = <<>> /\ q.conn = one.id /\ q.promise = "none"
      /\ q.state = p.state /\ q.closing = p.closing /\ q.timers = p.timers /\ q.opening = p.opening
      /\ q.pending = p.pending
  BY <1>5, <1>6, DemandIsSome DEF Pools
<1>10. q \in Pools
  BY <1>5, <1>6, <1>7, <1>8, DemandIsSome DEF Pools
<1>11. \A i \in 1..n : inUse[i].id = p.owned[i].id
  BY <1>1, <1>7 DEF Link, one
<1>12. inUse[1].inUseBy = "pimap" /\ \A i \in 2..n : inUse[i].inUseBy = None
  BY <1>1, <1>2, <1>7 DEF Link, one
<1>13. None # "pimap"
  BY ConnFacts
<1>14. Linked(q)
  <2>1. \A i, j \in 1..n : inUse[i].id = inUse[j].id => i = j
    BY <1>1, <1>11 DEF Linked
  <2>2. \A i \in 1..n : inUse[i].inUseBy # None <=> one.id = inUse[i].id
    <3> SUFFICES ASSUME NEW i \in 1..n PROVE inUse[i].inUseBy # None <=> one.id = inUse[i].id
      OBVIOUS
    <3>1. one.id = inUse[1].id
      BY <1>1, <1>11 DEF one
    <3>2. CASE i = 1
      BY <1>12, <1>13, <3>1, <3>2
    <3>3. CASE i # 1
      <4>1. i \in 2..n
        BY <1>1, <3>3
      <4>2. inUse[i].id # inUse[1].id
        BY <1>1, <2>1, <3>3
      <4> QED
        BY <1>12, <3>1, <4>1, <4>2
    <3> QED
      BY <3>2, <3>3
  <2>3. inUse[1].id = one.id
    BY <1>1, <1>11 DEF one
  <2> QED
    BY ZenonT(60), <1>1, <1>7, <1>9, <2>1, <2>2, <2>3 DEF Linked
<1>15. Ids(q) = Ids(p)
  BY SMTT(30), <1>1, <1>7, <1>9, <1>11 DEF Ids
<1>16. OneAttempt(q) /\ AtWork(q) = AtWork(p)
  BY <1>7, <1>9 DEF OneAttempt, AtWork
<1>17. q.conn # None
  BY <1>8, <1>9, ConnFacts
<1> QED
  BY <1>9, <1>10, <1>14, <1>15, <1>16, <1>17 DEF q

\* ParallelIMAP's demand: it is met at once, or waits with the client.
LEMMA GimmeHolds ==
    ASSUME NEW p, PoolOK(p)
    PROVE  LET q == GimmeConnection(p)
           IN  /\ PoolOK(q) /\ (q.conn = None => q.promise = "waiting")
               /\ p.promise = "waiting" => q.promise = "waiting"
               /\ ShutDown(p) => ShutDown(q)
<1> DEFINE q == GimmeConnection(p)
           a == [p EXCEPT !.demands = <<Demand>>]
<1>0. p \in Pools /\ Linked(p) /\ Demanded(p) /\ OneAttempt(p)
  BY DEF PoolOK
<1>1. CASE p.conn # None \/ p.promise # "none"
  <2>1. q = p
    BY <1>1 DEF GimmeConnection
  <2>2. p.conn = None => p.promise = "waiting"
    BY <1>0, <1>1, PoolTyped DEF Demanded
  <2> QED
    BY <2>1, <2>2
<1>2. CASE ~(p.conn # None \/ p.promise # "none")
  <2>1. p.demands = <<>> /\ p.conn = None /\ p.promise = "none"
    BY <1>0, <1>2 DEF Demanded
  <2>2. /\ a \in Pools /\ a.demands = <<Demand>> /\ a.owned = p.owned /\ a.conn = p.conn
        /\ a.promise = p.promise /\ a.closing = p.closing /\ a.state = p.state
        /\ a.timers = p.timers /\ a.opening = p.opening /\ a.pending = p.pending
    BY <1>0 DEF Pools
  <2>3. Linked(a) /\ OneAttempt(a) /\ Ids(a) = Ids(p) /\ AtWork(a) = AtWork(p)
    BY <1>0, <2>2 DEF Linked, OneAttempt, Ids, AtWork
  <2>4. [p EXCEPT !.demands = Append(@, Demand)] = a
    BY <1>0, <2>1 DEF Pools
  <2> DEFINE wished == FolderDemandsConnection(p, [dieOnConnectFailure |-> FALSE])
  <2>5. wished = IF Free(a) # {} THEN Allocate(a) ELSE MakeConnectionIfPossible(a)
    <3>1. Free(p) = Free(a) /\ Len(a.demands) = 1
      BY <2>2, DemandIsSome DEF Free
    <3>2. wished = LET b == [p EXCEPT !.demands = Append(@, Demand)]
                  IN  CASE Len(b.demands) > 1 -> b
                        [] Len(b.demands) <= 1 /\ Free(p) # {} -> Allocate(b)
                        [] OTHER -> MakeConnectionIfPossible(b)
      BY DEF FolderDemandsConnection, Demand
    <3>3. wished = CASE Len(a.demands) > 1 -> a
                    [] Len(a.demands) <= 1 /\ Free(p) # {} -> Allocate(a)
                    [] OTHER -> MakeConnectionIfPossible(a)
      BY <2>4, <3>2
    <3> HIDE DEF a, wished
    <3> QED
      BY <3>1, <3>3
  <2>6. q = [wished EXCEPT !.promise = IF wished.conn = None THEN "waiting" ELSE "resolved"]
    BY <1>2 DEF GimmeConnection
  <2> HIDE DEF q, a, wished
  <2>7. /\ wished \in Pools /\ Linked(wished) /\ OneAttempt(wished)
        /\ wished.conn = None => wished.demands = <<Demand>>
        /\ wished.conn # None => wished.demands = <<>>
        /\ ShutDown(p) => ShutDown(wished)
    <3>1. CASE Free(a) # {}
      <4>1. wished = Allocate(a)
        BY <2>5, <3>1
      <4>2. Len(a.owned) >= 1
        BY <2>2, <3>1, PoolTyped DEF Free
      <4>3. /\ wished \in Pools /\ Linked(wished) /\ OneAttempt(wished) /\ Ids(wished) = Ids(a)
            /\ wished.demands = <<>> /\ wished.conn # None
            /\ wished.state = a.state /\ wished.closing = a.closing /\ AtWork(wished) = AtWork(a)
        BY <2>1, <2>2, <2>3, <4>1, <4>2, AllocateHolds
      <4> QED
        BY <2>2, <2>3, <4>3 DEF ShutDown
    <3>2. CASE Free(a) = {}
      <4>1. wished = MakeConnectionIfPossible(a)
        BY <2>5, <3>2
      <4>2. /\ wished \in Pools /\ SameUse(a, wished) /\ OneAttempt(wished)
            /\ a.state = "shutdown" => wished.state = "shutdown" /\ AtWork(wished) = AtWork(a)
        BY <2>2, <2>3, <4>1, MakeConnectionHolds
      <4>3. Linked(wished) /\ Ids(wished) = Ids(a)
        BY <2>3, <4>2, SameUseHolds
      <4>4. wished.conn = None /\ wished.demands = <<Demand>> /\ wished.closing = a.closing
        BY <2>1, <2>2, <4>2 DEF SameUse
      <4> QED
        BY <2>2, <2>3, <4>2, <4>3, <4>4 DEF ShutDown
    <3> QED
      BY <3>1, <3>2
  <2>8. PICK w \in {"waiting", "resolved"} : w = IF wished.conn = None THEN "waiting" ELSE "resolved"
    OBVIOUS
  <2>9. /\ q \in Pools /\ q.promise = w /\ q.owned = wished.owned /\ q.conn = wished.conn
        /\ q.demands = wished.demands /\ q.state = wished.state /\ q.closing = wished.closing
        /\ q.timers = wished.timers /\ q.opening = wished.opening /\ q.pending = wished.pending
    BY <2>6, <2>7, <2>8 DEF Pools
  <2>10. Linked(q) /\ OneAttempt(q) /\ Ids(q) = Ids(wished) /\ AtWork(q) = AtWork(wished)
    BY <2>7, <2>9 DEF Linked, OneAttempt, Ids, AtWork
  <2>11. Demanded(q)
    BY <2>7, <2>8, <2>9 DEF Demanded
  <2> QED
    BY <2>1, <2>7, <2>8, <2>9, <2>10, <2>11 DEF PoolOK, ShutDown, q
<1> QED
  BY <1>1, <1>2

\* There is a number left for a new connection.
LEMMA NewConnHolds ==
    ASSUME NEW p \in Pools, Len(p.owned) <= MaxConns
    PROVE  NewConn(p) \in Conns /\ \A i \in DOMAIN p.owned : p.owned[i].id # NewConn(p)
<1> DEFINE n == Len(p.owned)
<1>1. n \in Nat /\ DOMAIN p.owned = 1..n /\ MaxConns \in Nat /\ Conns = 1..(MaxConns + 1)
  BY PoolTyped, ConnFacts
<1>2. \E id \in Conns : \A i \in DOMAIN p.owned : p.owned[i].id # id
  <2> SUFFICES ASSUME \A id \in Conns : \E i \in 1..n : p.owned[i].id = id
               PROVE  FALSE
    BY <1>1
  <2> DEFINE f == [id \in Conns |-> CHOOSE i \in 1..n : p.owned[i].id = id]
  <2>1. \A id \in Conns : f[id] \in 1..n /\ p.owned[f[id]].id = id
    OBVIOUS
  <2>2. f \in [Conns -> 1..n]
    BY <2>1
  <2>3. IsFiniteSet(Conns) /\ Cardinality(Conns) = MaxConns + 1
    <3>1. IsFiniteSet(1..(MaxConns + 1)) /\ Cardinality(1..(MaxConns + 1)) = MaxConns + 1
      BY <1>1, FS_Interval
    <3> QED
      BY <1>1, <3>1
  <2>4. IsFiniteSet(1..n) /\ Cardinality(1..n) = n
    <3>1. PICK m \in Nat : m = n
      BY <1>1
    <3>2. IsFiniteSet(1..m) /\ Cardinality(1..m) = m
      BY FS_Interval
    <3> QED
      BY <3>1, <3>2
  <2>5. Cardinality(1..n) < Cardinality(Conns)
    BY <1>1, <2>3, <2>4
  <2> HIDE DEF f
  <2>6. PICK x \in Conns, y \in Conns : x # y /\ f[x] = f[y]
    BY <2>2, <2>3, <2>4, <2>5, FS_PigeonHole
  <2> QED
    BY <2>1, <2>6
<1> QED
  BY <1>2 DEF NewConn

\* A connection is made: the demand that waits gets it.
LEMMA OpenedHolds ==
    ASSUME NEW p, PoolOK(p), p.opening > 0
    PROVE  LET q == Opened(p)
           IN  PoolOK(q) /\ (p.promise = "waiting" => q.conn # None) /\ (q.promise # "waiting")
<1> DEFINE e == [id |-> NewConn(p), inUseBy |-> None]
           up == NoteConnectSuccess([p EXCEPT !.pending = FALSE, !.opening = @ - 1])
           w == [up EXCEPT !.owned = Append(@, e)]
           n == Len(p.owned)
<1>0. p \in Pools /\ Linked(p) /\ Demanded(p) /\ OneAttempt(p)
  BY DEF PoolOK
<1>1. n \in Nat /\ n + 1 <= MaxConns /\ AtWork(p) = 1 /\ p.opening - 1 = 0 /\ p.timers = 0 /\ MaxConns \in Nat
  BY <1>0, PoolTyped, ConnFacts DEF OneAttempt
<1>2. NewConn(p) \in Conns /\ \A i \in DOMAIN p.owned : p.owned[i].id # NewConn(p)
  BY <1>0, <1>1, NewConnHolds
<1>3. e \in Link /\ e.id = NewConn(p) /\ e.inUseBy = None
  BY <1>2 DEF Link
<1>4. PICK more : more = Append(p.owned, e)
  OBVIOUS
<1>5. /\ more \in Seq(Link) /\ Len(more) = n + 1 /\ DOMAIN more = 1..(n + 1) /\ more[n + 1] = e
      /\ DOMAIN p.owned = 1..n /\ \A i \in 1..n : more[i] = p.owned[i]
  BY <1>0, <1>1, <1>3, <1>4, PoolTyped
<1>6. /\ up \in Pools /\ up.owned = p.owned /\ up.conn = p.conn /\ up.promise = p.promise
      /\ up.demands = p.demands /\ up.timers = 0 /\ up.opening = 0
  <2>1. up = [[p EXCEPT !.pending = FALSE, !.opening = p.opening - 1]
              EXCEPT !.state = "healthy", !.next = 0]
    BY DEF NoteConnectSuccess
  <2>2. up = [[p EXCEPT !.pending = FALSE, !.opening = 0] EXCEPT !.state = "healthy", !.next = 0]
    BY <1>1, <2>1
  <2>3. 0 \in 0..Retries /\ "healthy" \in EndpointStates
    BY ConnFacts
  <2> HIDE DEF up
  <2> QED
    BY <1>0, <1>1, <2>2, <2>3 DEF Pools
<1> HIDE DEF up
<1>7. w = [up EXCEPT !.owned = more]
  BY <1>4, <1>6 DEF Pools
<1> HIDE DEF w
<1>8. /\ w \in Pools /\ w.owned = more /\ w.conn = p.conn /\ w.promise = p.promise
      /\ w.demands = p.demands /\ w.timers = 0 /\ w.opening = 0
  BY <1>5, <1>6, <1>7 DEF Pools
<1>9. AtWork(w) = 0 /\ OneAttempt(w)
  <2>1. AtWork(w) = 0
    BY <1>8 DEF AtWork
  <2> QED
    BY <1>1, <1>5, <1>8, <2>1 DEF OneAttempt
<1>10. Linked(w)
  <2> HIDE DEF e
  <2>1. \A i, j \in 1..(n + 1) : more[i].id = more[j].id => i = j
    <3> SUFFICES ASSUME NEW i \in 1..(n + 1), NEW j \in 1..(n + 1), more[i].id = more[j].id PROVE i = j
      OBVIOUS
    <3>1. CASE i \in 1..n /\ j \in 1..n
      BY SMTT(30), <1>0, <1>5, <3>1 DEF Linked
    <3>2. CASE i = n + 1 /\ j \in 1..n
      BY <1>2, <1>3, <1>5, <3>2
    <3>3. CASE j = n + 1 /\ i \in 1..n
      BY <1>2, <1>3, <1>5, <3>3
    <3> QED
      BY <1>1, <3>1, <3>2, <3>3
  <2>2. p.conn # NewConn(p)
    <3>1. NewConn(p) # None
      BY <1>2, ConnFacts
    <3> QED
      BY <1>0, <1>2, <3>1 DEF Linked
  <2>3. \A i \in 1..(n + 1) : more[i].inUseBy # None <=> p.conn = more[i].id
    <3> SUFFICES ASSUME NEW i \in 1..(n + 1) PROVE more[i].inUseBy # None <=> p.conn = more[i].id
      OBVIOUS
    <3>1. CASE i \in 1..n
      BY <1>0, <1>5, <3>1 DEF Linked
    <3>2. CASE i = n + 1
      BY <1>3, <1>5, <2>2, <3>2
    <3> QED
      BY <1>1, <3>1, <3>2
  <2>4. p.conn # None => \E i \in 1..(n + 1) : more[i].id = p.conn
    <3> SUFFICES ASSUME p.conn # None PROVE \E i \in 1..(n + 1) : more[i].id = p.conn
      OBVIOUS
    <3>1. PICK i \in 1..n : p.owned[i].id = p.conn
      BY <1>0, <1>5 DEF Linked
    <3>2. i \in 1..(n + 1) /\ more[i].id = p.conn
      BY <1>1, <1>5, <3>1
    <3> QED
      BY <3>2
  <2> QED
    BY <1>5, <1>8, <2>1, <2>3, <2>4 DEF Linked
<1> DEFINE q == Opened(p)
           r == Allocate(w)
<1>11. q = IF r.demands = <<>> THEN r ELSE MakeConnectionIfPossible(r)
  BY DEF Opened, up, w
<1> HIDE DEF q, r
<1>12. CASE p.promise = "waiting"
  <2>1. p.conn = None /\ p.demands = <<Demand>>
    BY <1>0, <1>12 DEF Demanded
  <2>2. Len(w.owned) >= 1
    BY <1>1, <1>5, <1>8
  <2>3. /\ r \in Pools /\ Linked(r) /\ OneAttempt(r) /\ r.demands = <<>> /\ r.conn # None
        /\ r.promise = "none"
    BY <1>8, <1>9, <1>10, <2>1, <2>2, AllocateHolds DEF r
  <2>4. q = r
    BY <1>11, <2>3
  <2> QED
    BY <2>3, <2>4 DEF PoolOK, Demanded, q
<1>13. CASE p.promise # "waiting"
  <2>1. p.demands = <<>>
    BY <1>0, <1>13 DEF Demanded
  <2>2. r = w
    BY <1>8, <2>1 DEF Allocate, r
  <2>3. q = w
    BY <1>8, <1>11, <2>1, <2>2
  <2>4. Demanded(w)
    BY <1>0, <1>8, <1>13 DEF Demanded
  <2> QED
    BY <1>8, <1>9, <1>10, <1>13, <2>3, <2>4 DEF PoolOK, q
<1> QED
  BY <1>12, <1>13

\* An attempt fails: nothing changes in what is used.
LEMMA RefusedHolds ==
    ASSUME NEW p, PoolOK(p), p.opening > 0, NEW err \in Errors
    PROVE  LET q == Refused(p, err)
           IN  PoolOK(q) /\ SameUse(p, q)
<1> DEFINE down == [p EXCEPT !.opening = @ - 1]
           done == [down EXCEPT !.pending = FALSE]
           noted == NoteConnectFailure(done, err.reachable)
           q == Refused(p, err)
<1>0. p \in Pools /\ Linked(p) /\ Demanded(p) /\ OneAttempt(p)
  BY DEF PoolOK
<1>1. /\ AtWork(p) = 1 /\ p.opening - 1 = 0 /\ p.timers = 0 /\ Len(p.owned) \in Nat
      /\ Len(p.owned) + 1 <= MaxConns /\ MaxConns \in Nat
  BY <1>0, PoolTyped, ConnFacts DEF OneAttempt
<1>2. /\ down \in Pools /\ SameUse(p, down) /\ down.timers = 0 /\ down.opening = 0
      /\ done \in Pools /\ SameUse(p, done) /\ done.timers = 0 /\ done.opening = 0
  <2>1. down = [p EXCEPT !.opening = 0]
    BY <1>1
  <2>2. done = [[p EXCEPT !.opening = 0] EXCEPT !.pending = FALSE]
    BY <2>1
  <2> HIDE DEF done, down
  <2> QED
    BY <1>0, <1>1, <2>1, <2>2 DEF Pools, SameUse
<1> HIDE DEF down, done
<1>3. ASSUME NEW r \in Pools, r.timers = 0, r.opening = 0, SameUse(p, r)
      PROVE  OneAttempt(r) /\ PoolOK(r) /\ KillDieOnConnectFailureDemands(r) = r
  <2>1. AtWork(r) = 0
    BY <1>3 DEF AtWork
  <2>2. OneAttempt(r)
    BY <1>1, <1>3, <2>1 DEF OneAttempt, SameUse
  <2>3. Linked(r) /\ Demanded(r)
    BY <1>0, <1>3, SameUseHolds
  <2>4. KillDieOnConnectFailureDemands(r) = r
    <3>1. \A i \in DOMAIN r.demands : ~r.demands[i].dieOnConnectFailure
      BY <1>3, PoolTyped DEF Demand
    <3> QED
      BY <3>1 DEF KillDieOnConnectFailureDemands
  <2> QED
    BY <1>3, <2>2, <2>3, <2>4 DEF PoolOK
<1>4. noted \in Pools /\ SameUse(p, noted) /\ noted.timers = 0 /\ noted.opening = 0
  <2>1. PICK st \in EndpointStates : noted = done \/ noted = [done EXCEPT !.state = st]
    <3>1. done.state \in EndpointStates /\ "broken" \in EndpointStates /\ "unreachable" \in EndpointStates
      BY <1>2, PoolTyped, ConnFacts
    <3> QED
      BY <3>1 DEF NoteConnectFailure
  <2> HIDE DEF noted
  <2>2. CASE noted = done
    BY <1>2, <2>2
  <2>3. CASE noted = [done EXCEPT !.state = st]
    BY <1>2, <2>3 DEF Pools, SameUse
  <2> QED
    BY <2>1, <2>2, <2>3
<1> DEFINE broken == NoteBrokenConnection(done)
<1>5. broken \in Pools /\ SameUse(p, broken) /\ broken.timers = 0 /\ broken.opening = 0
  <2>1. "broken" \in EndpointStates /\ Retries \in 0..Retries
    BY ConnFacts
  <2> QED
    BY <1>2, <2>1 DEF NoteBrokenConnection, Pools, SameUse
<1>6. \/ q = down
      \/ q = MakeConnectionIfPossible(noted)
      \/ q = KillDieOnConnectFailureDemands(noted)
      \/ q = KillDieOnConnectFailureDemands(broken)
  <2>1. q = CASE err.report -> down
              [] ~err.report /\ err.retry ->
                     IF MayRetry(noted, err.reachable) THEN MakeConnectionIfPossible(noted)
                     ELSE KillDieOnConnectFailureDemands(noted)
              [] OTHER -> KillDieOnConnectFailureDemands(broken)
    BY DEF Refused, down, done
  <2>2. err.report \in BOOLEAN /\ err.retry \in BOOLEAN
    <3>1. Errors \subseteq [reachable : BOOLEAN, retry : BOOLEAN, report : BOOLEAN]
      BY DEF Errors
    <3> QED
      BY <3>1
  <2> HIDE DEF q, noted, broken
  <2> QED
    BY <2>1, <2>2
<1> HIDE DEF q, noted, broken
<1>7. CASE q = MakeConnectionIfPossible(noted)
  <2>1. q \in Pools /\ SameUse(noted, q) /\ OneAttempt(q)
    BY <1>3, <1>4, <1>7, MakeConnectionHolds
  <2>2. SameUse(p, q)
    BY <1>4, <2>1 DEF SameUse
  <2> QED
    BY <1>0, <2>1, <2>2, SameUseHolds DEF PoolOK, q
<1>8. CASE q = down
  BY <1>2, <1>3, <1>8 DEF q
<1>9. CASE q = KillDieOnConnectFailureDemands(noted)
  BY <1>3, <1>4, <1>9 DEF q
<1>10. CASE q = KillDieOnConnectFailureDemands(broken)
  BY <1>3, <1>5, <1>10 DEF q
<1> QED
  BY <1>6, <1>7, <1>8, <1>9, <1>10

\* A connection that closes leaves the pool, and whoever used it hears of it.
LEMMA LostHolds ==
    ASSUME NEW p, PoolOK(p), NEW i \in DOMAIN p.owned
    PROVE  LET q == Lost(p, i)
           IN  /\ PoolOK(q) /\ (p.promise = "waiting" => q.promise = "waiting")
               /\ ShutDown(p) => ShutDown(q)
<1> DEFINE stopped == IF p.owned[i].inUseBy = None THEN p
                   ELSE [p EXCEPT !.conn = None, !.promise = "none"]
           q == Lost(p, i)
           n == Len(p.owned)
           id == p.owned[i].id
<1>0. p \in Pools /\ Linked(p) /\ Demanded(p) /\ OneAttempt(p)
  BY DEF PoolOK
<1>1. /\ p.owned \in Seq(Link) /\ n \in Nat /\ DOMAIN p.owned = 1..n /\ i \in 1..n /\ id \in Conns
      /\ MaxConns \in Nat /\ AtWork(p) \in Nat
  BY <1>0, PoolTyped, ConnFacts DEF Link
<1>2. PICK less : less = RemoveAt(p.owned, i)
  OBVIOUS
<1>3. /\ less \in Seq(Link) /\ Len(less) = n - 1 /\ n - 1 \in Nat /\ DOMAIN less = 1..(n - 1)
      /\ \A j \in 1..(n - 1) : less[j] = IF j < i THEN p.owned[j] ELSE p.owned[j + 1]
  <2>1. /\ less \in Seq(Link) /\ Len(less) = n - 1
        /\ \A j \in 1..(n - 1) : less[j] = IF j < i THEN p.owned[j] ELSE p.owned[j + 1]
    BY <1>1, <1>2, Removal
  <2> QED
    BY <1>1, <2>1
<1>4. /\ stopped \in Pools /\ stopped.owned = p.owned /\ stopped.closing = p.closing /\ stopped.demands = p.demands
      /\ stopped.timers = p.timers /\ stopped.opening = p.opening /\ stopped.pending = p.pending
      /\ stopped.state = p.state
      /\ p.owned[i].inUseBy = None => stopped.conn = p.conn /\ stopped.promise = p.promise
      /\ p.owned[i].inUseBy # None => stopped.conn = None /\ stopped.promise = "none"
  BY <1>0, <1>1 DEF Pools
<1>5. q = [stopped EXCEPT !.owned = RemoveAt(@, i), !.closing = @ \ {id}]
  BY DEF Lost
<1> HIDE DEF stopped, q, id
<1>6. /\ q \in Pools /\ q.owned = less /\ q.closing = p.closing \ {id} /\ q.demands = p.demands
      /\ q.timers = p.timers /\ q.opening = p.opening /\ q.pending = p.pending
      /\ q.state = p.state /\ q.conn = stopped.conn /\ q.promise = stopped.promise
  <2>1. q = [stopped EXCEPT !.owned = less, !.closing = p.closing \ {id}]
    BY <1>2, <1>4, <1>5 DEF Pools
  <2> QED
    BY <1>3, <1>4, <2>1 DEF Pools
\* Where each of the others was.
<1> DEFINE was(j) == IF j < i THEN j ELSE j + 1
<1>7. \A j \in 1..(n - 1) : was(j) \in 1..n /\ was(j) # i /\ less[j] = p.owned[was(j)]
  BY <1>1, <1>3
<1>8. \A j, k \in 1..(n - 1) : was(j) = was(k) => j = k
  BY <1>1, <1>3
<1>9. \A k \in 1..n : k # i => \E j \in 1..(n - 1) : was(j) = k
  <2> SUFFICES ASSUME NEW k \in 1..n, k # i PROVE \E j \in 1..(n - 1) : was(j) = k
    OBVIOUS
  <2>1. CASE k < i
    <3>1. k \in 1..(n - 1) /\ was(k) = k
      BY <1>1, <1>3, <2>1
    <3> QED
      BY <3>1
  <2>2. CASE k > i
    <3>1. k - 1 \in 1..(n - 1) /\ was(k - 1) = k
      BY <1>1, <1>3, <2>2
    <3> QED
      BY <3>1
  <2> QED
    BY <1>1, <2>1, <2>2
<1> HIDE DEF was
<1>10. p.owned[i].inUseBy # None => \A k \in 1..n : k # i => p.owned[k].inUseBy = None
  BY <1>0, <1>1 DEF Linked
<1>11. Linked(q)
  <2>1. \A j, k \in 1..(n - 1) : less[j].id = less[k].id => j = k
    <3> SUFFICES ASSUME NEW j \in 1..(n - 1), NEW k \in 1..(n - 1), less[j].id = less[k].id PROVE j = k
      OBVIOUS
    <3>1. was(j) = was(k)
      BY SMTT(30), <1>0, <1>1, <1>7 DEF Linked
    <3> QED
      BY <1>8, <3>1
  <2>2. \A j \in 1..(n - 1) : less[j].inUseBy # None <=> q.conn = less[j].id
    <3> SUFFICES ASSUME NEW j \in 1..(n - 1) PROVE less[j].inUseBy # None <=> q.conn = less[j].id
      OBVIOUS
    <3>1. was(j) \in 1..n /\ was(j) # i /\ less[j] = p.owned[was(j)]
      BY <1>7
    <3>2. CASE p.owned[i].inUseBy = None
      BY <1>0, <1>1, <1>4, <1>6, <3>1, <3>2 DEF Linked
    <3>3. CASE p.owned[i].inUseBy # None
      <4>1. less[j].inUseBy = None
        BY <1>10, <3>1, <3>3
      <4>2. p.owned[was(j)] \in Link
        BY <1>0, <1>1, <3>1, PoolTyped
      <4>3. less[j].id # None
        BY <3>1, <4>2, ConnFacts DEF Link
      <4> QED
        BY <1>4, <1>6, <3>3, <4>1, <4>3
    <3> QED
      BY <3>2, <3>3
  <2>3. q.conn # None => \E j \in 1..(n - 1) : less[j].id = q.conn
    <3> SUFFICES ASSUME q.conn # None PROVE \E j \in 1..(n - 1) : less[j].id = q.conn
      OBVIOUS
    <3>1. q.conn = p.conn /\ p.owned[i].inUseBy = None
      BY <1>4, <1>6
    <3>2. PICK k \in 1..n : p.owned[k].id = p.conn
      BY <1>0, <1>1, <3>1 DEF Linked
    <3>3. k # i
      BY <1>0, <1>1, <3>1, <3>2 DEF Linked
    <3>4. PICK j \in 1..(n - 1) : was(j) = k
      BY <1>9, <3>3
    <3> QED
      BY <1>7, <3>1, <3>2, <3>4
  <2> QED
    BY <1>3, <1>6, <2>1, <2>2, <2>3 DEF Linked
<1>12. Demanded(q) /\ (p.promise = "waiting" => q.promise = "waiting")
  <2>1. CASE p.owned[i].inUseBy = None
    BY <1>0, <1>4, <1>6, <2>1 DEF Demanded
  <2>2. CASE p.owned[i].inUseBy # None
    <3>1. p.conn = id /\ id # None
      BY <1>0, <1>1, <2>2, ConnFacts DEF Linked, id
    <3>2. p.promise # "waiting" /\ p.demands = <<>>
      BY <1>0, <3>1 DEF Demanded
    <3> QED
      BY <1>4, <1>6, <2>2, <3>2 DEF Demanded
  <2> QED
    BY <2>1, <2>2
<1>13. AtWork(q) = AtWork(p) /\ OneAttempt(q)
  <2>1. AtWork(q) = AtWork(p)
    BY <1>6 DEF AtWork
  <2> QED
    BY <1>0, <1>1, <1>3, <1>6, <2>1 DEF OneAttempt
<1>14. Ids(q) = Ids(p) \ {id}
  <2>1. \A j \in 1..(n - 1) : less[j].id \in Ids(p) \ {id}
    BY SMTT(30), <1>0, <1>1, <1>7 DEF Ids, Linked, id
  <2>2. \A k \in 1..n : p.owned[k].id # id => p.owned[k].id \in Ids(q)
    <3> SUFFICES ASSUME NEW k \in 1..n, p.owned[k].id # id PROVE p.owned[k].id \in Ids(q)
      OBVIOUS
    <3>1. PICK j \in 1..(n - 1) : was(j) = k
      BY <1>9 DEF id
    <3> QED
      BY <1>3, <1>6, <1>7, <3>1 DEF Ids
  <2> QED
    BY ZenonT(60), <1>1, <1>3, <1>6, <2>1, <2>2 DEF Ids
<1> QED
  BY <1>6, <1>11, <1>12, <1>13, <1>14 DEF PoolOK, ShutDown, q

\* shutdown leaves what is used alone.
LEMMA ShutdownHolds ==
    ASSUME NEW p, PoolOK(p)
    PROVE  LET q == Shutdown(p)
           IN  /\ PoolOK(q) /\ q.promise = p.promise /\ q.conn = p.conn /\ q.owned = p.owned
               /\ AtWork(q) = AtWork(p) /\ q.closing = Ids(p) /\ Ids(q) = Ids(p)
               /\ q.state = "shutdown"
<1> DEFINE q == Shutdown(p)
<1>0. p \in Pools /\ Linked(p) /\ Demanded(p) /\ OneAttempt(p)
  BY DEF PoolOK
<1>1. Ids(p) \subseteq Conns
  BY <1>0, PoolTyped DEF Ids, Link
<1>2. q = [p EXCEPT !.state = "shutdown", !.closing = Ids(p)] /\ "shutdown" \in EndpointStates
  BY ConnFacts DEF Shutdown, Ids
<1> HIDE DEF q
<1>3. /\ q \in Pools /\ q.promise = p.promise /\ q.conn = p.conn /\ q.owned = p.owned
      /\ q.demands = p.demands /\ q.timers = p.timers /\ q.opening = p.opening
      /\ q.pending = p.pending /\ q.closing = Ids(p) /\ q.state = "shutdown"
  BY <1>0, <1>1, <1>2 DEF Pools
<1>4. Linked(q) /\ Demanded(q) /\ OneAttempt(q) /\ AtWork(q) = AtWork(p) /\ Ids(q) = Ids(p)
  BY <1>0, <1>3 DEF Linked, Demanded, OneAttempt, AtWork, Ids
<1> QED
  BY <1>3, <1>4 DEF PoolOK, q

\* A pool starts with what was stashed at most.
LEMMA NewPoolHolds ==
    ASSUME NEW stashed \in BOOLEAN
    PROVE  LET q == NewPool(stashed)
           IN  PoolOK(q) /\ PoolOK(Shutdown(q)) /\ ShutDown(Shutdown(q))
<1> DEFINE q == NewPool(stashed)
           one == [id |-> 1, inUseBy |-> None]
           mine == IF stashed THEN <<one>> ELSE <<>>
<1>1. one \in Link /\ one.id = 1 /\ one.inUseBy = None
  BY ConnFacts DEF Link
<1>2. mine \in Seq(Link) /\ Len(mine) <= 1 /\ Len(mine) \in Nat /\ DOMAIN mine = 1..Len(mine)
      /\ \A i \in DOMAIN mine : mine[i] = one /\ i = 1
  <2>1. PICK o \in Link : o = one
    BY <1>1
  <2>2. /\ <<o>> \in Seq(Link) /\ Len(<<o>>) = 1 /\ DOMAIN <<o>> = 1..1
        /\ \A i \in 1..1 : <<o>>[i] = o /\ i = 1
    BY <2>1
  <2>3. CASE stashed
    <3>1. mine = <<o>>
      BY <2>1, <2>3
    <3> HIDE DEF mine, one
    <3>2. Len(mine) = 1 /\ DOMAIN mine = 1..1 /\ mine \in Seq(Link)
      BY <2>2, <3>1
    <3>3. \A i \in 1..1 : mine[i] = one /\ i = 1
      BY <2>1, <2>2, <3>1
    <3> QED
      BY <3>2, <3>3
  <2>4. CASE ~stashed
    <3>1. mine = <<>>
      BY <2>4
    <3> QED
      BY <3>1
  <2> QED
    BY <2>3, <2>4
<1>3. 0 \in 0..Retries /\ "healthy" \in EndpointStates /\ MaxConns \in Nat /\ MaxConns >= 1
  BY ConnFacts
<1>4. /\ q.state = "healthy" /\ q.next = 0 /\ q.pending = FALSE /\ q.timers = 0 /\ q.opening = 0
      /\ q.closing = {} /\ q.demands = <<>> /\ q.owned = mine /\ q.conn = None /\ q.promise = "none"
  BY DEF NewPool
<1>5. q \in Pools
  <2> HIDE DEF mine
  <2>1. q = [state |-> "healthy", next |-> 0, pending |-> FALSE, timers |-> 0, opening |-> 0,
             closing |-> {}, demands |-> <<>>, owned |-> mine, conn |-> None, promise |-> "none"]
    BY DEF NewPool, mine
  <2> QED
    BY <1>2, <1>3, <2>1 DEF Pools
<1> HIDE DEF q, mine
<1>6. AtWork(q) = 0 /\ OneAttempt(q)
  <2>1. AtWork(q) = 0
    BY <1>4 DEF AtWork
  <2> QED
    BY <1>2, <1>3, <1>4, <2>1 DEF OneAttempt
<1>7. Linked(q) /\ Demanded(q)
  BY <1>1, <1>2, <1>4, ConnFacts DEF Linked, Demanded
<1>8. PoolOK(q)
  BY <1>5, <1>6, <1>7 DEF PoolOK
<1>9. PoolOK(Shutdown(q)) /\ AtWork(Shutdown(q)) = AtWork(q) /\ Shutdown(q).closing = Ids(q)
      /\ Ids(Shutdown(q)) = Ids(q) /\ Shutdown(q).state = "shutdown"
  BY <1>8, ShutdownHolds
<1> QED
  BY <1>6, <1>8, <1>9 DEF q, ShutDown

-----------------------------------------------------------------------------
(* The connections of an account, with the tasks that ask for them. *)

\* A task that waits is one that the client waits for.
Waits == \A c \in Callers : callers[c] = "waiting" => pool.promise = "waiting"

CallersTyped == callers \in [Callers -> {"idle", "acquiring", "holding", "waiting", "working"}]

ConnInv == PoolOK(pool) /\ CallersTyped /\ Waits

\* There was no instance yet.
Unborn == pool = NewPool(FALSE) /\ \A c \in Callers : callers[c] \in {"idle", "acquiring"}

LEMMA AskHolds ==
    ASSUME ConnInv, NEW c \in Callers, Ask(c)
    PROVE  ConnInv' /\ (ShutDown(pool) => ShutDown(pool'))
<1>1. /\ PoolOK(pool') /\ (pool'.conn = None => pool'.promise = "waiting")
      /\ pool.promise = "waiting" => pool'.promise = "waiting"
      /\ ShutDown(pool) => ShutDown(pool')
  BY GimmeHolds DEF Ask, ConnInv
<1>2. CallersTyped'
  BY DEF Ask, ConnInv, CallersTyped
<1>3. \A d \in Callers : d # c => callers'[d] = callers[d]
  BY DEF Ask, ConnInv, CallersTyped
<1>4. callers'[c] = "waiting" => pool'.conn = None
  BY DEF Ask, ConnInv, CallersTyped
<1>5. Waits'
  BY <1>1, <1>3, <1>4 DEF Waits, ConnInv
<1> QED
  BY <1>1, <1>2, <1>5 DEF ConnInv

LEMMA ConnHolds ==
    ASSUME ConnInv, ConnNext
    PROVE  ConnInv' /\ (ShutDown(pool) => ShutDown(pool')) /\ ~Unborn
<1>0. pool \in Pools /\ PoolOK(pool)
  BY DEF ConnInv, PoolOK
<1>1. ASSUME Unborn PROVE FALSE
  <2>1. pool.timers = 0 /\ pool.opening = 0 /\ pool.owned = <<>> /\ DOMAIN pool.owned = {}
    BY <1>1 DEF Unborn, NewPool
  <2>2. \A c \in Callers : callers[c] \notin {"holding", "working"}
    BY <1>1 DEF Unborn
  <2> QED
    BY <2>1, <2>2 DEF ConnNext, Ask, CommandEnds, TimerFires, AttemptSucceeds, AttemptFails
<1>2. ASSUME NEW c \in Callers, Ask(c) PROVE ConnInv' /\ (ShutDown(pool) => ShutDown(pool'))
  BY <1>2, AskHolds
<1>3. ASSUME NEW c \in Callers, CommandEnds(c) PROVE ConnInv' /\ (ShutDown(pool) => ShutDown(pool'))
  <2>1. pool' = pool /\ CallersTyped' /\ \A d \in Callers : callers'[d] = "waiting" => callers[d] = "waiting"
    BY <1>3 DEF CommandEnds, ConnInv, CallersTyped
  <2> QED
    BY <2>1 DEF ConnInv, Waits
<1>4. ASSUME TimerFires PROVE ConnInv' /\ (ShutDown(pool) => ShutDown(pool'))
  <2>1. pool.timers > 0 /\ callers' = callers
        /\ pool' = [pool EXCEPT !.timers = pool.timers - 1, !.opening = pool.opening + 1, !.pending = TRUE]
    BY <1>4 DEF TimerFires
  <2>2. PICK n \in Nat, m \in Nat : n = pool.timers - 1 /\ m = pool.opening + 1 /\ n + m = pool.timers + pool.opening
    BY <1>0, <2>1, PoolTyped
  <2>3. pool' = [pool EXCEPT !.timers = n, !.opening = m, !.pending = TRUE]
    BY <2>1, <2>2
  <2>4. pool' \in Pools
    BY <1>0, <2>3 DEF Pools
  <2>5. SameUse(pool, pool') /\ pool'.timers = n /\ pool'.opening = m /\ pool'.pending = TRUE
    BY <1>0, <2>3 DEF Pools, SameUse
  <2>6. AtWork(pool') = AtWork(pool)
    BY <2>2, <2>5 DEF AtWork
  <2>7. OneAttempt(pool')
    BY <1>0, <2>5, <2>6 DEF PoolOK, OneAttempt, SameUse
  <2>8. PoolOK(pool')
    BY <1>0, <2>4, <2>5, <2>7, SameUseHolds DEF PoolOK
  <2>9. ~ShutDown(pool)
    BY <1>0, <2>1, PoolTyped DEF ShutDown
  <2>10. pool'.promise = pool.promise
    BY <2>5 DEF SameUse
  <2> QED
    BY <2>1, <2>8, <2>9, <2>10 DEF ConnInv, Waits, CallersTyped
<1>5. ASSUME AttemptSucceeds PROVE ConnInv' /\ (ShutDown(pool) => ShutDown(pool'))
  <2>1. PoolOK(pool') /\ (pool.promise = "waiting" => pool'.conn # None)
    BY <1>0, <1>5, OpenedHolds DEF AttemptSucceeds
  <2>2. CallersTyped' /\ \A c \in Callers :
            callers'[c] = "waiting" => callers[c] = "waiting" /\ pool'.conn = None
    BY <1>5 DEF AttemptSucceeds, Served, ConnInv, CallersTyped
  <2>3. Waits'
    BY <2>1, <2>2 DEF ConnInv, Waits
  <2>4. ~ShutDown(pool)
    BY <1>0, <1>5, PoolTyped DEF ShutDown, AttemptSucceeds
  <2> QED
    BY <2>1, <2>2, <2>3, <2>4 DEF ConnInv
<1>6. ASSUME AttemptFails PROVE ConnInv' /\ (ShutDown(pool) => ShutDown(pool'))
  <2>1. PICK err \in Errors : pool' = Refused(pool, err)
    BY <1>6 DEF AttemptFails
  <2>2. PoolOK(pool') /\ SameUse(pool, pool') /\ callers' = callers
    BY <1>0, <1>6, <2>1, RefusedHolds DEF AttemptFails
  <2>3. ~ShutDown(pool)
    BY <1>0, <1>6, PoolTyped DEF ShutDown, AttemptFails
  <2> QED
    BY <2>2, <2>3 DEF ConnInv, Waits, CallersTyped, SameUse
<1>7. ASSUME NEW i \in DOMAIN pool.owned, Closes(i) PROVE ConnInv' /\ (ShutDown(pool) => ShutDown(pool'))
  <2>1. /\ PoolOK(pool') /\ (pool.promise = "waiting" => pool'.promise = "waiting")
        /\ ShutDown(pool) => ShutDown(pool')
    BY <1>0, <1>7, LostHolds DEF Closes
  <2>2. CallersTyped' /\ \A c \in Callers : callers'[c] = "waiting" => callers[c] = "waiting"
    BY <1>7 DEF Closes, ConnInv, CallersTyped
  <2> QED
    BY <2>1, <2>2 DEF ConnInv, Waits
<1> QED
  BY <1>1, <1>2, <1>3, <1>4, <1>5, <1>6, <1>7 DEF ConnNext

-----------------------------------------------------------------------------
(* The manager. *)

Names == {"it", "other"}

ManagerTypes ==
    /\ def \in BOOLEAN /\ stash \in BOOLEAN /\ cleanup \in BOOLEAN
    /\ early \in BOOLEAN /\ late \in BOOLEAN
    /\ added \in {"no", "waiting", "done", "failed"}
    /\ tasks \in {"no", "loading", "done"}
    /\ folderLoad \in {"none", "loading", "rejected"}
    /\ reading \in Nat /\ made \in Nat
    /\ toc \in 0..made /\ instance \in 0..made
    /\ load \in {"none", "folders", "module", "rejected"}
    /\ listed \in Seq(Names)

\* As long as the account is there, its folders are read once at a time, nothing has failed, and
\* everyone finds what was made last; an instance is made from that once.
FoldersAre ==
    /\ toc \in {0, made} /\ (def /\ made > 0 => toc = made) /\ (~def => toc = 0)
    /\ def => /\ folderLoad \in {"none", "loading"} /\ load # "rejected"
              /\ ~cleanup /\ ~late /\ ~early
              /\ reading = IF folderLoad = "loading" THEN 1 ELSE 0
              /\ load = "folders" => folderLoad = "loading"
              /\ load = "module" => folderLoad = "none" /\ made > 0
              /\ added \in {"waiting", "done"} /\ (added = "done" => made > 0)
    /\ instance # 0 => def /\ instance = toc /\ folderLoad = "none" /\ load = "none"
    /\ load = "module" /\ ~def => cleanup
    /\ added # "done" => instance = 0 /\ load = "none"
    /\ added = "no" => /\ ~def /\ made = 0 /\ load = "none" /\ folderLoad = "none" /\ reading = 0
                       /\ ~cleanup /\ ~late /\ ~early

\* The account is listed from its announcement to its removal.
ListIs ==
    /\ (def /\ added # "done") \/ added = "no" => listed = <<"other">>
    /\ def /\ added = "done" => listed \in {<<"it", "other">>, <<"other", "it">>}
    /\ ~def /\ added # "no" /\ ~early => listed = <<"other">> /\ added = "done"

\* A connection that was stashed is on its way to the instance.
StashIs ==
    /\ stash /\ def /\ added = "done" => load \in {"folders", "module"}
    /\ stash /\ ~def /\ ~early /\ added # "no" => load = "module"

\* A pool is made once, and shut down with the account.
PoolIs ==
    /\ instance = 0 /\ (def \/ added = "no" \/ load = "module") => Unborn
    /\ ~def /\ ~late => Unborn \/ ShutDown(pool)

AccInv == ConnInv /\ ManagerTypes /\ FoldersAre /\ ListIs /\ StashIs /\ PoolIs

LEMMA ShortSlices ==
    /\ SubSeq(<<"other">>, 1, 0) = <<>> /\ SubSeq(<<"other">>, 1, 1) = <<"other">>
    /\ SubSeq(<<"other">>, 2, 1) = <<>> /\ Len(<<"other">>) = 1
<1>1. /\ SubSeq(<<"other">>, 1, 0) = <<>> /\ SubSeq(<<"other">>, 2, 1) = <<>>
      /\ Len(<<"other">>) = 1
  OBVIOUS
<1>2. ASSUME NEW o \in Seq(Names), Len(o) = 1, o[1] = "other"
      PROVE  o = <<"other">>
  BY <1>2
<1>3. /\ SubSeq(<<"other">>, 1, 1) \in Seq(Names) /\ Len(SubSeq(<<"other">>, 1, 1)) = 1
      /\ SubSeq(<<"other">>, 1, 1)[1] = "other"
  <2>1. <<"other">> \in Seq(Names)
    BY DEF Names
  <2> QED
    BY <2>1
<1> QED
  BY <1>1, <1>2, <1>3

\* The account is listed on either side of the other one.
LEMMA InsertHolds ==
    ASSUME NEW s \in Seq(Names), NEW k \in 1..(Len(s) + 1)
    PROVE  /\ InsertAt(s, k, "it") \in Seq(Names)
           /\ s = <<"other">> => InsertAt(s, k, "it") \in {<<"it", "other">>, <<"other", "it">>}
<1>1. /\ SubSeq(s, 1, k - 1) \in Seq(Names) /\ SubSeq(s, k, Len(s)) \in Seq(Names)
      /\ <<"it">> \in Seq(Names)
  BY DEF Names
<1>2. InsertAt(s, k, "it") \in Seq(Names)
  BY <1>1 DEF InsertAt
<1>3. ASSUME s = <<"other">>
      PROVE  InsertAt(s, k, "it") \in {<<"it", "other">>, <<"other", "it">>}
  <2> DEFINE o == <<"other">>
  <2>0. /\ SubSeq(o, 1, 0) = <<>> /\ SubSeq(o, 1, 1) = o /\ SubSeq(o, 2, 1) = <<>>
        /\ Len(o) = 1
    BY ShortSlices
  <2>1. CASE k = 1
    <3>1. InsertAt(s, k, "it") = SubSeq(o, 1, 0) \o <<"it">> \o SubSeq(o, 1, 1)
      BY <1>3, <2>0, <2>1 DEF InsertAt
    <3>2. InsertAt(s, k, "it") = <<>> \o <<"it">> \o <<"other">>
      BY <2>0, <3>1
    <3> QED
      BY <3>2
  <2>2. CASE k = 2
    <3>1. InsertAt(s, k, "it") = SubSeq(o, 1, 1) \o <<"it">> \o SubSeq(o, 2, 1)
      BY <1>3, <2>0, <2>2 DEF InsertAt
    <3>2. InsertAt(s, k, "it") = <<"other">> \o <<"it">> \o <<>>
      BY <2>0, <3>1
    <3> QED
      BY <3>2
  <2> QED
    BY <1>3, <2>1, <2>2
<1> QED
  BY <1>2, <1>3

\* And it is taken off from there.
LEMMA UnlistedHolds ==
    ASSUME listed \in {<<"other">>, <<"it", "other">>, <<"other", "it">>}
    PROVE  /\ Unlisted \in Seq(Names)
           /\ "it" \in Range(listed) => Unlisted = <<"other">>
           /\ listed = <<"other">> => "it" \notin Range(listed)
<1> DEFINE k == IF "it" \in Range(listed) THEN CHOOSE j \in DOMAIN listed : listed[j] = "it"
                ELSE Len(listed)
<1>0. Unlisted = RemoveAt(listed, k)
  BY DEF Unlisted
<1>1. CASE listed = <<"other">>
  <2>1. "it" \notin Range(listed) /\ Len(listed) = 1 /\ DOMAIN listed = 1..1
    BY <1>1 DEF Range
  <2>2. k \in DOMAIN listed /\ listed \in Seq(Names)
    BY <1>1, <2>1 DEF Names
  <2> HIDE DEF k
  <2>3. RemoveAt(listed, k) \in Seq(Names)
    BY <2>2, Removal
  <2> QED
    BY <1>0, <2>1, <2>3
<1>2. CASE listed = <<"it", "other">>
  <2>1. "it" \in Range(listed) /\ DOMAIN listed = 1..2 /\ Len(listed) = 2
    BY <1>2 DEF Range
  <2>2. k = 1 /\ listed \in Seq(Names) /\ k \in DOMAIN listed
    BY <1>2, <2>1 DEF Names
  <2> HIDE DEF k
  <2>3. /\ RemoveAt(listed, k) \in Seq(Names) /\ Len(RemoveAt(listed, k)) = 1
        /\ RemoveAt(listed, k)[1] = "other"
    <3>1. /\ RemoveAt(listed, k) \in Seq(Names) /\ Len(RemoveAt(listed, k)) = Len(listed) - 1
          /\ \A j \in 1..(Len(listed) - 1) :
                RemoveAt(listed, k)[j] = IF j < k THEN listed[j] ELSE listed[j + 1]
      BY <2>1, <2>2, Removal
    <3>2. 1 \in 1..(Len(listed) - 1) /\ listed[1 + 1] = "other"
      BY <1>2, <2>1
    <3> QED
      BY <2>1, <2>2, <3>1, <3>2
  <2>4. RemoveAt(listed, k) = <<"other">>
    BY <2>3
  <2> QED
    BY <1>0, <1>2, <2>3, <2>4
<1>3. CASE listed = <<"other", "it">>
  <2>1. "it" \in Range(listed) /\ DOMAIN listed = 1..2 /\ Len(listed) = 2
    BY <1>3 DEF Range
  <2>2. k = 2 /\ listed \in Seq(Names) /\ k \in DOMAIN listed
    BY <1>3, <2>1 DEF Names
  <2> HIDE DEF k
  <2>3. /\ RemoveAt(listed, k) \in Seq(Names) /\ Len(RemoveAt(listed, k)) = 1
        /\ RemoveAt(listed, k)[1] = "other"
    <3>1. /\ RemoveAt(listed, k) \in Seq(Names) /\ Len(RemoveAt(listed, k)) = Len(listed) - 1
          /\ \A j \in 1..(Len(listed) - 1) :
                RemoveAt(listed, k)[j] = IF j < k THEN listed[j] ELSE listed[j + 1]
      BY <2>1, <2>2, Removal
    <3>2. 1 \in 1..(Len(listed) - 1) /\ listed[1] = "other"
      BY <1>3, <2>1
    <3> QED
      BY <2>1, <2>2, <3>1, <3>2
  <2>4. RemoveAt(listed, k) = <<"other">>
    BY <2>3
  <2> QED
    BY <1>0, <1>3, <2>3, <2>4
<1> QED
  BY <1>1, <1>2, <1>3

LEMMA CreateHolds ==
    ASSUME AccInv, Create
    PROVE  AccInv'
<1> USE DEF Create, EnsureFolders, EnsureAccount, AccountAdded
<1>1. ConnInv' /\ (Unborn => Unborn')
  BY DEF AccInv, ConnInv, connVars, Waits, CallersTyped, Unborn
<1>2. ManagerTypes'
  BY DEF AccInv, ManagerTypes, FoldersAre
<1>3. FoldersAre'
  BY DEF AccInv, ManagerTypes, FoldersAre
<1>4. ListIs'
  BY DEF AccInv, ManagerTypes, FoldersAre, ListIs
<1>5. StashIs'
  BY DEF AccInv, ManagerTypes, FoldersAre, StashIs
<1>6. PoolIs'
  BY <1>1 DEF AccInv, ManagerTypes, FoldersAre, PoolIs, connVars
<1> QED
  BY <1>1, <1>2, <1>3, <1>4, <1>5, <1>6 DEF AccInv

LEMMA TasksLoadedHolds ==
    ASSUME AccInv, TasksLoaded
    PROVE  AccInv'
<1> USE DEF TasksLoaded, EnsureFolders, EnsureAccount
<1>1. ConnInv' /\ (Unborn => Unborn')
  BY DEF AccInv, ConnInv, connVars, Waits, CallersTyped, Unborn
<1>2. ManagerTypes'
  BY DEF AccInv, ManagerTypes, FoldersAre
<1>3. FoldersAre'
  BY DEF AccInv, ManagerTypes, FoldersAre
<1>4. ListIs'
  BY DEF AccInv, ManagerTypes, FoldersAre, ListIs
<1>5. StashIs'
  BY DEF AccInv, ManagerTypes, FoldersAre, StashIs
<1>6. PoolIs'
  BY <1>1 DEF AccInv, ManagerTypes, FoldersAre, PoolIs, connVars
<1> QED
  BY <1>1, <1>2, <1>3, <1>4, <1>5, <1>6 DEF AccInv

LEMMA FoldersLoadedHolds ==
    ASSUME AccInv, FoldersLoaded
    PROVE  AccInv'
<1> USE DEF FoldersLoaded, EnsureFolders, EnsureAccount, LetDown
<1>1. ConnInv' /\ (Unborn => Unborn')
  BY DEF AccInv, ConnInv, connVars, Waits, CallersTyped, Unborn
<1>2. ManagerTypes'
  BY DEF AccInv, ManagerTypes, FoldersAre
<1>3. FoldersAre'
  BY DEF AccInv, ManagerTypes, FoldersAre
<1>4. ListIs'
  BY DEF AccInv, ManagerTypes, FoldersAre, ListIs
<1>5. StashIs'
  BY DEF AccInv, ManagerTypes, FoldersAre, StashIs
<1>6. PoolIs'
  BY <1>1 DEF AccInv, ManagerTypes, FoldersAre, PoolIs, connVars
<1> QED
  BY <1>1, <1>2, <1>3, <1>4, <1>5, <1>6 DEF AccInv

LEMMA AnnounceHolds ==
    ASSUME AccInv, Announce
    PROVE  AccInv'
<1> USE DEF Announce, EnsureFolders, EnsureAccount
<1>1. ConnInv' /\ (Unborn => Unborn')
  BY DEF AccInv, ConnInv, connVars, Waits, CallersTyped, Unborn
<1>0. PICK k \in 1..(Len(listed) + 1) : listed' = InsertAt(listed, k, "it")
  OBVIOUS
<1>7. /\ listed' \in Seq(Names)
      /\ listed = <<"other">> => listed' \in {<<"it", "other">>, <<"other", "it">>}
  BY <1>0, InsertHolds DEF AccInv, ManagerTypes
<1>2. ManagerTypes'
  <2>1. /\ load' \in {"none", "folders", "module", "rejected"} /\ reading' \in Nat
        /\ folderLoad' \in {"none", "loading", "rejected"}
    BY DEF AccInv, ManagerTypes
  <2> QED
    BY <1>7, <2>1 DEF AccInv, ManagerTypes
<1>3. FoldersAre'
  <2>1. instance = 0
    BY DEF AccInv, ManagerTypes, FoldersAre
  <2> QED
    BY <2>1 DEF AccInv, ManagerTypes, FoldersAre
<1>4. ListIs'
  BY <1>7 DEF AccInv, ManagerTypes, FoldersAre, ListIs
<1>5. StashIs'
  BY DEF AccInv, ManagerTypes, FoldersAre, StashIs
<1>6. PoolIs'
  BY <1>1 DEF AccInv, ManagerTypes, FoldersAre, PoolIs, connVars
<1> QED
  BY <1>1, <1>2, <1>3, <1>4, <1>5, <1>6 DEF AccInv

LEMMA AccountLoadedHolds ==
    ASSUME AccInv, AccountLoaded
    PROVE  AccInv'
<1> USE DEF AccountLoaded, EnsureFolders, EnsureAccount
<1>7. Unborn /\ stash \in BOOLEAN /\ cleanup \in BOOLEAN
  <2>1. instance = 0
    BY DEF AccInv, FoldersAre
  <2> QED
    BY <2>1 DEF AccInv, ManagerTypes, PoolIs
<1>1. ConnInv' /\ (cleanup => ShutDown(pool'))
  <2>1. PoolOK(pool') /\ (cleanup => ShutDown(pool'))
    BY <1>7, NewPoolHolds
  <2>2. CallersTyped' /\ \A c \in Callers : callers'[c] # "waiting"
    BY <1>7 DEF Unborn, AccInv, ConnInv, CallersTyped
  <2> QED
    BY <2>1, <2>2 DEF ConnInv, Waits
<1>2. ManagerTypes'
  BY DEF AccInv, ManagerTypes, FoldersAre
<1>3. FoldersAre'
  BY DEF AccInv, ManagerTypes, FoldersAre
<1>4. ListIs'
  BY DEF AccInv, ManagerTypes, FoldersAre, ListIs
<1>5. StashIs'
  BY DEF AccInv, ManagerTypes, FoldersAre, StashIs
<1>6. PoolIs'
  BY <1>1 DEF AccInv, ManagerTypes, FoldersAre, PoolIs, connVars
<1> QED
  BY <1>1, <1>2, <1>3, <1>4, <1>5, <1>6 DEF AccInv

LEMMA ViewFoldersHolds ==
    ASSUME AccInv, ViewFolders
    PROVE  AccInv'
<1> USE DEF ViewFolders, EnsureFolders, EnsureAccount
<1>1. ConnInv' /\ (Unborn => Unborn')
  BY DEF AccInv, ConnInv, connVars, Waits, CallersTyped, Unborn
<1>2. ManagerTypes'
  BY DEF AccInv, ManagerTypes, FoldersAre
<1>3. FoldersAre'
  <2>1. listed # <<"other">>
    BY UnlistedHolds
  <2>2. added # "no" /\ instance = 0 /\ (load = "module" => ~def)
    BY <2>1 DEF AccInv, ManagerTypes, FoldersAre, ListIs
  <2> QED
    BY <2>2 DEF AccInv, ManagerTypes, FoldersAre
<1>4. ListIs'
  BY DEF AccInv, ManagerTypes, FoldersAre, ListIs
<1>5. StashIs'
  BY DEF AccInv, ManagerTypes, FoldersAre, StashIs
<1>6. PoolIs'
  BY <1>1 DEF AccInv, ManagerTypes, FoldersAre, PoolIs, connVars
<1> QED
  BY <1>1, <1>2, <1>3, <1>4, <1>5, <1>6 DEF AccInv

LEMMA AccountRemovedHolds ==
    ASSUME AccInv, AccountRemoved
    PROVE  AccInv'
<1>0. /\ def /\ ~def' /\ early' = ("it" \notin Range(listed) \/ reading > 0) /\ callers' = callers
      /\ added' = added /\ tasks' = tasks /\ reading' = reading /\ made' = made /\ stash' = stash
      /\ def' \in BOOLEAN
  BY DEF AccountRemoved
<1>1. /\ added \in {"waiting", "done"} /\ ~cleanup /\ ~late
      /\ listed \in {<<"other">>, <<"it", "other">>, <<"other", "it">>}
      /\ added # "done" => listed = <<"other">>
  BY <1>0 DEF AccInv, FoldersAre, ListIs
<1>2. /\ listed' \in Seq(Names) /\ toc' = 0
      /\ folderLoad' \in {"none", "loading", "rejected"}
      /\ toc # 0 => listed' = Unlisted
      /\ toc = 0 => listed' = listed
  <2>1. CASE toc # 0
    BY <1>1, <2>1, UnlistedHolds DEF AccountRemoved, RemoveFolders
  <2>2. CASE toc = 0
    BY <2>2 DEF AccountRemoved, RemoveFolders, AccInv, ManagerTypes
  <2> QED
    BY <2>1, <2>2
<1>3. \/ /\ instance # 0 /\ instance' = 0 /\ load' = "none" /\ pool' = Shutdown(pool)
         /\ late' = (AtWork(pool) > 0) /\ cleanup' = cleanup
      \/ /\ instance = 0 /\ cleanup' = (load \in {"folders", "module"})
         /\ instance' = instance /\ pool' = pool /\ load' = load /\ late' = late
  BY DEF AccountRemoved, RemoveInstance, UnderWay, AtWork
<1>4. early' \in BOOLEAN /\ late' \in BOOLEAN /\ cleanup' \in BOOLEAN
  <2>1. early' \in BOOLEAN
    BY <1>0
  <2>0. late \in BOOLEAN /\ cleanup \in BOOLEAN
    BY DEF AccInv, ManagerTypes
  <2>2. late' \in BOOLEAN
    <3>1. CASE instance # 0
      <4>1. late' = (AtWork(pool) > 0)
        BY <1>3, <3>1
      <4>2. CASE AtWork(pool) > 0
        BY <4>1, <4>2
      <4>3. CASE ~(AtWork(pool) > 0)
        BY <4>1, <4>3
      <4> QED
        BY <4>2, <4>3
    <3>2. CASE instance = 0
      BY <1>3, <2>0, <3>2
    <3> QED
      BY <3>1, <3>2
  <2>3. cleanup' \in BOOLEAN
    <3>1. CASE instance # 0
      BY <1>3, <2>0, <3>1
    <3>2. CASE instance = 0
      <4>1. cleanup' = (load \in {"folders", "module"})
        BY <1>3, <3>2
      <4>2. CASE load \in {"folders", "module"}
        BY <4>1, <4>2
      <4>3. CASE load \notin {"folders", "module"}
        BY <4>1, <4>3
      <4> QED
        BY <4>2, <4>3
    <3> QED
      BY <3>1, <3>2
  <2> QED
    BY <2>1, <2>2, <2>3
<1>5. ConnInv' /\ (instance = 0 /\ Unborn => Unborn') /\ (instance # 0 /\ ~late' => ShutDown(pool'))
  <2>1. CASE instance # 0
    <3>1. /\ PoolOK(pool') /\ pool'.promise = pool.promise /\ pool'.state = "shutdown"
          /\ AtWork(pool') = AtWork(pool) /\ pool'.closing = Ids(pool')
      BY <1>3, <2>1, ShutdownHolds DEF AccInv, ConnInv
    <3>2. AtWork(pool) \in Nat
      BY PoolTyped DEF AccInv, ConnInv, PoolOK
    <3>3. ~late' => AtWork(pool') = 0
      <4>1. late' = (AtWork(pool) > 0)
        BY <1>3, <2>1
      <4>2. ~late' => ~(AtWork(pool) > 0)
        BY <4>1
      <4> QED
        BY <3>1, <3>2, <4>2
    <3> QED
      BY <1>0, <2>1, <3>1, <3>3 DEF AccInv, ConnInv, Waits, CallersTyped, ShutDown
  <2>2. CASE instance = 0
    BY <1>0, <1>3, <2>2 DEF AccInv, ConnInv, Waits, CallersTyped, Unborn
  <2> QED
    BY <2>1, <2>2
<1>6. ManagerTypes'
  <2>1. instance' \in 0..made' /\ toc' \in 0..made' /\ load' \in {"none", "folders", "module", "rejected"}
    BY <1>0, <1>2, <1>3 DEF AccInv, ManagerTypes
  <2> QED
    BY <1>0, <1>2, <1>4, <2>1 DEF AccInv, ManagerTypes
<1>7. FoldersAre'
  BY <1>0, <1>1, <1>2, <1>3 DEF AccInv, ManagerTypes, FoldersAre
<1>8. ListIs'
  <2> SUFFICES ASSUME ~early' PROVE listed' = <<"other">> /\ added = "done"
    BY <1>0, <1>1 DEF ListIs
  <2>1. "it" \in Range(listed) /\ ~(reading > 0)
    BY <1>0
  <2>2. listed # <<"other">> /\ added = "done"
    BY <1>1, <2>1, UnlistedHolds
  <2>3. toc # 0
    BY <1>0, <2>2 DEF AccInv, FoldersAre, ManagerTypes
  <2>4. Unlisted = <<"other">>
    BY <1>1, <2>1, UnlistedHolds
  <2> QED
    BY <1>2, <2>2, <2>3, <2>4
<1>9. StashIs'
  <2> SUFFICES ASSUME ~early', stash PROVE load' = "module"
    BY <1>0 DEF StashIs
  <2>1. "it" \in Range(listed) /\ ~(reading > 0)
    BY <1>0
  <2>2. added = "done"
    BY <1>1, <2>1, UnlistedHolds
  <2>3. load \in {"folders", "module"}
    BY <1>0, <2>2 DEF AccInv, StashIs
  <2>4. load = "module" /\ instance = 0
    BY <1>0, <2>1, <2>3 DEF AccInv, FoldersAre
  <2> QED
    BY <1>3, <2>4
<1>10. PoolIs'
  <2>1. instance = 0 => Unborn
    BY <1>0 DEF AccInv, PoolIs
  <2> QED
    BY <1>0, <1>1, <1>3, <1>5, <2>1 DEF PoolIs
<1> QED
  BY <1>5, <1>6, <1>7, <1>8, <1>9, <1>10 DEF AccInv

LEMMA AcquireHolds ==
    ASSUME AccInv, NEW c \in Callers, Acquire(c)
    PROVE  AccInv'
<1> USE DEF Acquire, EnsureFolders, EnsureAccount
<1>1. ConnInv' /\ (instance = 0 /\ Unborn => Unborn')
  <2>1. /\ CallersTyped' /\ pool' = pool
        /\ \A d \in Callers : callers'[d] = "waiting" => callers[d] = "waiting"
        /\ \A d \in Callers : callers'[d] \in {"idle", "acquiring", callers[d]} \/ instance # 0
    BY DEF AccInv, ConnInv, CallersTyped
  <2> QED
    BY <2>1 DEF AccInv, ConnInv, Waits, Unborn
<1>2. ManagerTypes'
  BY DEF AccInv, ManagerTypes, FoldersAre
<1>3. FoldersAre'
  BY DEF AccInv, ManagerTypes, FoldersAre
<1>4. ListIs'
  BY DEF AccInv, ManagerTypes, FoldersAre, ListIs
<1>5. StashIs'
  BY DEF AccInv, ManagerTypes, FoldersAre, StashIs
<1>6. PoolIs'
  BY <1>1 DEF AccInv, ManagerTypes, FoldersAre, PoolIs, connVars
<1> QED
  BY <1>1, <1>2, <1>3, <1>4, <1>5, <1>6 DEF AccInv

LEMMA AccConnHolds ==
    ASSUME AccInv, ConnNext, UNCHANGED managerVars
    PROVE  AccInv'
<1>1. ConnInv' /\ (ShutDown(pool) => ShutDown(pool')) /\ ~Unborn
  BY ConnHolds DEF AccInv
<1>2. ManagerTypes' /\ FoldersAre' /\ ListIs' /\ StashIs'
  BY DEF AccInv, managerVars, ManagerTypes, FoldersAre, ListIs, StashIs
<1>3. PoolIs'
  BY <1>1 DEF AccInv, managerVars, PoolIs
<1> QED
  BY <1>1, <1>2, <1>3 DEF AccInv

LEMMA AccStep ==
    ASSUME AccInv, [Next]_vars
    PROVE  AccInv'
<1>1. CASE UNCHANGED vars
  <2>1. UNCHANGED <<pool, callers>> /\ UNCHANGED managerVars
    BY <1>1 DEF vars, connVars
  <2>2. ConnInv' /\ (Unborn => Unborn') /\ (ShutDown(pool) => ShutDown(pool'))
    BY <2>1 DEF AccInv, ConnInv, Waits, CallersTyped, Unborn
  <2>3. ManagerTypes' /\ FoldersAre' /\ ListIs' /\ StashIs'
    BY <2>1 DEF AccInv, managerVars, ManagerTypes, FoldersAre, ListIs, StashIs
  <2>4. PoolIs'
    BY <2>1, <2>2 DEF AccInv, managerVars, PoolIs
  <2> QED
    BY <2>2, <2>3, <2>4 DEF AccInv
<1>2. CASE Next
  BY <1>2, CreateHolds, TasksLoadedHolds, FoldersLoadedHolds, AnnounceHolds, AccountLoadedHolds,
     ViewFoldersHolds, AccountRemovedHolds, AcquireHolds, AccConnHolds DEF Next, Loads
<1> QED
  BY <1>1, <1>2

LEMMA AccStart ==
    ASSUME Init
    PROVE  AccInv
<1>1. ConnInv /\ Unborn
  <2>1. PoolOK(pool)
    BY NewPoolHolds DEF Init
  <2>2. CallersTyped /\ Waits
    BY DEF Init, CallersTyped, Waits
  <2>3. Unborn
    BY DEF Init, Unborn
  <2> QED
    BY <2>1, <2>2, <2>3 DEF ConnInv
<1>2. PICK atBoot \in BOOLEAN :
          /\ def = atBoot
          /\ added = IF atBoot THEN "waiting" ELSE "no"
          /\ folderLoad = IF atBoot THEN "loading" ELSE "none"
          /\ reading = IF atBoot THEN 1 ELSE 0
          /\ tasks \in IF atBoot THEN {"loading"} ELSE {"no", "done"}
  BY DEF Init
<1>3. /\ toc = 0 /\ made = 0 /\ load = "none" /\ instance = 0
      /\ stash = FALSE /\ cleanup = FALSE /\ listed = <<"other">>
      /\ early = FALSE /\ late = FALSE
  BY DEF Init
<1>4. ManagerTypes
  <2>1. listed \in Seq(Names)
    BY <1>3 DEF Names
  <2>2. reading \in Nat /\ tasks \in {"no", "loading", "done"}
    BY <1>2
  <2>3. /\ def \in BOOLEAN /\ stash \in BOOLEAN /\ cleanup \in BOOLEAN
        /\ early \in BOOLEAN /\ late \in BOOLEAN
    BY <1>2, <1>3
  <2>4. added \in {"no", "waiting", "done", "failed"} /\ folderLoad \in {"none", "loading", "rejected"}
    BY <1>2
  <2>5. made \in Nat /\ toc \in 0..made /\ instance \in 0..made
    BY <1>3
  <2> QED
    BY <1>3, <2>1, <2>2, <2>3, <2>4, <2>5 DEF ManagerTypes
<1>5. FoldersAre /\ ListIs /\ StashIs
  BY <1>2, <1>3 DEF FoldersAre, ListIs, StashIs
<1> QED
  BY <1>1, <1>4, <1>5 DEF AccInv, PoolIs

LEMMA AccShows ==
    ASSUME AccInv
    PROVE  AccountInStep
<1>0. pool \in Pools /\ Linked(pool) /\ Demanded(pool) /\ OneAttempt(pool)
  BY DEF AccInv, ConnInv, PoolOK
<1>1. ConnTypeOK
  <2>1. pool.demands \in Seq([dieOnConnectFailure : BOOLEAN])
    <3>1. Demand \in [dieOnConnectFailure : BOOLEAN]
      BY DEF Demand
    <3>2. <<Demand>> \in Seq([dieOnConnectFailure : BOOLEAN]) /\ <<>> \in Seq([dieOnConnectFailure : BOOLEAN])
      BY <3>1
    <3> QED
      BY <1>0, <3>2, PoolTyped
  <2> QED
    BY <1>0, <2>1, PoolTyped DEF ConnTypeOK, Link, AccInv, ConnInv, CallersTyped
<1>2. TypeOK
  BY <1>1 DEF AccInv, ManagerTypes, TypeOK, Names
<1>3. PoolInStep
  <2>1. Len(pool.demands) = IF pool.promise = "waiting" THEN 1 ELSE 0
    BY <1>0, DemandIsSome DEF Demanded
  <2>2. Asked # {} => pool.demands # <<>>
    BY <1>0, DemandIsSome DEF Demanded, Asked, AccInv, ConnInv, Waits
  <2> QED
    BY <1>0, <2>1, <2>2 DEF PoolInStep, Linked, OneAttempt, UnderWay, AtWork
<1>4. RemovedIsGone
  <2>1. instance # 0 => def /\ instance = toc
    BY DEF AccInv, FoldersAre
  <2>2. ASSUME ~def, added # "no", load \notin {"folders", "module"}
        PROVE  instance = 0 /\ toc = 0 /\ (~early => listed = <<"other">> /\ ~stash)
    BY <2>2 DEF AccInv, FoldersAre, ListIs, StashIs
  <2>3. ASSUME ~def, ~late, pool.closing = {}
        PROVE  pool.owned = <<>>
    <3>1. CASE Unborn
      BY <3>1 DEF Unborn, NewPool
    <3>2. CASE ShutDown(pool)
      <4>1. Ids(pool) = {}
        BY <2>3, <3>2 DEF ShutDown
      <4>2. DOMAIN pool.owned = {}
        BY <4>1 DEF Ids
      <4> QED
        BY <1>0, <4>2, PoolTyped
    <3> QED
      BY <2>3, <3>1, <3>2 DEF AccInv, PoolIs
  <2> QED
    BY <2>1, <2>2, <2>3 DEF RemovedIsGone, LoadsAtRest
<1> QED
  BY <1>2, <1>3, <1>4 DEF AccountInStep

LEMMA AccountAlone == Spec => []AccountInStep
<1>1. Init => AccInv
  BY AccStart
<1>2. AccInv /\ [Next]_vars => AccInv'
  BY AccStep
<1>3. AccInv => AccountInStep
  BY AccShows
<1> QED
  BY <1>1, <1>2, <1>3, PTL DEF Spec

\* What the other services do is nothing to the account.
LEMMA AnAccountItIs == AnySpec => Spec
<1>1. AnyInit => Init
  BY DEF AnyInit, NoAccount
<1>2. [AnyNext]_anyVars => [Next]_vars
  BY DEF AnyNext, anyVars
<1> QED
  BY <1>1, <1>2, PTL DEF AnySpec, Spec

\* The client's view of its connection and the pool's agree through every death of a connection, one
\* attempt is made at a time, the instance works with the folders everyone finds, and nothing is left
\* of a deleted account but for what AccountInStep excepts (account_manager.js, accounts/imap/account.js,
\* errbackoff.js, parallel_imap.js).
THEOREM AccountInStepHolds == AnySpec => []AccountInStep
BY AccountAlone, AnAccountItIs, PTL

=============================================================================
