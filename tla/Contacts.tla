------------------------------- MODULE Contacts -------------------------------
(***************************************************************************)
(* The people that mail comes from, as the client shows them: every        *)
(* message and conversation makes its own peeps, which stay registered     *)
(* under their address and under the contact they belong to until their    *)
(* owner forgets them (ContactCache).  What the address book says of an    *)
(* address is looked up once and cached; changes of the book are followed. *)
(* The book answers in any order, or with an error; its events come in the *)
(* order of the changes.  A contact is told from others by its id; its     *)
(* name stands for all that is copied from it.                             *)
(***************************************************************************)
EXTENDS Naturals, Sequences, FiniteSets

CONSTANTS
    Addresses, People,
    Slots,        \* bound: peeps that exist at a time
    MaxHits,      \* MAX_CACHE_HITS
    MaxEmpty,     \* MAX_CACHE_EMPTY
    MaxDeeds,     \* bound: what the user and the mail do, changes of the book, errors
    Nobody,       \* not a contact
    Unknown       \* undefined

VARIABLES
    book,                  \* the addresses of each contact, Nobody if there is none
    gone,                  \* contacts that have been removed; their ids do not come back
    notices,               \* contactchange events to be heard
    _contactCache, _cacheHitEntries, _cacheEmptyEntries,
    peep,                  \* the live peeps
    _livePeepsByEmail, _livePeepsById,
    lookups,               \* find requests by address: what they found, Unknown so far
    refinds,               \* find requests by id, after a change
    pendingLookupCount,
    callbacks,             \* callers that wait for the count to become zero
    orphans,               \* history: lookups that found a contact but no live peep
    misled,                \* history: addresses of which an answer was applied that was an error,
                           \* or had been overtaken by a change, or a change was never answered
    had,                   \* history: the contacts that had each address
    deeds

cacheVars   == <<_contactCache, _cacheHitEntries, _cacheEmptyEntries>>
peepVars    == <<peep, _livePeepsByEmail, _livePeepsById>>
requestVars == <<lookups, refinds, pendingLookupCount, callbacks>>
contactVars == <<book, gone, notices, cacheVars, peepVars, requestVars, orphans, misled, had, deeds>>

Peep == [address : Addresses, contactId : People \cup {Nobody}, name : People \cup {Nobody},
         owned : BOOLEAN]

TypeOK ==
    /\ book \in [People -> (SUBSET Addresses) \cup {Nobody}]
    /\ gone \subseteq {c \in People : book[c] = Nobody}
    /\ notices \in Seq([reason : {"create", "update", "remove"}, id : People \cup {Nobody}])
    /\ _contactCache \in [Addresses -> People \cup {Nobody, Unknown}]
    /\ _cacheHitEntries \in 0..MaxHits /\ _cacheEmptyEntries \in 0..MaxEmpty
    /\ peep \in [Slots -> Peep \cup {Nobody}]
    /\ _livePeepsByEmail \in [Addresses -> SUBSET Slots]
    /\ _livePeepsById \in [People -> SUBSET Slots]
    /\ \A l \in lookups : l.address \in Addresses /\ l.found \in People \cup {Nobody, Unknown}
    /\ \A r \in refinds : r.id \in People
    /\ pendingLookupCount \in Nat /\ callbacks \in Nat /\ orphans \in Nat
    /\ misled \subseteq Addresses /\ had \in [Addresses -> SUBSET People] /\ deeds \in 0..MaxDeeds

Having(a) == {c \in People : book[c] # Nobody /\ a \in book[c]}

ContactInit ==
    /\ book \in [People -> {Nobody} \cup {{a} : a \in Addresses}]
    /\ \A p, q \in People : p # q /\ book[p] # Nobody => book[p] # book[q]
    /\ gone = {} /\ notices = << >>
    /\ _contactCache = [a \in Addresses |-> Unknown] /\ _cacheHitEntries = 0 /\ _cacheEmptyEntries = 0
    /\ peep = [s \in Slots |-> Nobody]
    /\ _livePeepsByEmail = [a \in Addresses |-> {}] /\ _livePeepsById = [c \in People |-> {}]
    /\ lookups = {} /\ refinds = {} /\ pendingLookupCount = 0 /\ callbacks = 0
    /\ orphans = 0 /\ misled = {} /\ had = [a \in Addresses |-> Having(a)] /\ deeds = 0

Deed == deeds < MaxDeeds /\ deeds' = deeds + 1
Unused(requests) == CHOOSE n \in 1..(Cardinality(requests) + 1) : \A r \in requests : r.n # n

-----------------------------------------------------------------------------
(* The address book. *)

\* A contact is made, or its addresses change.
Saves(c, emails) ==
    /\ Deed /\ book[c] # emails /\ c \notin gone
    /\ book' = [book EXCEPT ![c] = emails]
    /\ notices' = Append(notices, [reason |-> IF book[c] = Nobody THEN "create" ELSE "update", id |-> c])
    /\ had' = [a \in Addresses |-> had[a] \cup IF a \in emails THEN {c} ELSE {}]
    /\ UNCHANGED <<gone, cacheVars, peepVars, requestVars, orphans, misled>>

Removes(c) ==
    /\ Deed /\ book[c] # Nobody
    /\ book' = [book EXCEPT ![c] = Nobody] /\ gone' = gone \cup {c}
    /\ notices' = Append(notices, [reason |-> "remove", id |-> c])
    /\ UNCHANGED <<cacheVars, peepVars, requestVars, orphans, misled, had>>

\* The event has no id.
RemovesAll ==
    /\ Deed /\ \E c \in People : book[c] # Nobody
    /\ book' = [c \in People |-> Nobody] /\ gone' = {c \in People : book[c] # Nobody} \cup gone
    /\ notices' = Append(notices, [reason |-> "remove", id |-> Nobody])
    /\ UNCHANGED <<cacheVars, peepVars, requestVars, orphans, misled, had>>

\* A request is carried out; its answer is on the way.
Finds(l) ==
    /\ l.found = Unknown
    /\ \E found \in IF Having(l.address) = {} THEN {Nobody} ELSE Having(l.address) :
           lookups' = (lookups \ {l}) \cup {[l EXCEPT !.found = found]}
    /\ UNCHANGED <<book, gone, notices, cacheVars, peepVars, refinds, pendingLookupCount, callbacks, orphans,
                   misled, had, deeds>>

\* It fails, which handleResult takes for an answer without a result.
FindFails(l) ==
    /\ Deed /\ l.found = Unknown
    /\ lookups' = (lookups \ {l}) \cup {[l EXCEPT !.found = Nobody]}
    /\ UNCHANGED <<book, gone, notices, cacheVars, peepVars, refinds, pendingLookupCount, callbacks, orphans,
                   misled, had>>

FindsById(r) ==
    /\ r.found = Unknown
    /\ refinds' = (refinds \ {r}) \cup {[r EXCEPT !.found = book[r.id]]}
    /\ UNCHANGED <<book, gone, notices, cacheVars, peepVars, lookups, pendingLookupCount, callbacks, orphans,
                   misled, had, deeds>>

-----------------------------------------------------------------------------
(* Peeps. *)

\* resolvePeep: by what the cache says; what it does not know is taken for
\* nobody's until the answer is there.  The peeps in left lose their owner.
Resolve(s, a, owned, left) ==
    LET entry == _contactCache[a]
        who   == IF entry \in People THEN entry ELSE Nobody
        new   == [address |-> a, contactId |-> who, name |-> who, owned |-> owned]
    IN  /\ peep[s] = Nobody
        /\ peep' = [t \in Slots |-> CASE t = s      -> new
                                      [] t \in left -> [peep[t] EXCEPT !.owned = FALSE]
                                      [] OTHER      -> peep[t]]
        /\ _livePeepsByEmail' = [_livePeepsByEmail EXCEPT ![a] = @ \cup {s}]
        /\ _livePeepsById' = [c \in People |-> _livePeepsById[c] \cup IF c = who THEN {s} ELSE {}]
        /\ IF entry = Unknown
           THEN /\ _contactCache' = [_contactCache EXCEPT ![a] = Nobody]
                /\ pendingLookupCount' = pendingLookupCount + 1
                /\ lookups' = lookups \cup {[n |-> Unused(lookups), address |-> a, found |-> Unknown]}
           ELSE UNCHANGED <<_contactCache, pendingLookupCount, lookups>>
        /\ UNCHANGED <<book, gone, notices, _cacheHitEntries, _cacheEmptyEntries, refinds, orphans, misled, had>>

\* A message or a conversation is shown.
Shows(s, a) == Deed /\ Resolve(s, a, TRUE, {}) /\ UNCHANGED callbacks

\* A conversation is updated: its authors are resolved again, and the peeps it
\* had until then are not forgotten.
Updates(s, t) ==
    /\ Deed /\ peep[s] # Nobody /\ peep[s].owned
    /\ Resolve(t, peep[s].address, TRUE, {s})
    /\ UNCHANGED callbacks

\* resolveEmailAddressToPeep: nobody ever forgets this peep.
Asks(s, a) ==
    /\ Deed /\ Resolve(s, a, FALSE, {})
    /\ callbacks' = IF pendingLookupCount' # 0 THEN callbacks + 1 ELSE callbacks

\* Mutant of ForgottenById: a peep stays registered under its contact.
ForgottenByIdKept(s) == _livePeepsById

\* forgetPeepInstances, under the contact that the peep has by now.
ForgottenById(s) == [c \in People |-> IF peep[s].contactId = c THEN _livePeepsById[c] \ {s} ELSE _livePeepsById[c]]

\* release of a message, or of a conversation in a list.
Releases(s) ==
    /\ peep[s] # Nobody /\ peep[s].owned
    /\ peep' = [peep EXCEPT ![s] = Nobody]
    /\ _livePeepsById' = ForgottenById(s)
    /\ _livePeepsByEmail' = [_livePeepsByEmail EXCEPT ![peep[s].address] = @ \ {s}]
    /\ UNCHANGED <<book, gone, notices, cacheVars, requestVars, orphans, misled, had, deeds>>

-----------------------------------------------------------------------------
(* Answers. *)

ResetCache ==
    /\ _contactCache' = [a \in Addresses |-> Unknown]
    /\ _cacheHitEntries' = 0 /\ _cacheEmptyEntries' = 0

\* Those of some peeps that nobody has yet are linked to a contact, and all of
\* them that named says take its name.
Link(slots, named, c) ==
    LET new == {s \in slots : peep[s].contactId = Nobody} IN
    /\ peep' = [s \in Slots |->
                  IF s \notin slots THEN peep[s]
                  ELSE [peep[s] EXCEPT !.contactId = IF s \in new THEN c ELSE @,
                                       !.name = IF s \in named THEN c ELSE @]]
    /\ _livePeepsById' = [_livePeepsById EXCEPT ![c] = @ \cup new]

\* The next notice about a contact is still to be heard.
Noticed(c) == \E i \in DOMAIN notices : notices[i].id \in {c, Nobody}

\* What a request found is not so any more, or there is a contact that it did not
\* find, and the change was heard of before.
Overtaken(a, found) ==
    IF found = Nobody THEN \E c \in Having(a) : ~Noticed(c)
    ELSE found \notin Having(a) /\ ~Noticed(found)

\* The request after a change fails: there is no onerror, and no peep hears of the change.
Untrue(s, c) ==
    peep[s] # Nobody /\ (peep[s].contactId = c) # (book[c] # Nobody /\ peep[s].address \in book[c])
FindByIdFails(r) ==
    /\ Deed /\ r.found = Unknown
    /\ refinds' = refinds \ {r}
    /\ misled' = misled \cup IF Noticed(r.id) THEN {} ELSE {peep[s].address : s \in {t \in Slots : Untrue(t, r.id)}}
    /\ UNCHANGED <<book, gone, notices, cacheVars, peepVars, lookups, pendingLookupCount, callbacks, orphans, had>>

\* handleResult, a contact: it is cached, which may be once too often, and the
\* live peeps of the address belong to it.  If there are none it returns before
\* the count goes down.
Found(l) ==
    /\ l.found \in People
    /\ LET a == l.address
           live == _livePeepsByEmail[a]
       IN  /\ IF _cacheHitEntries + 1 > MaxHits THEN ResetCache
              ELSE /\ _contactCache' = [_contactCache EXCEPT ![a] = l.found]
                   /\ _cacheHitEntries' = _cacheHitEntries + 1
                   /\ UNCHANGED _cacheEmptyEntries
           /\ Link(live, live, l.found)
           /\ lookups' = lookups \ {l}
           /\ IF live = {}
              THEN orphans' = orphans + 1 /\ UNCHANGED <<pendingLookupCount, callbacks>>
              ELSE /\ pendingLookupCount' = pendingLookupCount - 1
                   /\ callbacks' = IF pendingLookupCount' = 0 THEN 0 ELSE callbacks
                   /\ UNCHANGED orphans
           /\ misled' = misled \cup IF Overtaken(a, l.found) THEN {a} ELSE {}
    /\ UNCHANGED <<book, gone, notices, _livePeepsByEmail, refinds, had, deeds>>

\* handleResult, nobody or an error.
FoundNobody(l) ==
    /\ l.found = Nobody
    /\ IF _cacheEmptyEntries + 1 > MaxEmpty THEN ResetCache
       ELSE /\ _contactCache' = [_contactCache EXCEPT ![l.address] = Nobody]
            /\ _cacheEmptyEntries' = _cacheEmptyEntries + 1
            /\ UNCHANGED _cacheHitEntries
    /\ lookups' = lookups \ {l}
    /\ pendingLookupCount' = pendingLookupCount - 1
    /\ callbacks' = IF pendingLookupCount' = 0 THEN 0 ELSE callbacks
    /\ misled' = misled \cup IF Overtaken(l.address, Nobody) THEN {l.address} ELSE {}
    /\ UNCHANGED <<book, gone, notices, peepVars, refinds, orphans, had, deeds>>

\* The peeps of some contacts belong to nobody.
Unlink(cs) ==
    /\ peep' = [s \in Slots |-> IF \E c \in cs : s \in _livePeepsById[c]
                                THEN [peep[s] EXCEPT !.contactId = Nobody] ELSE peep[s]]
    /\ _livePeepsById' = [c \in People |-> IF c \in cs THEN {} ELSE _livePeepsById[c]]

\* _onContactChange: the cache is dropped; who is removed loses their peeps, of
\* any other change more must be found out.
Hears ==
    /\ notices # << >>
    /\ notices' = Tail(notices)
    /\ IF _cacheHitEntries # 0 \/ _cacheEmptyEntries # 0 THEN ResetCache ELSE UNCHANGED cacheVars
    /\ LET m == Head(notices) IN
       IF m.reason = "remove"
       THEN /\ Unlink(IF m.id = Nobody THEN People ELSE {m.id})
            /\ UNCHANGED refinds
       ELSE /\ refinds' = refinds \cup {[n |-> Unused(refinds), id |-> m.id, reason |-> m.reason,
                                         found |-> Unknown]}
            /\ UNCHANGED <<peep, _livePeepsById>>
    /\ UNCHANGED <<book, gone, _livePeepsByEmail, lookups, pendingLookupCount, callbacks, orphans, misled,
                   had, deeds>>

\* req.onsuccess: peeps whose address has gone from the contact are let go,
\* those of its addresses that nobody has are linked to it.
Rechecks(r) ==
    /\ r.found # Unknown
    /\ refinds' = refinds \ {r}
    /\ IF r.found = Nobody THEN UNCHANGED <<peep, _livePeepsById>>
       ELSE LET c    == r.id
                lost == IF r.reason = "update"
                        THEN {s \in _livePeepsById[c] : peep[s].address \notin r.found} ELSE {}
                new  == {s \in UNION {_livePeepsByEmail[a] : a \in r.found} : peep[s].contactId = Nobody}
                its  == (_livePeepsById[c] \ lost) \cup new
            IN  /\ peep' = [s \in Slots |->
                              CASE s \in lost -> [peep[s] EXCEPT !.contactId = Nobody]
                                [] s \in its /\ peep[s].address \in r.found ->
                                       [peep[s] EXCEPT !.contactId = c, !.name = c]
                                [] OTHER -> peep[s]]
                /\ _livePeepsById' = [_livePeepsById EXCEPT ![c] = its]
    /\ LET late == IF r.found = book[r.id] \/ Noticed(r.id) THEN {} ELSE {r.found, book[r.id]}
       IN  misled' = misled \cup UNION (late \ {Nobody})
    /\ UNCHANGED <<book, gone, notices, cacheVars, _livePeepsByEmail, lookups, pendingLookupCount, callbacks,
                   orphans, had, deeds>>

-----------------------------------------------------------------------------
ContactNext ==
    \/ \E c \in People : (\E emails \in SUBSET Addresses : Saves(c, emails)) \/ Removes(c)
    \/ RemovesAll \/ Hears
    \/ \E l \in lookups : Finds(l) \/ FindFails(l) \/ Found(l) \/ FoundNobody(l)
    \/ \E r \in refinds : FindsById(r) \/ FindByIdFails(r) \/ Rechecks(r)
    \/ \E s \in Slots : Releases(s) \/ (\E a \in Addresses : Shows(s, a) \/ Asks(s, a))
                        \/ \E t \in Slots : Updates(s, t)

-----------------------------------------------------------------------------
(* Properties. *)

\* A peep is registered under its address and under its contact, and no other
\* is, whatever lookups, changes and releases come together: what is released
\* can go, and what is shown hears of changes.
RegistriesAgree ==
    /\ TypeOK
    /\ \A a \in Addresses : _livePeepsByEmail[a] = {s \in Slots : peep[s] # Nobody /\ peep[s].address = a}
    /\ \A c \in People : _livePeepsById[c] = {s \in Slots : peep[s] # Nobody /\ peep[s].contactId = c}

\* Whoever waits for lookups is called when none is pending; a lookup that found
\* a contact of which no peep is left is counted for ever.
CallersAreCalled ==
    /\ pendingLookupCount = Cardinality(lookups) + orphans
    /\ callbacks # 0 => pendingLookupCount # 0

Shared == {a \in Addresses : Cardinality(had[a]) > 1}

\* When all is heard, a peep belongs to the contact that has its address and
\* carries its name, and the cache says the same; unless an answer came too
\* late or was an error, or several contacts had the address.
ContactsAreTrue ==
    notices = << >> /\ lookups = {} /\ refinds = {} =>
        /\ \A s \in Slots : peep[s] # Nobody /\ peep[s].address \notin misled \cup Shared =>
              /\ IF peep[s].contactId = Nobody THEN Having(peep[s].address) = {}
                 ELSE Having(peep[s].address) = {peep[s].contactId}
              /\ peep[s].contactId # Nobody => peep[s].name = peep[s].contactId
        /\ \A a \in Addresses \ (misled \cup Shared) :
              CASE _contactCache[a] = Unknown -> TRUE
                [] _contactCache[a] = Nobody  -> Having(a) = {}
                [] OTHER                      -> Having(a) = {_contactCache[a]}
=============================================================================
