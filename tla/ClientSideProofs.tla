--------------------------- MODULE ClientSideProofs ---------------------------
(***************************************************************************)
(* The client's parts, for any number of addresses, contacts, peeps,       *)
(* lookups and changes, and for any edits of a draft: one inductive        *)
(* invariant for each part.                                                *)
(***************************************************************************)
EXTENDS ClientSide, TLAPS, FiniteSetTheorems, WellFoundedInduction

-----------------------------------------------------------------------------
(* Contacts. *)

APeep   == [address : Addresses, contactId : Persons \cup {Nobody}, name : Persons \cup {Nobody},
            owned : BOOLEAN]
ALookup == [n : Nat, address : Addresses, found : Persons \cup {Nobody, Unknown}]
ARefind == [n : Nat, id : Persons, reason : {"create", "update"},
            found : (SUBSET Addresses) \cup {Nobody, Unknown}]
ANotice == [reason : {"create", "update", "remove"}, id : Persons \cup {Nobody}]

ContactTypes ==
    /\ book \in [Persons -> (SUBSET Addresses) \cup {Nobody}]
    /\ gone \subseteq {c \in Persons : book[c] = Nobody}
    /\ notices \in Seq(ANotice)
    /\ _contactCache \in [Addresses -> Persons \cup {Nobody, Unknown}]
    /\ _cacheHitEntries \in 0..MaxHits /\ _cacheEmptyEntries \in 0..MaxEmpty
    /\ peep \in [Slots -> APeep \cup {Nobody}]
    /\ _livePeepsByEmail \in [Addresses -> SUBSET Slots]
    /\ _livePeepsById \in [Persons -> SUBSET Slots]
    /\ IsFiniteSet(lookups) /\ lookups \subseteq ALookup
    /\ IsFiniteSet(refinds) /\ refinds \subseteq ARefind
    /\ callbacks \in Nat /\ orphans \in Nat
    /\ misled \subseteq Addresses /\ had \in [Addresses -> SUBSET Persons] /\ deeds \in 0..MaxDeeds

\* The two registries, by address and by contact.
Registered ==
    /\ \A a \in Addresses : _livePeepsByEmail[a] = {i \in Slots : peep[i] # Nobody /\ peep[i].address = a}
    /\ \A c \in Persons : _livePeepsById[c] = {i \in Slots : peep[i] # Nobody /\ peep[i].contactId = c}

\* Lookups are told apart by their number, and counted.
Counted ==
    /\ \A k, l \in lookups : k.n = l.n => k = l
    /\ pendingLookupCount = Cardinality(lookups) + orphans
    /\ callbacks # 0 => pendingLookupCount # 0

\* Is there a notice of one of these kinds about the contact, or about all?
Notice(i, kinds, ids) == notices[i].reason \in kinds /\ notices[i].id \in ids
Heralded(kinds, ids)  == \E i \in DOMAIN notices : Notice(i, kinds, ids)
EveryKind == {"create", "update", "remove"}

\* What was ever found was so once.
HadOnce ==
    /\ \A a \in Addresses, c \in Persons :
          /\ book[c] # Nobody /\ a \in book[c] => c \in had[a]
          /\ c \in had[a] => book[c] # Nobody \/ c \in gone
    /\ \A a \in Addresses : _contactCache[a] \in Persons => _contactCache[a] \in had[a]
    /\ \A i \in Slots : peep[i] # Nobody /\ peep[i].contactId # Nobody => peep[i].contactId \in had[peep[i].address]
    /\ \A l \in lookups : l.found \in Persons => l.found \in had[l.address]
    /\ \A r \in refinds : r.found \notin {Nobody, Unknown} => \A a \in r.found : r.id \in had[a]

\* Notices come in the order of the changes.  Of a contact that is gone the last is that it was removed.
Ended(c) ==
    \A i \in DOMAIN notices : notices[i].id \in {c, Nobody} =>
        \E j \in DOMAIN notices : i <= j /\ Notice(j, {"remove"}, {c, Nobody})

\* What there is was created after all else was removed, and after a notice of it there are updates.
Begun(c) ==
    /\ \A i \in DOMAIN notices : Notice(i, {"create", "remove"}, {c, Nobody}) =>
          \E j \in DOMAIN notices : i <= j /\ Notice(j, {"create"}, {c})
    /\ \A i, j \in DOMAIN notices : i < j /\ Notice(i, EveryKind, {c}) /\ Notice(j, EveryKind, {c, Nobody}) =>
          notices[j].reason = "update"
    /\ \A a \in Addresses : c \in had[a] /\ a \notin book[c] /\ Heralded({"create"}, {c}) =>
          Heralded({"update"}, {c})

InOrder ==
    /\ \A i \in DOMAIN notices :
          /\ notices[i].reason # "remove" =>
                notices[i].id \in Persons /\ (book[notices[i].id] # Nobody \/ notices[i].id \in gone)
          /\ notices[i].reason = "remove" /\ notices[i].id # Nobody => notices[i].id \in gone
    /\ \A c \in Persons : IF book[c] = Nobody THEN Ended(c) ELSE Begun(c)

\* Who is looked up again was heard of, and only updates follow.
HeardOf ==
    \A r \in refinds :
        /\ book[r.id] # Nobody \/ r.id \in gone
        /\ book[r.id] # Nobody => \A i \in DOMAIN notices : Notice(i, EveryKind, {r.id, Nobody}) =>
                                                             notices[i].reason = "update"

\* The cache has what it counts, or what is being looked up.
CacheCounted ==
    /\ \A a \in Addresses : _contactCache[a] \in Persons => _cacheHitEntries # 0
    /\ _cacheHitEntries = 0 /\ _cacheEmptyEntries = 0 =>
          \A a \in Addresses : _contactCache[a] = Nobody => \E l \in lookups : l.address = a

Alone(a) == \A c, d \in had[a] : c = d
Owns(c, a) == book[c] # Nobody /\ a \in book[c]

\* It will be heard that the contact has lost, or got, an address.
LossIsToCome(c) == IF book[c] = Nobody THEN Heralded({"remove"}, {c, Nobody}) ELSE Heralded({"update"}, {c})
GainIsToCome(c) == Heralded({"create", "update"}, {c})
Asked(a) == \E l \in lookups : l.address = a

\* What the cache says is so, or an answer or a change is to come.
CacheFollows ==
    \A a \in Addresses \ misled : \A c \in Persons :
        /\ _contactCache[a] = c /\ ~Owns(c, a) => LossIsToCome(c)
        /\ _contactCache[a] = Nobody /\ Owns(c, a) /\ Alone(a) => GainIsToCome(c) \/ Asked(a)

\* And so with the peeps; a contact that has changed is looked up once more.
LossIsSeen(c, a) ==
    \/ LossIsToCome(c)
    \/ book[c] # Nobody /\ \E r \in refinds : /\ r.id = c /\ r.reason = "update" /\ r.found # Nobody
                                              /\ r.found = Unknown \/ a \notin r.found
GainIsSeen(c, a) ==
    \/ GainIsToCome(c) \/ Asked(a)
    \/ \E r \in refinds : r.id = c /\ r.found # Nobody /\ (r.found = Unknown \/ a \in r.found)
PeepFollows(p) ==
    /\ Alone(p.address) /\ p.contactId # Nobody => p.name = p.contactId
    /\ p.address \notin misled => \A c \in Persons :
          /\ p.contactId = c /\ ~Owns(c, p.address) => LossIsSeen(c, p.address)
          /\ p.contactId = Nobody /\ Owns(c, p.address) /\ Alone(p.address) => GainIsSeen(c, p.address)
PeepsFollow == \A i \in Slots : peep[i] # Nobody => PeepFollows(peep[i])

ContactInv ==
    /\ ContactTypes /\ Registered /\ Counted /\ HadOnce /\ InOrder /\ HeardOf /\ CacheCounted
    /\ CacheFollows /\ PeepsFollow
LEMMA Appending ==
    ASSUME NEW S, NEW q \in Seq(S), NEW x \in S
    PROVE  /\ Append(q, x) \in Seq(S) /\ Len(Append(q, x)) = Len(q) + 1 /\ Len(q) \in Nat
           /\ DOMAIN Append(q, x) = 1..(Len(q) + 1) /\ DOMAIN q = 1..Len(q)
           /\ \A i \in 1..Len(q) : Append(q, x)[i] = q[i]
           /\ Append(q, x)[Len(q) + 1] = x
OBVIOUS

LEMMA Shifting ==
    ASSUME NEW S, NEW q \in Seq(S), q # << >>
    PROVE  /\ Tail(q) \in Seq(S) /\ Len(Tail(q)) = Len(q) - 1 /\ Len(q) \in Nat \ {0}
           /\ DOMAIN Tail(q) = 1..(Len(q) - 1) /\ DOMAIN q = 1..Len(q)
           /\ \A i \in 1..(Len(q) - 1) : Tail(q)[i] = q[i + 1]
           /\ Head(q) = q[1] /\ Head(q) \in S
OBVIOUS

\* The cardinality that Contacts speaks of is that of sets.
LEMMA SameCardinality == \A S : Contact!Cardinality(S) = Cardinality(S)
BY Zenon DEF Contact!Cardinality, Cardinality

\* A number that no member of a finite set of requests has.
LEMMA UnusedIs ==
    ASSUME NEW R, IsFiniteSet(R)
    PROVE  Contact!Unused(R) \in Nat /\ \A r \in R : r.n # Contact!Unused(R)
<1> DEFINE used == {r.n : r \in R}
           all  == 1..(Cardinality(R) + 1)
<1>1. Cardinality(R) \in Nat /\ IsFiniteSet(used) /\ Cardinality(used) <= Cardinality(R)
  <2>1. Cardinality(R) \in Nat
    BY FS_CardinalityType
  <2>2. [r \in R |-> r.n] \in Surjection(R, used)
    BY DEF Surjection
  <2>3. IsFiniteSet(used) /\ Cardinality(used) <= Cardinality(R)
    BY <2>2, FS_Surjection DEF ExistsSurjection
  <2> QED
    BY <2>1, <2>3
<1>2. IsFiniteSet(all) /\ Cardinality(all) = Cardinality(R) + 1
  <2>1. PICK m \in Nat : m = Cardinality(R) + 1
    BY <1>1
  <2>2. IsFiniteSet(1..m) /\ Cardinality(1..m) = m
    BY <2>1, FS_Interval
  <2> QED
    BY <2>1, <2>2
<1>3. \E n \in all : n \notin used
  <2>1. ~(all \subseteq used)
    <3>1. SUFFICES ASSUME all \subseteq used PROVE FALSE
      OBVIOUS
    <3>2. Cardinality(all) <= Cardinality(used)
      BY <1>1, <3>1, FS_Subset
    <3> QED
      BY <1>1, <1>2, <3>2, FS_CardinalityType
  <2> QED
    BY <2>1
<1>4. \E n \in 1..(Cardinality(R) + 1) : \A r \in R : r.n # n
  BY <1>3
<1>5. Contact!Unused(R) \in 1..(Cardinality(R) + 1) /\ \A r \in R : r.n # Contact!Unused(R)
  BY <1>4, SameCardinality DEF Contact!Unused
<1> QED
  BY <1>1, <1>5

LEMMA NoticeAdded ==
    ASSUME ContactTypes, NEW m \in ANotice, notices' = Append(notices, m)
    PROVE  /\ notices' \in Seq(ANotice) /\ Len(notices) \in Nat
           /\ DOMAIN notices = 1..Len(notices) /\ DOMAIN notices' = 1..(Len(notices) + 1)
           /\ \A i \in DOMAIN notices : notices'[i] = notices[i]
           /\ notices'[Len(notices) + 1] = m
           /\ \A kinds, ids : Heralded(kinds, ids) => Heralded(kinds, ids)'
           /\ \A kinds, ids : m.reason \in kinds /\ m.id \in ids => Heralded(kinds, ids)'
<1>1. /\ notices' \in Seq(ANotice) /\ Len(notices) \in Nat
      /\ DOMAIN notices = 1..Len(notices) /\ DOMAIN notices' = 1..(Len(notices) + 1)
      /\ \A i \in DOMAIN notices : notices'[i] = notices[i]
      /\ notices'[Len(notices) + 1] = m
  BY Appending DEF ContactTypes
<1>2. \A kinds, ids : Heralded(kinds, ids) => Heralded(kinds, ids)'
  BY <1>1 DEF Heralded, Notice
<1>3. \A kinds, ids : m.reason \in kinds /\ m.id \in ids => Heralded(kinds, ids)'
  BY <1>1 DEF Heralded, Notice
<1> QED
  BY <1>1, <1>2, <1>3

\* A contact that had an address and does not have it, or has it, and of which a notice is to come.
LEMMA ComesToBeHeard ==
    ASSUME ContactInv, NEW c \in Persons, NEW a \in Addresses, c \in had[a], Contact!Noticed(c)
    PROVE  IF Owns(c, a) THEN GainIsToCome(c) ELSE LossIsToCome(c)
<1>1. PICK i \in DOMAIN notices : notices[i].id \in {c, Nobody}
  BY DEF Contact!Noticed
<1>2. /\ notices[i] \in ANotice /\ notices[i].reason \in EveryKind
      /\ notices[i].reason # "remove" => notices[i].id = c
  <2>1. notices[i] \in ANotice
    BY <1>1 DEF ContactInv, ContactTypes
  <2> QED
    BY <1>1, <2>1, ContactsAssumption DEF ANotice, EveryKind, ContactInv, InOrder
<1>3. CASE book[c] = Nobody
  <2>1. Ended(c)
    BY <1>3 DEF ContactInv, InOrder
  <2> QED
    BY <1>1, <1>3, <2>1 DEF Ended, Owns, LossIsToCome, Heralded
<1>4. CASE book[c] # Nobody
  <2>1. Begun(c)
    BY <1>4 DEF ContactInv, InOrder
  <2>2. Heralded({"create"}, {c}) \/ Heralded({"update"}, {c})
    <3>1. CASE notices[i].reason = "update"
      BY <1>1, <1>2, <3>1 DEF Heralded, Notice
    <3>2. CASE notices[i].reason # "update"
      BY <1>1, <1>2, <2>1, <3>2 DEF Begun, Heralded, Notice, EveryKind
    <3> QED
      BY <3>1, <3>2
  <2>3. CASE Owns(c, a)
    BY <2>2, <2>3 DEF GainIsToCome, Heralded, Notice
  <2>4. CASE ~Owns(c, a)
    <3>1. Heralded({"update"}, {c})
      BY <1>4, <2>1, <2>2, <2>4 DEF Begun, Owns
    <3> QED
      BY <1>4, <2>4, <3>1 DEF LossIsToCome
  <2> QED
    BY <2>3, <2>4
<1> QED
  BY <1>3, <1>4

\* What the parts of the invariant say of a contact whose book entry does not change while a
\* notice of another is added.
LEMMA OthersInOrder ==
    ASSUME ContactInv, NEW m \in ANotice, notices' = Append(notices, m),
           NEW c \in Persons, m.id \notin {c, Nobody}, book'[c] = book[c],
           \A a \in Addresses : c \in had'[a] => c \in had[a]
    PROVE  IF book'[c] = Nobody THEN Ended(c)' ELSE Begun(c)'
<1>1. /\ Len(notices) \in Nat
      /\ DOMAIN notices = 1..Len(notices) /\ DOMAIN notices' = 1..(Len(notices) + 1)
      /\ \A i \in DOMAIN notices : notices'[i] = notices[i]
      /\ notices'[Len(notices) + 1] = m
      /\ \A kinds, ids : Heralded(kinds, ids) => Heralded(kinds, ids)'
  BY NoticeAdded DEF ContactInv
<1>2. \A i \in DOMAIN notices' : notices'[i].id \in {c, Nobody} => i \in DOMAIN notices
  BY <1>1
<1>3. CASE book[c] = Nobody
  <2>1. Ended(c)
    BY <1>3 DEF ContactInv, InOrder
  <2> QED
    BY <1>1, <1>2, <1>3, <2>1 DEF Ended, Notice
<1>4. CASE book[c] # Nobody
  <2>1. Begun(c)
    BY <1>4 DEF ContactInv, InOrder
  <2>2. \A i \in DOMAIN notices' : Notice(i, {"create", "remove"}, {c, Nobody})' =>
           \E j \in DOMAIN notices' : i <= j /\ Notice(j, {"create"}, {c})'
    BY <1>1, <1>2, <2>1 DEF Begun, Notice
  <2>3. \A i, j \in DOMAIN notices' :
           i < j /\ Notice(i, EveryKind, {c})' /\ Notice(j, EveryKind, {c, Nobody})' => notices'[j].reason = "update"
    BY <1>1, <1>2, <2>1 DEF Begun, Notice
  <2>4. Heralded({"create"}, {c})' => Heralded({"create"}, {c})
    BY <1>1, <1>2 DEF Heralded, Notice
  <2>5. \A a \in Addresses : c \in had'[a] /\ a \notin book'[c] /\ Heralded({"create"}, {c})' =>
           Heralded({"update"}, {c})'
    BY <1>1, <1>4, <2>1, <2>4 DEF Begun
  <2> QED
    BY <1>4, <2>2, <2>3, <2>5 DEF Begun
<1> QED
  BY <1>3, <1>4

LEMMA SavesHolds ==
    ASSUME ContactInv, NEW c \in Persons, NEW emails \in SUBSET Addresses, Contact!Saves(c, emails)
    PROVE  ContactInv'
<1> DEFINE reason == IF book[c] = Nobody THEN "create" ELSE "update"
           m      == [reason |-> reason, id |-> c]
<1>1. /\ c \notin gone /\ book' = [book EXCEPT ![c] = emails] /\ notices' = Append(notices, m)
      /\ had' = [a \in Addresses |-> had[a] \cup IF a \in emails THEN {c} ELSE {}]
      /\ deeds' = deeds + 1 /\ deeds < MaxDeeds
  BY DEF Contact!Saves, Contact!Deed
<1>2. UNCHANGED <<gone, _contactCache, _cacheHitEntries, _cacheEmptyEntries, peep, _livePeepsByEmail,
                  _livePeepsById, lookups, refinds, pendingLookupCount, callbacks, orphans, misled>>
  BY DEF Contact!Saves, Contact!cacheVars, Contact!peepVars, Contact!requestVars
<1>3. m \in ANotice /\ m.id = c /\ m.reason = reason
  BY DEF ANotice
<1> HIDE DEF m
<1>4. /\ \A d \in Persons : book'[d] = IF d = c THEN emails ELSE book[d]
      /\ emails # Nobody
      /\ \A a \in Addresses : had[a] \subseteq had'[a] /\ had'[a] \subseteq had[a] \cup {c}
      /\ \A a \in Addresses : c \in had'[a] => c \in had[a] \/ a \in emails
      /\ \A a \in emails : c \in had'[a]
      /\ book[c] = Nobody => \A a \in Addresses : c \notin had[a]
  <2>1. book \in [Persons -> (SUBSET Addresses) \cup {Nobody}] /\ had \in [Addresses -> SUBSET Persons]
    BY DEF ContactInv, ContactTypes
  <2>2. book[c] = Nobody => \A a \in Addresses : c \notin had[a]
    BY <1>1 DEF ContactInv, HadOnce
  <2> QED
    BY <1>1, <2>1, <2>2, ContactsAssumption
<1>5. /\ notices' \in Seq(ANotice) /\ Len(notices) \in Nat
      /\ DOMAIN notices = 1..Len(notices) /\ DOMAIN notices' = 1..(Len(notices) + 1)
      /\ \A i \in DOMAIN notices : notices'[i] = notices[i]
      /\ notices'[Len(notices) + 1] = m
      /\ \A kinds, ids : Heralded(kinds, ids) => Heralded(kinds, ids)'
      /\ \A kinds, ids : m.reason \in kinds /\ m.id \in ids => Heralded(kinds, ids)'
  BY <1>1, <1>3, NoticeAdded DEF ContactInv
<1>6. ContactTypes'
  <2>1. book' \in [Persons -> (SUBSET Addresses) \cup {Nobody}] /\ gone' \subseteq {d \in Persons : book'[d] = Nobody}
    BY <1>1, <1>2, <1>4 DEF ContactInv, ContactTypes
  <2>2. had' \in [Addresses -> SUBSET Persons]
    BY <1>1 DEF ContactInv, ContactTypes
  <2>3. deeds' \in 0..MaxDeeds
    BY <1>1, ContactsAssumption DEF ContactInv, ContactTypes
  <2> QED
    BY <1>2, <1>5, <2>1, <2>2, <2>3 DEF ContactInv, ContactTypes
<1>7. Registered' /\ Counted' /\ CacheCounted'
  BY <1>2 DEF ContactInv, Registered, Counted, CacheCounted
<1>8. HadOnce'
  <2>1. \A a \in Addresses, d \in Persons :
           /\ book'[d] # Nobody /\ a \in book'[d] => d \in had'[a]
           /\ d \in had'[a] => book'[d] # Nobody \/ d \in gone'
    BY <1>2, <1>4 DEF ContactInv, HadOnce
  <2>2. \A i \in Slots : peep'[i] # Nobody /\ peep'[i].contactId # Nobody => peep'[i].contactId \in had'[peep'[i].address]
    BY <1>2, <1>4 DEF ContactInv, HadOnce, ContactTypes, APeep
  <2>3. \A l \in lookups' : l.found \in Persons => l.found \in had'[l.address]
    BY <1>2, <1>4 DEF ContactInv, HadOnce, ContactTypes, ALookup
  <2>4. \A r \in refinds' : r.found \notin {Nobody, Unknown} => \A a \in r.found : r.id \in had'[a]
    BY <1>2, <1>4 DEF ContactInv, HadOnce, ContactTypes, ARefind
  <2>5. \A a \in Addresses : _contactCache'[a] \in Persons => _contactCache'[a] \in had'[a]
    BY <1>2, <1>4 DEF ContactInv, HadOnce
  <2> QED
    BY <2>1, <2>2, <2>3, <2>4, <2>5 DEF HadOnce
<1>9. InOrder'
  <2>1. \A i \in DOMAIN notices :
           /\ notices[i].reason # "remove" =>
                 notices[i].id \in Persons /\ (book[notices[i].id] # Nobody \/ notices[i].id \in gone)
           /\ notices[i].reason = "remove" /\ notices[i].id # Nobody => notices[i].id \in gone
    BY DEF ContactInv, InOrder
  <2>2. \A i \in DOMAIN notices' :
           /\ notices'[i].reason # "remove" =>
                 notices'[i].id \in Persons /\ (book'[notices'[i].id] # Nobody \/ notices'[i].id \in gone')
           /\ notices'[i].reason = "remove" /\ notices'[i].id # Nobody => notices'[i].id \in gone'
    BY <1>2, <1>3, <1>4, <1>5, <2>1
  <2>3. ASSUME NEW d \in Persons, d # c
        PROVE  IF book'[d] = Nobody THEN Ended(d)' ELSE Begun(d)'
    <3>1. m.id \notin {d, Nobody} /\ book'[d] = book[d] /\ \A a \in Addresses : d \in had'[a] => d \in had[a]
      BY <1>3, <1>4, <2>3, ContactsAssumption
    <3> QED
      BY <1>1, <1>3, <3>1, OthersInOrder
  <2>4. Begun(c)'
    <3>1. \A i \in DOMAIN notices : i < Len(notices) + 1
      BY <1>5
    <3>2. CASE book[c] = Nobody
      <4>1. \A i \in DOMAIN notices : notices[i].id # c
        BY <1>1, <2>1, <3>2, ContactsAssumption
      <4>2. PICK n \in Nat : n = Len(notices) + 1
        BY <1>5
      <4>. n \in DOMAIN notices' /\ (\A i \in DOMAIN notices' : i <= n) /\ Notice(n, {"create"}, {c})'
        BY <1>3, <1>5, <3>2, <4>2 DEF Notice
      <4>3. \A i, j \in DOMAIN notices' : ~(i < j /\ Notice(i, EveryKind, {c})')
        BY <1>5, <4>1 DEF Notice
      <4>4. \A a \in Addresses : ~(c \in had'[a] /\ a \notin book'[c])
        BY <1>4, <3>2
      <4> QED
        BY <4>3, <4>4 DEF Begun
    <3>3. CASE book[c] # Nobody
      <4>1. Begun(c)
        BY <3>3 DEF ContactInv, InOrder
      <4>2. m.reason = "update"
        BY <1>3, <3>3
      <4>3. \A i \in DOMAIN notices' : Notice(i, {"create", "remove"}, {c, Nobody})' =>
               \E j \in DOMAIN notices' : i <= j /\ Notice(j, {"create"}, {c})'
        BY <1>5, <4>1, <4>2 DEF Begun, Notice
      <4>4. \A i, j \in DOMAIN notices' :
               i < j /\ Notice(i, EveryKind, {c})' /\ Notice(j, EveryKind, {c, Nobody})' => notices'[j].reason = "update"
        BY <1>5, <4>1, <4>2 DEF Begun, Notice
      <4>5. Heralded({"update"}, {c})'
        BY <1>3, <1>5, <4>2
      <4> QED
        BY <4>3, <4>4, <4>5 DEF Begun
    <3> QED
      BY <3>2, <3>3
  <2>5. book'[c] # Nobody
    BY <1>4
  <2> QED
    BY <2>2, <2>3, <2>4, <2>5 DEF InOrder
<1>10. HeardOf'
  <2>1. ASSUME NEW r \in refinds
        PROVE  /\ book'[r.id] # Nobody \/ r.id \in gone'
               /\ book'[r.id] # Nobody => \A i \in DOMAIN notices' : Notice(i, EveryKind, {r.id, Nobody})' =>
                                                                       notices'[i].reason = "update"
    <3>1. r.id \in Persons /\ (book[r.id] # Nobody \/ r.id \in gone)
      BY DEF ContactInv, HeardOf, ContactTypes, ARefind
    <3>2. CASE r.id = c
      <4>1. book[c] # Nobody /\ m.reason = "update"
        BY <1>1, <1>3, <3>1, <3>2
      <4> QED
        BY <1>4, <1>5, <3>2, <4>1 DEF ContactInv, HeardOf, Notice
    <3>3. CASE r.id # c
      <4>1. book'[r.id] = book[r.id] /\ m.id \notin {r.id, Nobody}
        BY <1>3, <1>4, <3>1, <3>3, ContactsAssumption
      <4> QED
        BY <1>2, <1>5, <3>1, <4>1 DEF ContactInv, HeardOf, Notice
    <3> QED
      BY <3>2, <3>3
  <2> QED
    BY <1>2, <2>1 DEF HeardOf
<1>11. \A a \in Addresses :
          /\ Alone(a)' => Alone(a)
          /\ Asked(a) <=> Asked(a)'
          /\ \A d \in Persons : d # c =>
                /\ Owns(d, a)' <=> Owns(d, a)
                /\ LossIsToCome(d) => LossIsToCome(d)'
                /\ GainIsToCome(d) => GainIsToCome(d)'
          /\ c \in had[a] => LossIsToCome(c)'
          /\ GainIsToCome(c)'
  <2>1. \A a \in Addresses : (Alone(a)' => Alone(a)) /\ (Asked(a) <=> Asked(a)')
    BY <1>2, <1>4 DEF Alone, Asked
  <2>2. ASSUME NEW d \in Persons, d # c
        PROVE  /\ \A a \in Addresses : Owns(d, a)' <=> Owns(d, a)
               /\ LossIsToCome(d) => LossIsToCome(d)'
               /\ GainIsToCome(d) => GainIsToCome(d)'
    BY <1>4, <1>5, <2>2 DEF Owns, LossIsToCome, GainIsToCome
  <2>3. \A a \in Addresses : c \in had[a] => LossIsToCome(c)'
    BY <1>3, <1>4, <1>5 DEF LossIsToCome
  <2>4. GainIsToCome(c)'
    BY <1>3, <1>5 DEF GainIsToCome
  <2> QED
    BY <2>1, <2>2, <2>3, <2>4
<1>12. CacheFollows'
  BY <1>2, <1>11 DEF ContactInv, CacheFollows, HadOnce
<1>13. PeepsFollow'
  <2>1. ASSUME NEW i \in Slots, peep[i] # Nobody
        PROVE  PeepFollows(peep[i])'
    <3>1. PICK p \in APeep : p = peep[i]
      BY <2>1 DEF ContactInv, ContactTypes
    <3>2. /\ p.address \in Addresses /\ PeepFollows(p)
          /\ p.contactId # Nobody => p.contactId \in had[p.address]
      BY <2>1, <3>1 DEF ContactInv, PeepsFollow, APeep, HadOnce
    <3>3. ASSUME NEW d \in Persons, d # c
          PROVE  /\ LossIsSeen(d, p.address) => LossIsSeen(d, p.address)'
                 /\ GainIsSeen(d, p.address) => GainIsSeen(d, p.address)'
      BY <1>2, <1>4, <1>11, <3>2, <3>3 DEF LossIsSeen, GainIsSeen
    <3>4. GainIsSeen(c, p.address)' /\ (c \in had[p.address] => LossIsSeen(c, p.address)')
      BY <1>11, <3>2 DEF LossIsSeen, GainIsSeen
    <3>5. PeepFollows(p)'
      BY <1>2, <1>11, <3>2, <3>3, <3>4, ContactsAssumption DEF PeepFollows
    <3> QED
      BY <1>2, <3>1, <3>5
  <2> QED
    BY <1>2, <2>1 DEF PeepsFollow
<1> QED
  BY <1>6, <1>7, <1>8, <1>9, <1>10, <1>12, <1>13 DEF ContactInv

\* One contact is removed, or all are.
LEMMA RemovedHolds ==
    ASSUME ContactInv, NEW out \in SUBSET Persons, NEW id \in Persons \cup {Nobody},
           (id = Nobody /\ out = Persons) \/ (id # Nobody /\ out = {id} /\ book[id] # Nobody),
           book' = [c \in Persons |-> IF c \in out THEN Nobody ELSE book[c]],
           gone' = gone \cup {c \in out : book[c] # Nobody},
           notices' = Append(notices, [reason |-> "remove", id |-> id]),
           deeds' \in 0..MaxDeeds,
           UNCHANGED <<_contactCache, _cacheHitEntries, _cacheEmptyEntries, peep, _livePeepsByEmail,
                       _livePeepsById, lookups, refinds, pendingLookupCount, callbacks, orphans, misled, had>>
    PROVE  ContactInv'
<1> DEFINE m == [reason |-> "remove", id |-> id]
<1>1. m \in ANotice /\ m.id = id /\ m.reason = "remove" /\ notices' = Append(notices, m)
  BY DEF ANotice
<1> HIDE DEF m
<1>2. /\ \A c \in Persons : book'[c] = IF c \in out THEN Nobody ELSE book[c]
      /\ \A c \in Persons : c \notin out => m.id \notin {c, Nobody}
      /\ \A c \in out : m.id \in {c, Nobody}
  BY <1>1
<1>3. /\ notices' \in Seq(ANotice) /\ Len(notices) \in Nat
      /\ DOMAIN notices = 1..Len(notices) /\ DOMAIN notices' = 1..(Len(notices) + 1)
      /\ \A i \in DOMAIN notices : notices'[i] = notices[i]
      /\ notices'[Len(notices) + 1] = m
      /\ \A kinds, ids : Heralded(kinds, ids) => Heralded(kinds, ids)'
      /\ \A kinds, ids : m.reason \in kinds /\ m.id \in ids => Heralded(kinds, ids)'
  BY <1>1, NoticeAdded DEF ContactInv
<1>4. ContactTypes'
  <2>1. book' \in [Persons -> (SUBSET Addresses) \cup {Nobody}] /\ gone' \subseteq {d \in Persons : book'[d] = Nobody}
    BY <1>2 DEF ContactInv, ContactTypes
  <2> QED
    BY <1>3, <2>1 DEF ContactInv, ContactTypes
<1>5. Registered' /\ Counted' /\ CacheCounted'
  BY DEF ContactInv, Registered, Counted, CacheCounted
<1>6. HadOnce'
  <2>1. \A a \in Addresses, d \in Persons :
           /\ book'[d] # Nobody /\ a \in book'[d] => d \in had'[a]
           /\ d \in had'[a] => book'[d] # Nobody \/ d \in gone'
    BY <1>2 DEF ContactInv, HadOnce
  <2> QED
    BY <2>1 DEF ContactInv, HadOnce
<1>7. InOrder'
  <2>1. \A i \in DOMAIN notices' :
           /\ notices'[i].reason # "remove" =>
                 notices'[i].id \in Persons /\ (book'[notices'[i].id] # Nobody \/ notices'[i].id \in gone')
           /\ notices'[i].reason = "remove" /\ notices'[i].id # Nobody => notices'[i].id \in gone'
    <3>1. ASSUME NEW i \in DOMAIN notices
          PROVE  /\ notices'[i].reason # "remove" =>
                       notices'[i].id \in Persons /\ (book'[notices'[i].id] # Nobody \/ notices'[i].id \in gone')
                 /\ notices'[i].reason = "remove" /\ notices'[i].id # Nobody => notices'[i].id \in gone'
      BY <1>2, <1>3 DEF ContactInv, InOrder
    <3>2. id # Nobody => id \in gone'
      BY DEF ContactInv, InOrder
    <3> QED
      BY <1>1, <1>3, <3>1, <3>2
  <2>2. ASSUME NEW c \in Persons, c \in out
        PROVE  book'[c] = Nobody /\ Ended(c)'
    <3>1. PICK n \in Nat : n = Len(notices) + 1
      BY <1>3
    <3>2. n \in DOMAIN notices' /\ (\A i \in DOMAIN notices' : i <= n) /\ Notice(n, {"remove"}, {c, Nobody})'
      BY <1>1, <1>2, <1>3, <2>2, <3>1 DEF Notice
    <3> QED
      BY <1>2, <2>2, <3>2 DEF Ended
  <2>3. ASSUME NEW c \in Persons, c \notin out
        PROVE  IF book'[c] = Nobody THEN Ended(c)' ELSE Begun(c)'
    BY <1>1, <1>2, <2>3, OthersInOrder
  <2> QED
    BY <2>1, <2>2, <2>3 DEF InOrder
<1>8. HeardOf'
  <2>1. ASSUME NEW r \in refinds
        PROVE  /\ book'[r.id] # Nobody \/ r.id \in gone'
               /\ book'[r.id] # Nobody => \A i \in DOMAIN notices' : Notice(i, EveryKind, {r.id, Nobody})' =>
                                                                       notices'[i].reason = "update"
    <3>1. r.id \in Persons /\ (book[r.id] # Nobody \/ r.id \in gone)
      BY DEF ContactInv, HeardOf, ContactTypes, ARefind
    <3>2. book'[r.id] # Nobody => r.id \notin out /\ book[r.id] # Nobody
      BY <1>2, <3>1
    <3> QED
      BY <1>1, <1>2, <1>3, <3>1, <3>2 DEF ContactInv, HeardOf, Notice
  <2> QED
    BY <2>1 DEF HeardOf
<1>9. \A c \in Persons :
         /\ c \notin out => book'[c] = book[c]
         /\ c \in out => LossIsToCome(c)' /\ book'[c] = Nobody
         /\ c \notin out => (LossIsToCome(c) => LossIsToCome(c)')
         /\ GainIsToCome(c) => GainIsToCome(c)'
         /\ \A a \in Addresses : Owns(c, a)' <=> c \notin out /\ Owns(c, a)
  BY <1>1, <1>2, <1>3 DEF LossIsToCome, GainIsToCome, Owns
<1>10. \A a \in Addresses : (Alone(a) <=> Alone(a)') /\ (Asked(a) <=> Asked(a)')
  BY DEF Alone, Asked
<1>11. CacheFollows'
  BY <1>9, <1>10 DEF ContactInv, CacheFollows
<1>12. PeepsFollow'
  <2>1. ASSUME NEW i \in Slots, peep[i] # Nobody
        PROVE  PeepFollows(peep[i])'
    <3>1. PICK p \in APeep : p = peep[i]
      BY <2>1 DEF ContactInv, ContactTypes
    <3>2. p.address \in Addresses /\ PeepFollows(p)
      BY <2>1, <3>1 DEF ContactInv, PeepsFollow, APeep
    <3>3. ASSUME NEW d \in Persons
          PROVE  /\ d \notin out /\ LossIsSeen(d, p.address) => LossIsSeen(d, p.address)'
                 /\ d \in out => LossIsSeen(d, p.address)'
                 /\ GainIsSeen(d, p.address) => GainIsSeen(d, p.address)'
      BY <1>9, <1>10, <3>2 DEF LossIsSeen, GainIsSeen
    <3>5. PeepFollows(p)'
      BY <1>9, <1>10, <3>2, <3>3 DEF PeepFollows
    <3> QED
      BY <3>1, <3>5
  <2> QED
    BY <2>1 DEF PeepsFollow
<1> QED
  BY <1>4, <1>5, <1>6, <1>7, <1>8, <1>11, <1>12 DEF ContactInv

LEMMA BookHolds ==
    ASSUME ContactInv,
           \/ \E c \in Persons : (\E emails \in SUBSET Addresses : Contact!Saves(c, emails)) \/ Contact!Removes(c)
           \/ Contact!RemovesAll
    PROVE  ContactInv'
<1>1. CASE \E c \in Persons, emails \in SUBSET Addresses : Contact!Saves(c, emails)
  BY <1>1, SavesHolds
<1>2. ASSUME NEW c \in Persons, Contact!Removes(c)
      PROVE  ContactInv'
  <2>1. deeds' \in 0..MaxDeeds /\ book \in [Persons -> (SUBSET Addresses) \cup {Nobody}]
    BY <1>2, ContactsAssumption DEF Contact!Removes, Contact!Deed, ContactInv, ContactTypes
  <2>2. book' = [d \in Persons |-> IF d \in {c} THEN Nobody ELSE book[d]]
    BY <1>2, <2>1 DEF Contact!Removes
  <2>3. gone' = gone \cup {d \in {c} : book[d] # Nobody}
    BY <1>2 DEF Contact!Removes
  <2>4. c # Nobody /\ book[c] # Nobody
    BY <1>2, ContactsAssumption DEF Contact!Removes
  <2>5. notices' = Append(notices, [reason |-> "remove", id |-> c])
    BY <1>2 DEF Contact!Removes
  <2>6. UNCHANGED <<_contactCache, _cacheHitEntries, _cacheEmptyEntries, peep, _livePeepsByEmail,
                    _livePeepsById, lookups, refinds, pendingLookupCount, callbacks, orphans, misled, had>>
    BY <1>2 DEF Contact!Removes, Contact!cacheVars, Contact!peepVars, Contact!requestVars
  <2> QED
    BY <2>1, <2>2, <2>3, <2>4, <2>5, <2>6, RemovedHolds
<1>3. CASE Contact!RemovesAll
  <2>1. deeds' \in 0..MaxDeeds
    BY <1>3, ContactsAssumption DEF Contact!RemovesAll, Contact!Deed, ContactInv, ContactTypes
  <2>2. book' = [d \in Persons |-> IF d \in Persons THEN Nobody ELSE book[d]]
    BY <1>3 DEF Contact!RemovesAll
  <2>3. gone' = gone \cup {d \in Persons : book[d] # Nobody}
    BY <1>3 DEF Contact!RemovesAll
  <2>5. notices' = Append(notices, [reason |-> "remove", id |-> Nobody])
    BY <1>3 DEF Contact!RemovesAll
  <2>6. UNCHANGED <<_contactCache, _cacheHitEntries, _cacheEmptyEntries, peep, _livePeepsByEmail,
                    _livePeepsById, lookups, refinds, pendingLookupCount, callbacks, orphans, misled, had>>
    BY <1>3 DEF Contact!RemovesAll, Contact!cacheVars, Contact!peepVars, Contact!requestVars
  <2> QED
    BY <2>1, <2>2, <2>3, <2>5, <2>6, RemovedHolds
<1> QED
  BY <1>1, <1>2, <1>3

\* A lookup is answered: with a contact that has the address, or with nobody.
LEMMA LookedUp ==
    ASSUME ContactInv, NEW l \in lookups, NEW to \in Persons \cup {Nobody},
           to \in Persons => to \in Contact!Having(l.address), l.found = Unknown,
           lookups' = (lookups \ {l}) \cup {[l EXCEPT !.found = to]}, deeds' \in 0..MaxDeeds,
           UNCHANGED <<book, gone, notices, _contactCache, _cacheHitEntries, _cacheEmptyEntries, peep,
                       _livePeepsByEmail, _livePeepsById, refinds, pendingLookupCount, callbacks, orphans,
                       misled, had>>
    PROVE  ContactInv'
<1>1. /\ to \in Persons => to \in Contact!Having(l.address)
      /\ lookups' = (lookups \ {l}) \cup {[l EXCEPT !.found = to]}
  OBVIOUS
<1>2. /\ l.found = Unknown /\ deeds' \in 0..MaxDeeds
      /\ UNCHANGED <<book, gone, notices, _contactCache, _cacheHitEntries, _cacheEmptyEntries, peep,
                     _livePeepsByEmail, _livePeepsById, refinds, pendingLookupCount, callbacks, orphans,
                     misled, had>>
  OBVIOUS
<1>3. PICK k \in ALookup : /\ k = [l EXCEPT !.found = to] /\ k.n = l.n /\ k.address = l.address /\ k.found = to
  <2>1. l \in ALookup
    BY DEF ContactInv, ContactTypes
  <2>2. [l EXCEPT !.found = to] \in ALookup
    BY <1>1, <2>1 DEF ALookup
  <2>3. /\ [l EXCEPT !.found = to].n = l.n /\ [l EXCEPT !.found = to].address = l.address
        /\ [l EXCEPT !.found = to].found = to
    BY <2>1 DEF ALookup
  <2> QED
    BY <2>2, <2>3
<1>4. lookups' = (lookups \ {l}) \cup {k} /\ k # l /\ k \notin lookups
  <2>1. k # l
    BY <1>1, <1>2, <1>3, ContactsAssumption
  <2> QED
    BY <1>1, <1>3, <2>1 DEF ContactInv, Counted
<1>5. IsFiniteSet(lookups') /\ Cardinality(lookups') = Cardinality(lookups)
  <2>1. IsFiniteSet(lookups)
    BY DEF ContactInv, ContactTypes
  <2>2. /\ IsFiniteSet(lookups \ {l}) /\ Cardinality(lookups \ {l}) = Cardinality(lookups) - 1
        /\ Cardinality(lookups) \in Nat
    BY <2>1, FS_RemoveElement, FS_CardinalityType
  <2>3. /\ IsFiniteSet((lookups \ {l}) \cup {k})
        /\ Cardinality((lookups \ {l}) \cup {k}) = Cardinality(lookups \ {l}) + 1
    BY <1>4, <2>2, FS_AddElement
  <2>4. IsFiniteSet(lookups') /\ Cardinality(lookups') = Cardinality(lookups \ {l}) + 1
    BY Zenon, <1>4, <2>3
  <2> QED
    BY <2>2, <2>4
<1>6. ContactTypes'
  <2>1. lookups' \subseteq ALookup
    BY <1>4 DEF ContactInv, ContactTypes
  <2> QED
    BY <1>2, <1>5, <2>1 DEF ContactInv, ContactTypes
<1>7. Registered' /\ InOrder' /\ HeardOf'
  BY <1>2 DEF ContactInv, Registered, InOrder, Ended, Begun, Notice, Heralded, HeardOf
<1>8. Counted'
  <2>0. \A j, i \in lookups : j.n = i.n => j = i
    BY DEF ContactInv, Counted
  <2>1. \A j, i \in lookups' : j.n = i.n => j = i
    <3>1. \A j \in lookups \ {l} : j.n # k.n
      BY <1>3, <2>0
    <3> QED
      BY <1>4, <2>0, <3>1
  <2> QED
    BY <1>2, <1>5, <2>1 DEF ContactInv, Counted
<1>9. HadOnce'
  <2>1. \A i \in lookups' : i.found \in Persons => i.found \in had'[i.address]
    <3>1. l.address \in Addresses
      BY DEF ContactInv, ContactTypes, ALookup
    <3>2. to \in Persons => to \in had[l.address]
      BY <1>1, <3>1 DEF ContactInv, HadOnce, Contact!Having
    <3> QED
      BY <1>2, <1>3, <1>4, <3>2 DEF ContactInv, HadOnce
  <2> QED
    BY <1>2, <2>1 DEF ContactInv, HadOnce
<1>10. \A a : Asked(a) <=> Asked(a)'
  BY <1>3, <1>4 DEF Asked
<1>11. CacheCounted' /\ CacheFollows'
  <2>1. CacheCounted'
    BY <1>2, <1>10 DEF ContactInv, CacheCounted, Asked
  <2>2. CacheFollows'
    BY <1>2, <1>10 DEF ContactInv, CacheFollows, Owns, Alone, LossIsToCome, GainIsToCome, Heralded, Notice
  <2> QED
    BY <2>1, <2>2
<1>12. PeepsFollow'
  <2>1. \A p : PeepFollows(p) => PeepFollows(p)'
    <3>1. \A c, a : /\ LossIsSeen(c, a) => LossIsSeen(c, a)'
                    /\ GainIsSeen(c, a) => GainIsSeen(c, a)'
                    /\ Owns(c, a) <=> Owns(c, a)'
                    /\ Alone(a) <=> Alone(a)'
      BY <1>2, <1>10 DEF LossIsSeen, GainIsSeen, Owns, Alone, LossIsToCome, GainIsToCome, Heralded, Notice
    <3> QED
      BY <1>2, <3>1 DEF PeepFollows
  <2> QED
    BY <1>2, <2>1 DEF ContactInv, PeepsFollow
<1> QED
  BY <1>6, <1>7, <1>8, <1>9, <1>11, <1>12 DEF ContactInv

LEMMA FindsHolds ==
    ASSUME ContactInv, NEW l \in lookups, Contact!Finds(l)
    PROVE  ContactInv'
<1>1. PICK to \in Persons \cup {Nobody} :
         /\ to \in Persons => to \in Contact!Having(l.address)
         /\ lookups' = (lookups \ {l}) \cup {[l EXCEPT !.found = to]}
  <2>1. Contact!Having(l.address) \subseteq Persons
    BY DEF Contact!Having
  <2>2. PICK to \in IF Contact!Having(l.address) = {} THEN {Nobody} ELSE Contact!Having(l.address) :
           lookups' = (lookups \ {l}) \cup {[l EXCEPT !.found = to]}
    BY DEF Contact!Finds
  <2>3. to \in Persons \cup {Nobody} /\ (to \in Persons => to \in Contact!Having(l.address))
    BY <2>1, <2>2, ContactsAssumption
  <2> QED
    BY <2>2, <2>3
<1>2. /\ l.found = Unknown /\ deeds' \in 0..MaxDeeds
      /\ UNCHANGED <<book, gone, notices, _contactCache, _cacheHitEntries, _cacheEmptyEntries, peep,
                     _livePeepsByEmail, _livePeepsById, refinds, pendingLookupCount, callbacks, orphans,
                     misled, had>>
  BY DEF Contact!Finds, Contact!cacheVars, Contact!peepVars, ContactInv, ContactTypes
<1> QED
  BY <1>1, <1>2, LookedUp

LEMMA FindFailsHolds ==
    ASSUME ContactInv, NEW l \in lookups, Contact!FindFails(l)
    PROVE  ContactInv'
<1>1. /\ l.found = Unknown /\ Nobody \notin Persons
      /\ lookups' = (lookups \ {l}) \cup {[l EXCEPT !.found = Nobody]}
      /\ UNCHANGED <<book, gone, notices, _contactCache, _cacheHitEntries, _cacheEmptyEntries, peep,
                     _livePeepsByEmail, _livePeepsById, refinds, pendingLookupCount, callbacks, orphans,
                     misled, had>>
  BY ContactsAssumption DEF Contact!FindFails, Contact!cacheVars, Contact!peepVars
<1>2. deeds' \in 0..MaxDeeds
  BY ContactsAssumption DEF Contact!FindFails, Contact!Deed, ContactInv, ContactTypes
<1> QED
  BY <1>1, <1>2, LookedUp

LEMMA FindsByIdHolds ==
    ASSUME ContactInv, NEW r \in refinds, Contact!FindsById(r)
    PROVE  ContactInv'
<1>1. /\ r.found = Unknown /\ refinds' = (refinds \ {r}) \cup {[r EXCEPT !.found = book[r.id]]}
      /\ UNCHANGED <<book, gone, notices, _contactCache, _cacheHitEntries, _cacheEmptyEntries, peep,
                     _livePeepsByEmail, _livePeepsById, lookups, pendingLookupCount, callbacks, orphans,
                     misled, had, deeds>>
  BY DEF Contact!FindsById, Contact!cacheVars, Contact!peepVars
<1>2. r.id \in Persons /\ book[r.id] \in (SUBSET Addresses) \cup {Nobody}
  BY DEF ContactInv, ContactTypes, ARefind
<1>3. PICK q \in ARefind : /\ q = [r EXCEPT !.found = book[r.id]] /\ q.id = r.id /\ q.reason = r.reason
                           /\ q.found = book[r.id]
  <2>1. r \in ARefind
    BY DEF ContactInv, ContactTypes
  <2>2. [r EXCEPT !.found = book[r.id]] \in ARefind
    BY <1>2, <2>1 DEF ARefind
  <2>3. /\ [r EXCEPT !.found = book[r.id]].id = r.id /\ [r EXCEPT !.found = book[r.id]].reason = r.reason
        /\ [r EXCEPT !.found = book[r.id]].found = book[r.id]
    BY <2>1 DEF ARefind
  <2> QED
    BY <2>2, <2>3
<1>4. refinds' = (refinds \ {r}) \cup {q} /\ q.found # Unknown
  BY <1>1, <1>2, <1>3, ContactsAssumption
<1>5. ContactTypes'
  <2>1. IsFiniteSet(refinds \ {r}) /\ IsFiniteSet({q})
    BY FS_RemoveElement, FS_Singleton DEF ContactInv, ContactTypes
  <2>2. IsFiniteSet(refinds') /\ refinds' \subseteq ARefind
    <3>1. IsFiniteSet((refinds \ {r}) \cup {q})
      BY <2>1, FS_Union
    <3> QED
      BY <1>4, <3>1 DEF ContactInv, ContactTypes
  <2> QED
    BY <1>1, <2>2 DEF ContactInv, ContactTypes
<1>6. Registered' /\ Counted' /\ InOrder' /\ CacheCounted'
  BY <1>1 DEF ContactInv, Registered, Counted, InOrder, Ended, Begun, Notice, Heralded, CacheCounted
<1>7. HadOnce'
  <2>1. \A i \in refinds' : i.found \notin {Nobody, Unknown} => \A a \in i.found : i.id \in had'[a]
    <3>1. q.found \notin {Nobody, Unknown} => \A a \in q.found : q.id \in had[a]
      BY <1>2, <1>3 DEF ContactInv, HadOnce
    <3> QED
      BY <1>1, <1>4, <3>1 DEF ContactInv, HadOnce
  <2> QED
    BY <1>1, <2>1 DEF ContactInv, HadOnce
<1>8. HeardOf'
  BY ZenonT(60), <1>1, <1>3, <1>4 DEF ContactInv, HeardOf, Notice
<1>9. CacheFollows'
  BY <1>1 DEF ContactInv, CacheFollows, Owns, Alone, LossIsToCome, GainIsToCome, Asked, Heralded, Notice
<1>10. PeepsFollow'
  <2>1. \A c, a : /\ ~Owns(c, a) /\ LossIsSeen(c, a) => LossIsSeen(c, a)'
                  /\ Owns(c, a) /\ GainIsSeen(c, a) => GainIsSeen(c, a)'
                  /\ Owns(c, a) <=> Owns(c, a)'
                  /\ Alone(a) <=> Alone(a)'
    <3>1. \A c : (LossIsToCome(c) <=> LossIsToCome(c)') /\ (GainIsToCome(c) <=> GainIsToCome(c)')
      BY <1>1 DEF LossIsToCome, GainIsToCome, Heralded, Notice
    <3>2. \A c, a : ~Owns(c, a) /\ LossIsSeen(c, a) => LossIsSeen(c, a)'
      BY <1>1, <1>3, <1>4, <3>1 DEF LossIsSeen, Owns
    <3>3. \A c, a : Owns(c, a) /\ GainIsSeen(c, a) => GainIsSeen(c, a)'
      BY <1>1, <1>3, <1>4, <3>1 DEF GainIsSeen, Owns, Asked
    <3> QED
      BY <1>1, <3>2, <3>3 DEF Owns, Alone
  <2>2. \A p : PeepFollows(p) => PeepFollows(p)'
    BY <1>1, <2>1 DEF PeepFollows
  <2> QED
    BY <1>1, <2>2 DEF ContactInv, PeepsFollow
<1> QED
  BY <1>5, <1>6, <1>7, <1>8, <1>9, <1>10 DEF ContactInv

\* A request after a change fails: what it would have mended is given up, unless another change is to be heard.
LEMMA FindByIdFailsHolds ==
    ASSUME ContactInv, NEW r \in refinds, Contact!FindByIdFails(r)
    PROVE  ContactInv'
<1> DEFINE untrue == {peep[i].address : i \in {t \in Slots : Contact!Untrue(t, r.id)}}
<1>1. /\ refinds' = refinds \ {r}
      /\ misled' = misled \cup IF Contact!Noticed(r.id) THEN {} ELSE untrue
      /\ UNCHANGED <<book, gone, notices, _contactCache, _cacheHitEntries, _cacheEmptyEntries, peep,
                     _livePeepsByEmail, _livePeepsById, lookups, pendingLookupCount, callbacks, orphans, had>>
  BY DEF Contact!FindByIdFails, Contact!cacheVars, Contact!peepVars
<1>2. r.id \in Persons /\ Nobody \notin Persons
  BY ContactsAssumption DEF ContactInv, ContactTypes, ARefind
<1>3. misled \subseteq misled' /\ misled' \subseteq Addresses
  <2>1. untrue \subseteq Addresses
    <3>1. \A i \in Slots : peep[i] # Nobody => peep[i].address \in Addresses
      BY DEF ContactInv, ContactTypes, APeep
    <3> QED
      BY <3>1 DEF Contact!Untrue
  <2> QED
    BY <1>1, <2>1 DEF ContactInv, ContactTypes
<1>4. ContactTypes'
  <2>1. IsFiniteSet(refinds') /\ refinds' \subseteq ARefind
    BY <1>1, FS_RemoveElement DEF ContactInv, ContactTypes
  <2>2. deeds' \in 0..MaxDeeds
    BY ContactsAssumption DEF Contact!FindByIdFails, Contact!Deed, ContactInv, ContactTypes
  <2> QED
    BY <1>1, <1>3, <2>1, <2>2 DEF ContactInv, ContactTypes
<1>5. Registered' /\ Counted' /\ InOrder' /\ CacheCounted'
  BY <1>1 DEF ContactInv, Registered, Counted, InOrder, Ended, Begun, Notice, Heralded, CacheCounted
<1>6. HadOnce' /\ HeardOf'
  BY <1>1 DEF ContactInv, HadOnce, HeardOf, Notice
<1>7. CacheFollows'
  BY <1>1, <1>3 DEF ContactInv, CacheFollows, Owns, Alone, LossIsToCome, GainIsToCome, Asked, Heralded, Notice
<1>8. ASSUME Contact!Noticed(r.id)
      PROVE  LossIsToCome(r.id) /\ (book[r.id] # Nobody => GainIsToCome(r.id))
  <2>1. PICK i \in DOMAIN notices : notices[i].id \in {r.id, Nobody}
    BY <1>8 DEF Contact!Noticed
  <2>2. notices[i].reason \in EveryKind
    <3>1. notices[i] \in ANotice
      BY <2>1 DEF ContactInv, ContactTypes
    <3> QED
      BY <3>1 DEF ANotice, EveryKind
  <2>3. CASE book[r.id] = Nobody
    <3>1. Ended(r.id)
      BY <1>2, <2>3 DEF ContactInv, InOrder
    <3>2. Heralded({"remove"}, {r.id, Nobody})
      BY <2>1, <3>1 DEF Ended, Heralded
    <3> QED
      BY <2>3, <3>2 DEF LossIsToCome
  <2>4. CASE book[r.id] # Nobody
    <3>1. notices[i].reason = "update"
      BY <2>1, <2>2, <2>4 DEF ContactInv, HeardOf, Notice
    <3>2. notices[i].id = r.id
      BY <1>2, <2>1, <3>1 DEF ContactInv, InOrder
    <3>3. Heralded({"update"}, {r.id}) /\ Heralded({"create", "update"}, {r.id})
      BY <2>1, <3>1, <3>2 DEF Heralded, Notice
    <3> QED
      BY <2>4, <3>3 DEF LossIsToCome, GainIsToCome
  <2> QED
    BY <2>3, <2>4
<1>9. \A c, a : /\ Owns(c, a) <=> Owns(c, a)'
                /\ Alone(a) <=> Alone(a)'
                /\ LossIsToCome(c) <=> LossIsToCome(c)'
                /\ GainIsToCome(c) <=> GainIsToCome(c)'
                /\ Asked(a) <=> Asked(a)'
  BY <1>1 DEF Owns, Alone, LossIsToCome, GainIsToCome, Heralded, Notice, Asked
<1>10. \A c, a : c # r.id => /\ LossIsSeen(c, a) => LossIsSeen(c, a)'
                             /\ GainIsSeen(c, a) => GainIsSeen(c, a)'
  BY <1>1, <1>9 DEF LossIsSeen, GainIsSeen
<1>11. ASSUME NEW i \in Slots, peep[i] # Nobody
       PROVE  PeepFollows(peep[i])'
  <2>1. PICK p \in APeep : p = peep[i]
    BY <1>11 DEF ContactInv, ContactTypes
  <2>2. PeepFollows(p)
    BY <1>11, <2>1 DEF ContactInv, PeepsFollow
  <2>3. ASSUME p.address \notin misled', NEW c \in Persons
        PROVE  /\ p.contactId = c /\ ~Owns(c, p.address)' => LossIsSeen(c, p.address)'
               /\ p.contactId = Nobody /\ Owns(c, p.address)' /\ Alone(p.address)' => GainIsSeen(c, p.address)'
    <3>1. p.address \notin misled
      BY <1>3, <2>3
    <3>2. /\ p.contactId = c /\ ~Owns(c, p.address) => LossIsSeen(c, p.address)
          /\ p.contactId = Nobody /\ Owns(c, p.address) /\ Alone(p.address) => GainIsSeen(c, p.address)
      BY <2>2, <3>1 DEF PeepFollows
    <3>3. CASE c # r.id
      BY <1>9, <1>10, <3>2, <3>3
    <3>4. CASE c = r.id /\ Contact!Noticed(r.id)
      BY <1>8, <1>9, <3>4 DEF LossIsSeen, GainIsSeen, Owns
    <3>5. CASE c = r.id /\ ~Contact!Noticed(r.id)
      <4>1. ~Contact!Untrue(i, r.id)
        BY <1>1, <2>1, <2>3, <3>5
      <4>2. (p.contactId = c) <=> Owns(c, p.address)
        BY <1>11, <2>1, <3>5, <4>1 DEF Contact!Untrue, Owns
      <4> QED
        BY <1>2, <1>9, <3>5, <4>2
    <3> QED
      BY <3>3, <3>4, <3>5
  <2>4. PeepFollows(p)'
    BY <1>9, <2>2, <2>3 DEF PeepFollows
  <2> QED
    BY <1>1, <2>1, <2>4
<1> QED
  BY <1>1, <1>4, <1>5, <1>6, <1>7, <1>11 DEF ContactInv, PeepsFollow

\* The first notice is heard.
LEMMA NoticeTaken ==
    ASSUME ContactTypes, notices # << >>, notices' = Tail(notices)
    PROVE  /\ notices' \in Seq(ANotice) /\ Len(notices) \in Nat \ {0} /\ Head(notices) \in ANotice
           /\ DOMAIN notices = 1..Len(notices) /\ DOMAIN notices' = 1..(Len(notices) - 1)
           /\ \A i \in DOMAIN notices' : notices'[i] = notices[i + 1]
           /\ \A i \in DOMAIN notices : i # 1 => i - 1 \in DOMAIN notices' /\ notices'[i - 1] = notices[i]
           /\ Head(notices) = notices[1]
           /\ \A kinds, ids : Heralded(kinds, ids)' => Heralded(kinds, ids)
           /\ \A kinds, ids : Heralded(kinds, ids) =>
                 Heralded(kinds, ids)' \/ (Head(notices).reason \in kinds /\ Head(notices).id \in ids)
<1>1. /\ notices' \in Seq(ANotice) /\ Len(notices) \in Nat \ {0} /\ Head(notices) \in ANotice
      /\ DOMAIN notices = 1..Len(notices) /\ DOMAIN notices' = 1..(Len(notices) - 1)
      /\ \A i \in DOMAIN notices' : notices'[i] = notices[i + 1]
      /\ Head(notices) = notices[1]
  BY Shifting DEF ContactTypes
<1>2. \A i \in DOMAIN notices : i # 1 => i - 1 \in DOMAIN notices' /\ notices'[i - 1] = notices[i]
  BY <1>1
<1>3. \A kinds, ids : Heralded(kinds, ids)' => Heralded(kinds, ids)
  <2>1. \A i \in DOMAIN notices' : i + 1 \in DOMAIN notices
    BY <1>1
  <2> QED
    BY <1>1, <2>1 DEF Heralded, Notice
<1>4. ASSUME NEW kinds, NEW ids, Heralded(kinds, ids), ~(Head(notices).reason \in kinds /\ Head(notices).id \in ids)
      PROVE  Heralded(kinds, ids)'
  <2>1. PICK i \in DOMAIN notices : notices[i].reason \in kinds /\ notices[i].id \in ids
    BY <1>4 DEF Heralded, Notice
  <2>2. i # 1
    BY <1>1, <1>4, <2>1
  <2> QED
    BY <1>2, <2>1, <2>2 DEF Heralded, Notice
<1> QED
  BY <1>1, <1>2, <1>3, <1>4

LEMMA OrderShifts ==
    ASSUME ContactInv, notices # << >>, notices' = Tail(notices), UNCHANGED <<book, gone, had>>
    PROVE  InOrder'
<1>1. /\ Len(notices) \in Nat \ {0}
      /\ DOMAIN notices = 1..Len(notices) /\ DOMAIN notices' = 1..(Len(notices) - 1)
      /\ \A i \in DOMAIN notices' : notices'[i] = notices[i + 1]
      /\ \A i \in DOMAIN notices : i # 1 => i - 1 \in DOMAIN notices' /\ notices'[i - 1] = notices[i]
      /\ Head(notices) = notices[1]
      /\ \A kinds, ids : Heralded(kinds, ids)' => Heralded(kinds, ids)
      /\ \A kinds, ids : Heralded(kinds, ids) =>
            Heralded(kinds, ids)' \/ (Head(notices).reason \in kinds /\ Head(notices).id \in ids)
  BY NoticeTaken DEF ContactInv
<1>2. \A i \in DOMAIN notices' : i \in Nat /\ i + 1 \in DOMAIN notices /\ i + 1 # 1
  BY <1>1
<1>3. \A i \in DOMAIN notices' :
         /\ notices'[i].reason # "remove" =>
               notices'[i].id \in Persons /\ (book'[notices'[i].id] # Nobody \/ notices'[i].id \in gone')
         /\ notices'[i].reason = "remove" /\ notices'[i].id # Nobody => notices'[i].id \in gone'
  BY <1>1, <1>2 DEF ContactInv, InOrder
<1>4. ASSUME NEW c \in Persons, book[c] = Nobody
      PROVE  Ended(c)'
  <2>1. Ended(c)
    BY <1>4 DEF ContactInv, InOrder
  <2>2. ASSUME NEW i \in DOMAIN notices', notices'[i].id \in {c, Nobody}
        PROVE  \E j \in DOMAIN notices' : i <= j /\ Notice(j, {"remove"}, {c, Nobody})'
    <3>1. PICK j \in DOMAIN notices : i + 1 <= j /\ Notice(j, {"remove"}, {c, Nobody})
      BY <1>1, <1>2, <2>1, <2>2 DEF Ended
    <3>2. PICK k \in DOMAIN notices' : k = j - 1
      BY <1>1, <1>2, <3>1
    <3>3. i <= k /\ notices'[k] = notices[j]
      BY <1>1, <1>2, <3>1, <3>2
    <3> QED
      BY <3>1, <3>3 DEF Notice
  <2> QED
    BY <2>2 DEF Ended
<1>5. ASSUME NEW c \in Persons, book[c] # Nobody
      PROVE  Begun(c)'
  <2>1. Begun(c)
    BY <1>5 DEF ContactInv, InOrder
  <2>2. ASSUME NEW i \in DOMAIN notices', Notice(i, {"create", "remove"}, {c, Nobody})'
        PROVE  \E j \in DOMAIN notices' : i <= j /\ Notice(j, {"create"}, {c})'
    <3>1. PICK j \in DOMAIN notices : i + 1 <= j /\ Notice(j, {"create"}, {c})
      BY <1>1, <1>2, <2>1, <2>2 DEF Begun, Notice
    <3>2. PICK k \in DOMAIN notices' : k = j - 1
      BY <1>1, <1>2, <3>1
    <3>3. i <= k /\ notices'[k] = notices[j]
      BY <1>1, <1>2, <3>1, <3>2
    <3> QED
      BY <3>1, <3>3 DEF Notice
  <2>3. ASSUME NEW i \in DOMAIN notices', NEW j \in DOMAIN notices', i < j,
               Notice(i, EveryKind, {c})', Notice(j, EveryKind, {c, Nobody})'
        PROVE  notices'[j].reason = "update"
    <3>1. i + 1 < j + 1 /\ Notice(i + 1, EveryKind, {c}) /\ Notice(j + 1, EveryKind, {c, Nobody})
      BY <1>1, <1>2, <2>3 DEF Notice
    <3> QED
      BY ZenonT(60), <1>1, <1>2, <2>1, <3>1 DEF Begun
  <2>4. ASSUME NEW a \in Addresses, c \in had[a], a \notin book[c], Heralded({"create"}, {c})'
        PROVE  Heralded({"update"}, {c})'
    <3>1. Heralded({"create"}, {c}) /\ Heralded({"update"}, {c})
      BY <1>1, <2>1, <2>4 DEF Begun
    <3>2. ~(notices[1].reason = "update" /\ notices[1].id = c)
      <4>1. PICK i \in DOMAIN notices' : Notice(i, {"create"}, {c})'
        BY <2>4 DEF Heralded
      <4>2. 1 < i + 1 /\ Notice(i + 1, EveryKind, {c, Nobody}) /\ notices[i + 1].reason = "create" /\ 1 \in DOMAIN notices
        BY <1>1, <1>2, <4>1 DEF Notice, EveryKind
      <4> QED
        BY <1>2, <2>1, <4>2 DEF Begun, Notice, EveryKind
    <3> QED
      BY <1>1, <3>1, <3>2
  <2> QED
    BY <2>2, <2>3, <2>4 DEF Begun
<1> QED
  BY <1>3, <1>4, <1>5 DEF InOrder

\* What is left of a peep when one field changes.
LEMMA PeepDisowned ==
    ASSUME NEW p \in APeep
    PROVE  /\ [p EXCEPT !.owned = FALSE] \in APeep
           /\ [p EXCEPT !.owned = FALSE].address = p.address
           /\ [p EXCEPT !.owned = FALSE].contactId = p.contactId
           /\ [p EXCEPT !.owned = FALSE].name = p.name
BY DEF APeep

LEMMA PeepLinked ==
    ASSUME NEW p \in APeep, NEW c \in Persons \cup {Nobody}
    PROVE  /\ [p EXCEPT !.contactId = c] \in APeep
           /\ [p EXCEPT !.contactId = c].address = p.address
           /\ [p EXCEPT !.contactId = c].contactId = c
           /\ [p EXCEPT !.contactId = c].name = p.name
BY DEF APeep

LEMMA APeepIs == \A p \in APeep : p # Nobody
BY ContactsAssumption DEF APeep

\* _onContactChange, whatever it says: the cache is dropped, or has only what is being looked up.
LEMMA HearsCache ==
    ASSUME ContactInv, Contact!Hears
    PROVE  /\ notices # << >> /\ notices' = Tail(notices)
           /\ UNCHANGED <<book, gone, _livePeepsByEmail, lookups, pendingLookupCount, callbacks, orphans,
                          misled, had, deeds>>
           /\ _contactCache' \in [Addresses -> Persons \cup {Nobody, Unknown}]
           /\ _cacheHitEntries' \in 0..MaxHits /\ _cacheEmptyEntries' \in 0..MaxEmpty
           /\ CacheCounted' /\ CacheFollows' /\ InOrder'
<1>1. /\ notices # << >> /\ notices' = Tail(notices)
      /\ UNCHANGED <<book, gone, _livePeepsByEmail, lookups, pendingLookupCount, callbacks, orphans,
                     misled, had, deeds>>
  BY DEF Contact!Hears
<1>2. InOrder'
  BY <1>1, OrderShifts
<1>3. CASE Contact!ResetCache
  <2>1. /\ _contactCache' = [a \in Addresses |-> Unknown] /\ _cacheHitEntries' = 0 /\ _cacheEmptyEntries' = 0
    BY <1>3 DEF Contact!ResetCache
  <2>2. \A a \in Addresses : _contactCache'[a] \notin Persons /\ _contactCache'[a] # Nobody
    BY <2>1, ContactsAssumption
  <2> QED
    BY <1>1, <1>2, <2>1, <2>2, ContactsAssumption DEF CacheCounted, CacheFollows
<1>4. CASE _cacheHitEntries = 0 /\ _cacheEmptyEntries = 0 /\ UNCHANGED Contact!cacheVars
  <2>1. UNCHANGED <<_contactCache, _cacheHitEntries, _cacheEmptyEntries>>
    BY <1>4 DEF Contact!cacheVars
  <2>2. \A a \in Addresses : /\ _contactCache[a] \notin Persons
                             /\ _contactCache[a] = Nobody => Asked(a)
    BY <1>4 DEF ContactInv, CacheCounted, Asked
  <2>3. CacheCounted'
    BY <1>1, <2>1 DEF ContactInv, CacheCounted
  <2>4. CacheFollows'
    BY <1>1, <2>1, <2>2 DEF CacheFollows, Asked
  <2> QED
    BY <1>1, <1>2, <2>1, <2>3, <2>4 DEF ContactInv, ContactTypes
<1> QED
  BY <1>1, <1>3, <1>4 DEF Contact!Hears, Contact!ResetCache

\* Of a contact that is new or has changed: more is to be found out.
LEMMA HearsOfChange ==
    ASSUME ContactInv, Contact!Hears, Head(notices).reason # "remove"
    PROVE  ContactInv'
<1> DEFINE m == Head(notices)
           q == [n |-> Contact!Unused(refinds), id |-> m.id, reason |-> m.reason, found |-> Unknown]
<1>1. /\ notices # << >> /\ notices' = Tail(notices)
      /\ UNCHANGED <<book, gone, _livePeepsByEmail, lookups, pendingLookupCount, callbacks, orphans,
                     misled, had, deeds>>
      /\ _contactCache' \in [Addresses -> Persons \cup {Nobody, Unknown}]
      /\ _cacheHitEntries' \in 0..MaxHits /\ _cacheEmptyEntries' \in 0..MaxEmpty
      /\ CacheCounted' /\ CacheFollows' /\ InOrder'
  BY HearsCache
<1>2. refinds' = refinds \cup {q} /\ UNCHANGED <<peep, _livePeepsById>>
  BY DEF Contact!Hears
<1>3. /\ notices' \in Seq(ANotice) /\ Len(notices) \in Nat \ {0} /\ m \in ANotice
      /\ DOMAIN notices = 1..Len(notices) /\ DOMAIN notices' = 1..(Len(notices) - 1)
      /\ \A i \in DOMAIN notices' : notices'[i] = notices[i + 1]
      /\ m = notices[1]
      /\ \A kinds, ids : Heralded(kinds, ids) =>
            Heralded(kinds, ids)' \/ (m.reason \in kinds /\ m.id \in ids)
  BY <1>1, NoticeTaken DEF ContactInv
<1>4. m.id \in Persons /\ m.reason \in {"create", "update"} /\ (book[m.id] # Nobody \/ m.id \in gone)
  <2>1. 1 \in DOMAIN notices
    BY <1>3
  <2> QED
    BY <1>3, <2>1 DEF ContactInv, InOrder, ANotice
<1>5. Contact!Unused(refinds) \in Nat
  BY UnusedIs DEF ContactInv, ContactTypes
<1>6. q \in ARefind /\ q.id = m.id /\ q.reason = m.reason /\ q.found = Unknown
  BY <1>4, <1>5 DEF ARefind
<1> HIDE DEF q, m
<1>7. ContactTypes'
  <2>1. IsFiniteSet(refinds \cup {q})
    BY FS_AddElement DEF ContactInv, ContactTypes
  <2> QED
    BY <1>1, <1>2, <1>3, <1>6, <2>1 DEF ContactInv, ContactTypes
<1>8. Registered' /\ Counted' /\ HadOnce'
  <2>1. Registered' /\ Counted'
    BY <1>1, <1>2 DEF ContactInv, Registered, Counted
  <2>2. \A a \in Addresses : _contactCache'[a] \in Persons => _contactCache'[a] \in had'[a]
    <3>1. \A a \in Addresses : _contactCache'[a] \in {_contactCache[a], Unknown}
      BY DEF Contact!Hears, Contact!ResetCache, Contact!cacheVars
    <3> QED
      BY <1>1, <3>1, ContactsAssumption DEF ContactInv, HadOnce
  <2>3. \A r \in refinds' : r.found \notin {Nobody, Unknown} => \A a \in r.found : r.id \in had'[a]
    BY <1>1, <1>2, <1>6 DEF ContactInv, HadOnce
  <2> QED
    BY <1>1, <1>2, <2>1, <2>2, <2>3 DEF ContactInv, HadOnce
<1>9. HeardOf'
  <2>1. \A i \in DOMAIN notices' : i \in Nat /\ i + 1 \in DOMAIN notices /\ 1 < i + 1 /\ 1 \in DOMAIN notices
    BY <1>3
  <2>2. ASSUME NEW r \in refinds
        PROVE  /\ book'[r.id] # Nobody \/ r.id \in gone'
               /\ book'[r.id] # Nobody => \A i \in DOMAIN notices' : Notice(i, EveryKind, {r.id, Nobody})' =>
                                                                       notices'[i].reason = "update"
    BY <1>1, <1>3, <2>1 DEF ContactInv, HeardOf, Notice
  <2>3. PICK c \in Persons : c = m.id
    BY <1>4
  <2>4. ASSUME book[c] # Nobody, NEW i \in DOMAIN notices', Notice(i, EveryKind, {c, Nobody})'
        PROVE  notices'[i].reason = "update"
    <3>1. Begun(c)
      BY <2>4 DEF ContactInv, InOrder
    <3>2. Notice(1, EveryKind, {c}) /\ Notice(i + 1, EveryKind, {c, Nobody})
      BY <1>3, <1>4, <2>1, <2>3, <2>4 DEF Notice, EveryKind
    <3> QED
      BY <1>3, <2>1, <3>1, <3>2 DEF Begun
  <2>5. q.id = c /\ (book'[c] # Nobody \/ c \in gone')
    BY <1>1, <1>4, <1>6, <2>3
  <2> QED
    BY <1>1, <1>2, <2>2, <2>4, <2>5 DEF HeardOf, Notice
<1>10. PeepsFollow'
  <2>1. ASSUME NEW c \in Persons, NEW a
        PROVE  /\ LossIsSeen(c, a) => LossIsSeen(c, a)'
               /\ GainIsSeen(c, a) => GainIsSeen(c, a)'
    <3>1. Unknown # Nobody
      BY ContactsAssumption
    <3>2. LossIsToCome(c) => LossIsToCome(c)' \/ (book[c] # Nobody /\ m.reason = "update" /\ m.id = c)
      BY <1>1, <1>3, <1>4 DEF LossIsToCome
    <3>3. GainIsToCome(c) => GainIsToCome(c)' \/ m.id = c
      BY <1>1, <1>3, <1>4 DEF GainIsToCome
    <3>4. LossIsSeen(c, a) => LossIsSeen(c, a)'
      BY <1>1, <1>2, <1>6, <3>1, <3>2 DEF LossIsSeen
    <3>5. GainIsSeen(c, a) => GainIsSeen(c, a)'
      BY <1>1, <1>2, <1>6, <3>1, <3>3 DEF GainIsSeen, Asked
    <3> QED
      BY <3>4, <3>5
  <2>2. \A p : PeepFollows(p) => PeepFollows(p)'
    BY <1>1, <2>1 DEF PeepFollows, Alone, Owns
  <2> QED
    BY <1>2, <2>2 DEF ContactInv, PeepsFollow
<1> QED
  BY <1>1, <1>7, <1>8, <1>9, <1>10 DEF ContactInv

\* Of one that was removed, or of all: their peeps belong to nobody.
LEMMA HearsOfRemoval ==
    ASSUME ContactInv, Contact!Hears, Head(notices).reason = "remove"
    PROVE  ContactInv'
<1> DEFINE m   == Head(notices)
           out == IF m.id = Nobody THEN Persons ELSE {m.id}
<1>1. /\ notices # << >> /\ notices' = Tail(notices)
      /\ UNCHANGED <<book, gone, _livePeepsByEmail, lookups, pendingLookupCount, callbacks, orphans,
                     misled, had, deeds>>
      /\ _contactCache' \in [Addresses -> Persons \cup {Nobody, Unknown}]
      /\ _cacheHitEntries' \in 0..MaxHits /\ _cacheEmptyEntries' \in 0..MaxEmpty
      /\ CacheCounted' /\ CacheFollows' /\ InOrder'
  BY HearsCache
<1>2. Contact!Unlink(out) /\ UNCHANGED refinds
  BY DEF Contact!Hears
<1>3. /\ notices' \in Seq(ANotice) /\ Len(notices) \in Nat \ {0} /\ m \in ANotice
      /\ DOMAIN notices = 1..Len(notices) /\ DOMAIN notices' = 1..(Len(notices) - 1)
      /\ \A i \in DOMAIN notices' : notices'[i] = notices[i + 1]
      /\ m = notices[1]
      /\ \A kinds, ids : Heralded(kinds, ids) =>
            Heralded(kinds, ids)' \/ (m.reason \in kinds /\ m.id \in ids)
  BY <1>1, NoticeTaken DEF ContactInv
<1>4. out \subseteq Persons /\ (\A c \in Persons : c \in out <=> m.id \in {c, Nobody}) /\ m.reason = "remove"
  BY <1>3, ContactsAssumption DEF ANotice
<1> HIDE DEF out, m
<1>5. /\ peep' = [i \in Slots |-> IF \E c \in out : i \in _livePeepsById[c]
                                  THEN [peep[i] EXCEPT !.contactId = Nobody] ELSE peep[i]]
      /\ _livePeepsById' = [c \in Persons |-> IF c \in out THEN {} ELSE _livePeepsById[c]]
  BY <1>2 DEF Contact!Unlink
<1>6. ASSUME NEW i \in Slots
      PROVE  /\ peep'[i] \in APeep \cup {Nobody}
             /\ peep[i] # Nobody <=> peep'[i] # Nobody
             /\ peep[i] # Nobody => peep'[i].address = peep[i].address /\ peep'[i].name = peep[i].name
             /\ peep[i] # Nobody /\ peep[i].contactId \in out => peep'[i].contactId = Nobody
             /\ ~(peep[i] # Nobody /\ peep[i].contactId \in out) => peep'[i] = peep[i]
  <2>1. (\E c \in out : i \in _livePeepsById[c]) <=> peep[i] # Nobody /\ peep[i].contactId \in out
    BY <1>4 DEF ContactInv, Registered
  <2>2. CASE peep[i] # Nobody /\ peep[i].contactId \in out
    <3>1. PICK p \in APeep : p = peep[i]
      BY <2>2 DEF ContactInv, ContactTypes
    <3>2. peep'[i] = [p EXCEPT !.contactId = Nobody]
      BY <1>5, <2>1, <2>2, <3>1
    <3>3. /\ peep'[i] \in APeep /\ peep'[i].address = p.address /\ peep'[i].name = p.name
          /\ peep'[i].contactId = Nobody
      <4>1. PICK c \in Persons \cup {Nobody} : c = Nobody
        OBVIOUS
      <4>2. peep'[i] = [p EXCEPT !.contactId = c]
        BY <3>2, <4>1
      <4> QED
        BY <4>1, <4>2, PeepLinked
    <3> QED
      BY <2>2, <3>1, <3>3, APeepIs
  <2>3. CASE ~(peep[i] # Nobody /\ peep[i].contactId \in out)
    <3>1. peep'[i] = peep[i]
      BY <1>5, <2>1, <2>3
    <3> QED
      BY <2>3, <3>1 DEF ContactInv, ContactTypes
  <2> QED
    BY <2>2, <2>3
<1>7. ContactTypes'
  <2>1. peep' \in [Slots -> APeep \cup {Nobody}]
    BY <1>5, <1>6
  <2>2. _livePeepsById' \in [Persons -> SUBSET Slots]
    BY <1>5 DEF ContactInv, ContactTypes
  <2> QED
    BY <1>1, <1>2, <1>3, <2>1, <2>2 DEF ContactInv, ContactTypes
<1>8. Registered'
  <2>1. \A a \in Addresses : _livePeepsByEmail'[a] = {i \in Slots : peep'[i] # Nobody /\ peep'[i].address = a}
    BY <1>1, <1>6 DEF ContactInv, Registered
  <2>2. ASSUME NEW c \in Persons
        PROVE  _livePeepsById'[c] = {i \in Slots : peep'[i] # Nobody /\ peep'[i].contactId = c}
    <3>1. _livePeepsById[c] = {i \in Slots : peep[i] # Nobody /\ peep[i].contactId = c}
      BY DEF ContactInv, Registered
    <3>2. \A i \in Slots : peep'[i] # Nobody /\ peep'[i].contactId = c <=>
                               c \notin out /\ peep[i] # Nobody /\ peep[i].contactId = c
      <4>1. ASSUME NEW i \in Slots
            PROVE  peep'[i] # Nobody /\ peep'[i].contactId = c <=>
                      c \notin out /\ peep[i] # Nobody /\ peep[i].contactId = c
        <5>1. c # Nobody
          BY ContactsAssumption
        <5>2. CASE peep[i] # Nobody /\ peep[i].contactId \in out
          BY <1>6, <5>1, <5>2
        <5>3. CASE ~(peep[i] # Nobody /\ peep[i].contactId \in out)
          BY <1>6, <5>1, <5>3
        <5> QED
          BY <5>2, <5>3
      <4> QED
        BY <4>1
    <3>3. _livePeepsById'[c] = IF c \in out THEN {} ELSE _livePeepsById[c]
      BY <1>5
    <3> QED
      BY <3>1, <3>2, <3>3
  <2> QED
    BY <2>1, <2>2 DEF Registered
<1>9. Counted' /\ HadOnce'
  <2>1. Counted'
    BY <1>1 DEF ContactInv, Counted
  <2>2. \A a \in Addresses : _contactCache'[a] \in Persons => _contactCache'[a] \in had'[a]
    <3>1. \A a \in Addresses : _contactCache'[a] \in {_contactCache[a], Unknown}
      BY DEF Contact!Hears, Contact!ResetCache, Contact!cacheVars
    <3> QED
      BY <1>1, <3>1, ContactsAssumption DEF ContactInv, HadOnce
  <2>3. \A i \in Slots : peep'[i] # Nobody /\ peep'[i].contactId # Nobody => peep'[i].contactId \in had'[peep'[i].address]
    BY <1>1, <1>6 DEF ContactInv, HadOnce
  <2> QED
    BY <1>1, <1>2, <2>1, <2>2, <2>3 DEF ContactInv, HadOnce
<1>10. HeardOf'
  <2>1. \A i \in DOMAIN notices' : i \in Nat /\ i + 1 \in DOMAIN notices
    BY <1>3
  <2> QED
    BY <1>1, <1>2, <1>3, <2>1 DEF ContactInv, HeardOf, Notice
<1>11. PeepsFollow'
  <2>1. ASSUME NEW c \in Persons, NEW a
        PROVE  /\ (c \notin out /\ LossIsSeen(c, a)) => LossIsSeen(c, a)'
               /\ GainIsSeen(c, a) => GainIsSeen(c, a)'
    <3>1. c \notin out /\ LossIsToCome(c) => LossIsToCome(c)'
      BY <1>1, <1>3, <1>4 DEF LossIsToCome
    <3>2. GainIsToCome(c) => GainIsToCome(c)'
      BY <1>1, <1>3, <1>4 DEF GainIsToCome
    <3> QED
      BY <1>1, <1>2, <3>1, <3>2 DEF LossIsSeen, GainIsSeen, Asked
  <2>2. ASSUME NEW i \in Slots, peep[i] # Nobody
        PROVE  \E p \in APeep : p = peep'[i] /\ PeepFollows(p)'
    <3>1. PICK p \in APeep : p = peep[i]
      BY <2>2 DEF ContactInv, ContactTypes
    <3>2. PICK q \in APeep : q = peep'[i]
      BY <1>6, <2>2
    <3>3. PeepFollows(p) /\ p.address \in Addresses /\ (p.contactId # Nobody => p.contactId \in had[p.address])
      BY <2>2, <3>1 DEF ContactInv, PeepsFollow, APeep, HadOnce
    <3>4. CASE p.contactId \in out
      <4>1. q.contactId = Nobody /\ q.address = p.address
        BY <1>6, <2>2, <3>1, <3>2, <3>4
      <4>2. ASSUME NEW c \in Persons, Owns(c, p.address), Alone(p.address)
            PROVE  GainIsSeen(c, p.address)'
        <5>1. c \in had[p.address] /\ p.contactId \in had[p.address]
          BY <1>4, <3>3, <3>4, <4>2, ContactsAssumption DEF ContactInv, HadOnce, Owns
        <5>2. c = p.contactId
          BY <4>2, <5>1 DEF Alone
        <5>3. Begun(c)
          BY <4>2 DEF ContactInv, InOrder, Owns
        <5>4. Notice(1, {"create", "remove"}, {c, Nobody}) /\ 1 \in DOMAIN notices
          BY <1>3, <1>4, <3>4, <5>2 DEF Notice
        <5>5. Heralded({"create"}, {c})
          BY <5>3, <5>4 DEF Begun, Heralded
        <5>6. Heralded({"create"}, {c})'
          BY <1>3, <1>4, <5>5
        <5> QED
          BY <5>6 DEF GainIsSeen, GainIsToCome, Heralded, Notice
      <4>3. PeepFollows(q)'
        BY <1>1, <4>1, <4>2, ContactsAssumption DEF PeepFollows, Owns, Alone
      <4> QED
        BY <3>2, <4>3
    <3>5. CASE p.contactId \notin out
      <4>1. q = p
        BY <1>6, <3>1, <3>2, <3>5
      <4>2. PeepFollows(p)'
        BY <1>1, <2>1, <3>3, <3>5 DEF PeepFollows, Owns, Alone
      <4> QED
        BY <3>2, <4>1, <4>2
    <3> QED
      BY <3>4, <3>5
  <2> QED
    BY <1>6, <2>2 DEF PeepsFollow
<1> QED
  BY <1>1, <1>7, <1>8, <1>9, <1>10, <1>11 DEF ContactInv

\* req.onsuccess.
LEMMA RechecksHolds ==
    ASSUME ContactInv, NEW r \in refinds, Contact!Rechecks(r)
    PROVE  ContactInv'
<1>1. /\ r.found # Unknown /\ refinds' = refinds \ {r}
      /\ UNCHANGED <<book, gone, notices, _contactCache, _cacheHitEntries, _cacheEmptyEntries,
                     _livePeepsByEmail, lookups, pendingLookupCount, callbacks, orphans, had, deeds>>
  BY DEF Contact!Rechecks, Contact!cacheVars
<1>2. PICK c \in Persons : c = r.id
  BY DEF ContactInv, ContactTypes, ARefind
<1>3. r.found = Nobody \/ r.found \in SUBSET Addresses
  BY <1>1 DEF ContactInv, ContactTypes, ARefind
<1>4. /\ misled \subseteq misled' /\ misled' \subseteq Addresses
      /\ r.found # book[c] /\ ~Contact!Noticed(c) =>
            /\ r.found # Nobody => r.found \subseteq misled'
            /\ book[c] # Nobody => book[c] \subseteq misled'
  <2>1. PICK late : /\ late = IF r.found = book[c] \/ Contact!Noticed(c) THEN {} ELSE {r.found, book[c]}
                    /\ misled' = misled \cup UNION (late \ {Nobody})
    BY <1>2 DEF Contact!Rechecks
  <2>2. book[c] \in (SUBSET Addresses) \cup {Nobody} /\ misled \subseteq Addresses
    BY DEF ContactInv, ContactTypes
  <2>3. \A x \in late \ {Nobody} : x \subseteq Addresses
    BY <1>3, <2>1, <2>2
  <2>4. \A x \in late \ {Nobody} : x \subseteq misled'
    BY SMTT(30), <2>1
  <2> QED
    BY SMTT(30), <2>1, <2>2, <2>3, <2>4
\* The peeps that change: those let go, those that get the contact.
<1> DEFINE LetGo(p)  == r.found # Nobody /\ r.reason = "update" /\ p.contactId = c /\ p.address \notin r.found
           Linked(p) == r.found # Nobody /\ p.contactId \in {c, Nobody} /\ p.address \in r.found
<1>5. /\ c # Nobody /\ \A p : LetGo(p) => p.contactId = c /\ ~Linked(p)
      /\ \A i \in Slots :
            /\ peep[i] = Nobody => peep'[i] = Nobody
            /\ peep[i] # Nobody =>
                  \/ LetGo(peep[i]) /\ peep'[i] = [peep[i] EXCEPT !.contactId = Nobody]
                  \/ Linked(peep[i]) /\ peep'[i] = [peep[i] EXCEPT !.contactId = c, !.name = c]
                  \/ ~LetGo(peep[i]) /\ ~Linked(peep[i]) /\ peep'[i] = peep[i]
      /\ DOMAIN peep' = Slots /\ peep' = [i \in Slots |-> peep'[i]]
      /\ \A i \in Slots : i \in _livePeepsById'[c] <=>
            peep[i] # Nobody /\ (Linked(peep[i]) \/ (peep[i].contactId = c /\ ~LetGo(peep[i])))
      /\ \A d \in Persons \ {c} : _livePeepsById'[d] = _livePeepsById[d]
      /\ _livePeepsById' \in [Persons -> SUBSET Slots]
  <2>1. /\ c # Nobody
        /\ peep \in [Slots -> APeep \cup {Nobody}] /\ _livePeepsById \in [Persons -> SUBSET Slots]
        /\ _livePeepsByEmail \in [Addresses -> SUBSET Slots]
        /\ \A a \in Addresses, i \in Slots : i \in _livePeepsByEmail[a] <=> peep[i] # Nobody /\ peep[i].address = a
        /\ \A d \in Persons, i \in Slots : i \in _livePeepsById[d] <=> peep[i] # Nobody /\ peep[i].contactId = d
        /\ \A i \in Slots : peep[i] # Nobody => peep[i].address \in Addresses
    <3>1. c # Nobody
      BY ContactsAssumption
    <3>2. /\ peep \in [Slots -> APeep \cup {Nobody}] /\ _livePeepsById \in [Persons -> SUBSET Slots]
          /\ _livePeepsByEmail \in [Addresses -> SUBSET Slots]
      BY DEF ContactInv, ContactTypes
    <3>3. /\ \A a \in Addresses, i \in Slots : i \in _livePeepsByEmail[a] <=> peep[i] # Nobody /\ peep[i].address = a
          /\ \A d \in Persons, i \in Slots : i \in _livePeepsById[d] <=> peep[i] # Nobody /\ peep[i].contactId = d
      BY DEF ContactInv, Registered
    <3> QED
      BY <3>1, <3>2, <3>3 DEF APeep
  <2>2. CASE r.found = Nobody
    <3>1. peep' = peep /\ _livePeepsById' = _livePeepsById
      BY SMTT(30), <2>2 DEF Contact!Rechecks
    <3> QED
      BY <2>1, <2>2, <3>1
  <2>3. CASE r.found # Nobody
    <3> DEFINE lost == IF r.reason = "update" THEN {i \in _livePeepsById[c] : peep[i].address \notin r.found} ELSE {}
               new  == {i \in UNION {_livePeepsByEmail[a] : a \in r.found} : peep[i].contactId = Nobody}
               its  == (_livePeepsById[c] \ lost) \cup new
    <3>1. /\ peep' = [i \in Slots |->
                        CASE i \in lost -> [peep[i] EXCEPT !.contactId = Nobody]
                          [] i \in its /\ peep[i].address \in r.found -> [peep[i] EXCEPT !.contactId = c, !.name = c]
                          [] OTHER -> peep[i]]
          /\ _livePeepsById' = [_livePeepsById EXCEPT ![c] = its]
      BY <1>2, <2>3 DEF Contact!Rechecks
    <3>2. \A i \in Slots : /\ i \in lost <=> peep[i] # Nobody /\ LetGo(peep[i])
                           /\ i \in new <=> peep[i] # Nobody /\ Linked(peep[i]) /\ peep[i].contactId = Nobody
      <4>1. \A i \in Slots : i \in lost <=> peep[i] # Nobody /\ LetGo(peep[i])
        BY <2>1, <2>3, <3>1
      <4>2. ASSUME NEW i \in Slots
            PROVE  i \in UNION {_livePeepsByEmail[a] : a \in r.found} <=> peep[i] # Nobody /\ peep[i].address \in r.found
        BY SMTT(30), <1>3, <2>1, <2>3
      <4>3. \A i \in Slots : i \in new <=> peep[i] # Nobody /\ Linked(peep[i]) /\ peep[i].contactId = Nobody
        BY <2>3, <3>1, <4>2
      <4> QED
        BY <4>1, <4>3
    <3>3. its \subseteq Slots
      <4>1. _livePeepsById[c] \subseteq Slots /\ \A a \in r.found : _livePeepsByEmail[a] \subseteq Slots
        BY <1>3, <2>1, <2>3
      <4> QED
        BY <4>1
    <3>4. \A i \in Slots : /\ i \in its <=> peep[i] # Nobody /\ (Linked(peep[i]) \/ (peep[i].contactId = c /\ ~LetGo(peep[i])))
                           /\ i \in its /\ peep[i].address \in r.found <=> peep[i] # Nobody /\ Linked(peep[i])
      BY <2>1, <2>3, <3>2
    <3> HIDE DEF lost, new, its
    <3>5. ASSUME NEW i \in Slots
          PROVE  /\ peep[i] = Nobody => peep'[i] = Nobody
                 /\ peep[i] # Nobody =>
                       \/ LetGo(peep[i]) /\ peep'[i] = [peep[i] EXCEPT !.contactId = Nobody]
                       \/ Linked(peep[i]) /\ peep'[i] = [peep[i] EXCEPT !.contactId = c, !.name = c]
                       \/ ~LetGo(peep[i]) /\ ~Linked(peep[i]) /\ peep'[i] = peep[i]
      <4>1. CASE i \in lost
        BY <3>1, <3>2, <4>1
      <4>2. CASE i \notin lost /\ i \in its /\ peep[i].address \in r.found
        BY <3>1, <3>2, <3>4, <4>2
      <4>3. CASE i \notin lost /\ ~(i \in its /\ peep[i].address \in r.found)
        <5>1. peep'[i] = peep[i]
          BY <3>1, <4>3
        <5> QED
          BY <3>2, <3>4, <4>3, <5>1
      <4> QED
        BY SMTT(30), <4>1, <4>2, <4>3
    <3>6. /\ DOMAIN peep' = Slots /\ peep' = [i \in Slots |-> peep'[i]]
      <4> DEFINE made(i) == CASE i \in lost -> [peep[i] EXCEPT !.contactId = Nobody]
                              [] i \in its /\ peep[i].address \in r.found ->
                                     [peep[i] EXCEPT !.contactId = c, !.name = c]
                              [] OTHER -> peep[i]
      <4>1. peep' = [i \in Slots |-> made(i)]
        BY <3>1
      <4> HIDE DEF made
      <4> QED
        BY <4>1
    <3>7. /\ \A i \in Slots : i \in _livePeepsById'[c] <=>
                peep[i] # Nobody /\ (Linked(peep[i]) \/ (peep[i].contactId = c /\ ~LetGo(peep[i])))
          /\ \A d \in Persons \ {c} : _livePeepsById'[d] = _livePeepsById[d]
          /\ _livePeepsById' \in [Persons -> SUBSET Slots]
      <4>1. /\ _livePeepsById'[c] = its /\ \A d \in Persons \ {c} : _livePeepsById'[d] = _livePeepsById[d]
            /\ _livePeepsById' \in [Persons -> SUBSET Slots]
        BY ZenonT(60), <2>1, <3>1, <3>3
      <4> QED
        BY <3>4, <4>1
    <3> QED
      BY ZenonT(30), <2>1, <3>5, <3>6, <3>7
  <2> QED
    BY <2>2, <2>3
<1> HIDE DEF LetGo, Linked
<1>6. ASSUME NEW i \in Slots
      PROVE  /\ peep'[i] \in APeep \cup {Nobody}
             /\ peep[i] # Nobody <=> peep'[i] # Nobody
             /\ peep[i] # Nobody => peep'[i].address = peep[i].address
             /\ peep[i] # Nobody =>
                   \/ LetGo(peep[i]) /\ peep'[i].contactId = Nobody
                   \/ Linked(peep[i]) /\ peep'[i].contactId = c /\ peep'[i].name = c
                   \/ ~LetGo(peep[i]) /\ ~Linked(peep[i]) /\ peep'[i] = peep[i]
  <2>1. CASE peep[i] = Nobody
    BY <1>5, <2>1
  <2>2. CASE peep[i] # Nobody
    <3>1. PICK p \in APeep : p = peep[i]
      BY <2>2 DEF ContactInv, ContactTypes
    <3>2. PICK none \in Persons \cup {Nobody} : none = Nobody
      OBVIOUS
    <3>3. CASE LetGo(p) /\ peep'[i] = [p EXCEPT !.contactId = none]
      <4>1. /\ peep'[i] \in APeep /\ peep'[i].address = p.address /\ peep'[i].contactId = none
        BY <3>3, PeepLinked
      <4> QED
        BY <2>2, <3>1, <3>2, <3>3, <4>1, APeepIs
    <3>4. CASE Linked(p) /\ peep'[i] = [p EXCEPT !.contactId = c, !.name = c]
      <4>1. /\ peep'[i] \in APeep /\ peep'[i].address = p.address /\ peep'[i].contactId = c /\ peep'[i].name = c
        BY <3>4 DEF APeep
      <4> QED
        BY <2>2, <3>1, <3>4, <4>1, APeepIs
    <3>5. CASE ~LetGo(p) /\ ~Linked(p) /\ peep'[i] = p
      BY <2>2, <3>1, <3>5
    <3> QED
      BY <1>5, <2>2, <3>1, <3>2, <3>3, <3>4, <3>5
  <2> QED
    BY <2>1, <2>2
<1>7. ContactTypes'
  <2>1. peep' \in [Slots -> APeep \cup {Nobody}]
    BY <1>5, <1>6
  <2>2. IsFiniteSet(refinds') /\ refinds' \subseteq ARefind
    BY <1>1, FS_RemoveElement DEF ContactInv, ContactTypes
  <2> QED
    BY <1>1, <1>4, <1>5, <2>1, <2>2 DEF ContactInv, ContactTypes
<1>8. Registered'
  <2>1. \A a \in Addresses : _livePeepsByEmail'[a] = {i \in Slots : peep'[i] # Nobody /\ peep'[i].address = a}
    BY <1>1, <1>6 DEF ContactInv, Registered
  <2>2. ASSUME NEW d \in Persons
        PROVE  _livePeepsById'[d] = {i \in Slots : peep'[i] # Nobody /\ peep'[i].contactId = d}
    <3>1. _livePeepsById[d] = {i \in Slots : peep[i] # Nobody /\ peep[i].contactId = d} /\ d # Nobody
      BY ContactsAssumption DEF ContactInv, Registered
    <3>2. ASSUME NEW i \in Slots
          PROVE  i \in _livePeepsById'[d] <=> peep'[i] # Nobody /\ peep'[i].contactId = d
      <4>1. CASE d = c
        <5>1. i \in _livePeepsById'[c] <=>
                 peep[i] # Nobody /\ (Linked(peep[i]) \/ (peep[i].contactId = c /\ ~LetGo(peep[i])))
          BY <1>5
        <5>2. LetGo(peep[i]) => ~Linked(peep[i])
          BY <1>5
        <5>3. CASE peep[i] = Nobody
          BY <1>6, <4>1, <5>1, <5>3
        <5>4. CASE peep[i] # Nobody
          <6>1. CASE LetGo(peep[i]) /\ peep'[i].contactId = Nobody
            BY <1>6, <3>1, <4>1, <5>1, <5>2, <5>4, <6>1
          <6>2. CASE Linked(peep[i]) /\ peep'[i].contactId = c
            BY <1>6, <4>1, <5>1, <5>4, <6>2
          <6>3. CASE ~LetGo(peep[i]) /\ ~Linked(peep[i]) /\ peep'[i] = peep[i]
            BY <1>6, <4>1, <5>1, <5>4, <6>3
          <6> QED
            BY <1>6, <5>4, <6>1, <6>2, <6>3
        <5> QED
          BY <5>3, <5>4
      <4>2. CASE d # c
        <5>1. i \in _livePeepsById'[d] <=> peep[i] # Nobody /\ peep[i].contactId = d
          BY ZenonT(60), <1>5, <3>1, <4>2
        <5>2. CASE peep[i] = Nobody
          BY <1>6, <5>1, <5>2
        <5>3. CASE peep[i] # Nobody
          <6>1. CASE LetGo(peep[i]) /\ peep'[i].contactId = Nobody
            <7>1. peep[i].contactId = c
              BY <1>5, <6>1
            <7> QED
              BY <3>1, <4>2, <5>1, <6>1, <7>1
          <6>2. CASE Linked(peep[i]) /\ peep'[i].contactId = c
            <7>1. peep[i].contactId \in {c, Nobody}
              BY <6>2 DEF Linked
            <7> QED
              BY <3>1, <4>2, <5>1, <6>2, <7>1
          <6>3. CASE peep'[i] = peep[i]
            BY <5>1, <6>3
          <6> QED
            BY <1>6, <5>3, <6>1, <6>2, <6>3
        <5> QED
          BY <5>2, <5>3
      <4> QED
        BY <4>1, <4>2
    <3> QED
      BY ZenonT(60), <1>5, <3>2
  <2> QED
    BY <2>1, <2>2 DEF Registered
<1>9. Counted' /\ InOrder' /\ CacheCounted'
  BY <1>1 DEF ContactInv, Counted, InOrder, Ended, Begun, Notice, Heralded, CacheCounted
<1>10. r.found # Nobody => \A a \in r.found : c \in had[a]
  BY <1>1, <1>2 DEF ContactInv, HadOnce
<1>11. HadOnce' /\ HeardOf'
  <2>1. ASSUME NEW i \in Slots, peep'[i] # Nobody, peep'[i].contactId # Nobody
        PROVE  peep'[i].contactId \in had[peep'[i].address]
    BY <1>6, <1>10, <2>1 DEF ContactInv, HadOnce, Linked
  <2>2. HadOnce'
    BY <1>1, <2>1 DEF ContactInv, HadOnce
  <2>3. HeardOf'
    BY <1>1 DEF ContactInv, HeardOf, Notice
  <2> QED
    BY <2>2, <2>3
<1>12. CacheFollows'
  BY <1>1, <1>4 DEF ContactInv, CacheFollows, Owns, Alone, LossIsToCome, GainIsToCome, Asked, Heralded, Notice
<1>13. PeepsFollow'
  <2>1. \A d, a : /\ Owns(d, a) <=> Owns(d, a)'
                  /\ Alone(a) <=> Alone(a)'
                  /\ LossIsToCome(d) <=> LossIsToCome(d)'
                  /\ GainIsToCome(d) <=> GainIsToCome(d)'
                  /\ Asked(a) <=> Asked(a)'
    BY <1>1 DEF Owns, Alone, LossIsToCome, GainIsToCome, Asked, Heralded, Notice
  <2>2. ASSUME NEW i \in Slots, peep[i] # Nobody
        PROVE  \E p \in APeep : p = peep'[i] /\ PeepFollows(p)'
    <3>1. PICK p \in APeep : p = peep[i]
      BY <2>2 DEF ContactInv, ContactTypes
    <3>2. PICK q \in APeep : q = peep'[i]
      BY <1>6, <2>2
    <3>3. PICK a \in Addresses : a = p.address
      BY DEF APeep
    <3>4. PeepFollows(p) /\ (p.contactId # Nobody => p.contactId \in had[a])
      BY <2>2, <3>1, <3>3 DEF ContactInv, PeepsFollow, HadOnce
    <3>5. q.address = a
      BY <1>6, <2>2, <3>1, <3>2, <3>3
    <3>6. CASE LetGo(p) /\ q.contactId = Nobody
      <4>1. c \in had[a] /\ a \notin r.found /\ r.found # Nobody
        BY <1>5, <3>3, <3>4, <3>6 DEF LetGo
      <4>2. ASSUME NEW d \in Persons, Owns(d, a), Alone(a), a \notin misled'
            PROVE  GainIsToCome(d)
        <5>1. d \in had[a]
          BY <4>2 DEF ContactInv, HadOnce, Owns
        <5>2. d = c
          BY <4>1, <4>2, <5>1 DEF Alone
        <5>3. Contact!Noticed(c)
          BY <1>4, <4>1, <4>2, <5>2 DEF Owns
        <5> QED
          BY <4>1, <4>2, <5>2, <5>3, ComesToBeHeard
      <4> QED
        BY <2>1, <3>2, <3>5, <3>6, <4>2, ContactsAssumption DEF PeepFollows, GainIsSeen
    <3>7. CASE Linked(p) /\ q.contactId = c /\ q.name = c
      <4>1. c \in had[a] /\ a \in r.found /\ r.found # Nobody
        BY <1>10, <3>3, <3>7 DEF Linked
      <4>2. ASSUME ~Owns(c, a), a \notin misled'
            PROVE  LossIsToCome(c)
        <5>1. r.found # book[c]
          BY <4>1, <4>2 DEF Owns
        <5>2. Contact!Noticed(c)
          BY <1>4, <4>1, <4>2, <5>1
        <5> QED
          BY <4>1, <4>2, <5>2, ComesToBeHeard
      <4>3. a \notin misled' /\ ~Owns(c, a)' => LossIsSeen(c, a)'
        BY <2>1, <4>2 DEF LossIsSeen
      <4>4. PeepFollows(q)'
        BY <3>5, <3>7, <4>3, ContactsAssumption DEF PeepFollows
      <4> QED
        BY <3>2, <4>4
    <3>8. CASE ~LetGo(p) /\ ~Linked(p) /\ q = p
      <4>1. ASSUME NEW d \in Persons, p.contactId = d, LossIsSeen(d, a)
            PROVE  LossIsSeen(d, a)'
        BY <1>1, <1>2, <2>1, <3>3, <3>8, <4>1 DEF LossIsSeen, LetGo
      <4>2. ASSUME NEW d \in Persons, p.contactId = Nobody, GainIsSeen(d, a)
            PROVE  GainIsSeen(d, a)'
        BY <1>1, <1>2, <2>1, <3>3, <3>8, <4>2 DEF GainIsSeen, Linked
      <4>3. PeepFollows(p)'
        BY <1>4, <2>1, <3>3, <3>4, <4>1, <4>2 DEF PeepFollows
      <4> QED
        BY <3>2, <3>8, <4>3
    <3> QED
      BY <1>6, <2>2, <3>1, <3>2, <3>6, <3>7, <3>8
  <2> QED
    BY <1>6, <2>2 DEF PeepsFollow
<1> QED
  BY SMTT(30), <1>7, <1>8, <1>9, <1>11, <1>12, <1>13 DEF ContactInv

\* resolvePeep, for who is shown, updated or asked about.
LEMMA ResolveHolds ==
    ASSUME ContactInv, NEW i \in Slots, NEW a \in Addresses, NEW owned \in BOOLEAN,
           NEW left \in SUBSET Slots, \A t \in left : peep[t] # Nobody,
           Contact!Resolve(i, a, owned, left),
           callbacks' \in Nat, callbacks' # 0 => callbacks # 0 \/ pendingLookupCount' # 0,
           deeds' \in 0..MaxDeeds
    PROVE  ContactInv'
<1> DEFINE who == IF _contactCache[a] \in Persons THEN _contactCache[a] ELSE Nobody
<1>1. /\ peep[i] = Nobody
      /\ UNCHANGED <<book, gone, notices, _cacheHitEntries, _cacheEmptyEntries, refinds, orphans, misled, had>>
  BY DEF Contact!Resolve
<1>2. PICK w \in Persons \cup {Nobody} : w = who
  OBVIOUS
<1>3. PICK p \in APeep : /\ p = [address |-> a, contactId |-> w, name |-> w, owned |-> owned]
                         /\ p.address = a /\ p.contactId = w /\ p.name = w
  <2>1. [address |-> a, contactId |-> w, name |-> w, owned |-> owned] \in APeep
    BY DEF APeep
  <2> QED
    BY <2>1
<1>4. /\ peep' = [t \in Slots |-> CASE t = i -> p
                                    [] t \in left -> [peep[t] EXCEPT !.owned = FALSE]
                                    [] OTHER -> peep[t]]
      /\ _livePeepsByEmail' = [_livePeepsByEmail EXCEPT ![a] = @ \cup {i}]
      /\ _livePeepsById' = [c \in Persons |-> _livePeepsById[c] \cup IF c = w THEN {i} ELSE {}]
  BY <1>2, <1>3 DEF Contact!Resolve
<1>5. /\ lookups \subseteq lookups' /\ IsFiniteSet(lookups') /\ lookups' \subseteq ALookup
      /\ \A k, l \in lookups' : k.n = l.n => k = l
      /\ pendingLookupCount' = Cardinality(lookups') + orphans
      /\ pendingLookupCount # 0 => pendingLookupCount' # 0
      /\ \A l \in lookups' : l.found # Unknown => l \in lookups
      /\ _contactCache' \in [Addresses -> Persons \cup {Nobody, Unknown}]
      /\ \A b \in Addresses : /\ _contactCache'[b] = _contactCache[b] \/ (_contactCache'[b] = Nobody /\ Asked(b)')
                              /\ _contactCache[b] = Nobody => _contactCache'[b] = Nobody
      /\ _contactCache[a] = Unknown => Asked(a)'
  <2>1. /\ IsFiniteSet(lookups) /\ lookups \subseteq ALookup /\ orphans \in Nat
        /\ \A k, l \in lookups : k.n = l.n => k = l
        /\ pendingLookupCount = Cardinality(lookups) + orphans /\ Cardinality(lookups) \in Nat
        /\ _contactCache \in [Addresses -> Persons \cup {Nobody, Unknown}]
    BY FS_CardinalityType DEF ContactInv, ContactTypes, Counted
  <2>2. CASE _contactCache[a] = Unknown
    <3>1. PICK n \in Nat : n = Contact!Unused(lookups) /\ \A l \in lookups : l.n # n
      BY <2>1, UnusedIs
    <3>2. PICK k \in ALookup : /\ k = [n |-> n, address |-> a, found |-> Unknown]
                               /\ k.n = n /\ k.address = a /\ k.found = Unknown
      <4>1. [n |-> n, address |-> a, found |-> Unknown] \in ALookup
        BY DEF ALookup
      <4> QED
        BY <4>1
    <3>3. /\ lookups' = lookups \cup {k} /\ pendingLookupCount' = pendingLookupCount + 1
          /\ _contactCache' = [_contactCache EXCEPT ![a] = Nobody]
      BY <2>2, <3>1, <3>2 DEF Contact!Resolve
    <3>4. k \notin lookups
      BY <3>1, <3>2
    <3>5. IsFiniteSet(lookups') /\ Cardinality(lookups') = Cardinality(lookups) + 1
      BY <2>1, <3>3, <3>4, FS_AddElement
    <3>6. Asked(a)'
      BY <3>2, <3>3 DEF Asked
    <3>7. /\ pendingLookupCount' = Cardinality(lookups') + orphans
          /\ pendingLookupCount # 0 => pendingLookupCount' # 0
      BY <2>1, <3>3, <3>5
    <3>8. \A j, l \in lookups' : j.n = l.n => j = l
      BY <2>1, <3>1, <3>2, <3>3
    <3>9. \A l \in lookups' : l.found # Unknown => l \in lookups
      BY <3>2, <3>3
    <3>10. /\ _contactCache' \in [Addresses -> Persons \cup {Nobody, Unknown}]
           /\ \A b \in Addresses : /\ _contactCache'[b] = _contactCache[b] \/ (_contactCache'[b] = Nobody /\ Asked(b)')
                                   /\ _contactCache[b] = Nobody => _contactCache'[b] = Nobody
      BY <2>1, <3>3, <3>6
    <3> QED
      BY <2>1, <3>3, <3>5, <3>6, <3>7, <3>8, <3>9, <3>10
  <2>3. CASE _contactCache[a] # Unknown
    <3>1. UNCHANGED <<_contactCache, pendingLookupCount, lookups>>
      BY <2>3 DEF Contact!Resolve
    <3> QED
      BY <1>1, <2>1, <2>3, <3>1
  <2> QED
    BY <2>2, <2>3
<1>6. ASSUME NEW t \in Slots, t # i
      PROVE  /\ peep'[t] \in APeep \cup {Nobody} /\ (peep'[t] = Nobody <=> peep[t] = Nobody)
             /\ peep[t] # Nobody => /\ peep'[t].address = peep[t].address /\ peep'[t].contactId = peep[t].contactId
                                    /\ peep'[t].name = peep[t].name
  <2>1. CASE t \in left
    <3>1. PICK q \in APeep : q = peep[t]
      BY <2>1 DEF ContactInv, ContactTypes
    <3>2. peep'[t] = [q EXCEPT !.owned = FALSE]
      BY <1>4, <1>6, <2>1, <3>1
    <3> QED
      BY <2>1, <3>1, <3>2, PeepDisowned, APeepIs
  <2>2. CASE t \notin left
    <3>1. peep'[t] = peep[t]
      BY <1>4, <1>6, <2>2
    <3> QED
      BY <3>1 DEF ContactInv, ContactTypes
  <2> QED
    BY <2>1, <2>2
<1>7. peep'[i] = p /\ p # Nobody
  <2>1. peep'[i] = p
    <3>1. i \notin left
      BY <1>1
    <3> QED
      BY <1>4, <3>1
  <2>2. p # Nobody
    BY APeepIs
  <2> QED
    BY <2>1, <2>2
<1>8. ContactTypes'
  <2>1. peep' \in [Slots -> APeep \cup {Nobody}]
    <3> DEFINE made(t) == CASE t = i -> p
                            [] t \in left -> [peep[t] EXCEPT !.owned = FALSE]
                            [] OTHER -> peep[t]
    <3>1. peep' = [t \in Slots |-> made(t)]
      BY <1>4
    <3> HIDE DEF made
    <3> QED
      BY <1>6, <1>7, <3>1
  <2>2. _livePeepsByEmail' \in [Addresses -> SUBSET Slots] /\ _livePeepsById' \in [Persons -> SUBSET Slots]
    BY <1>4 DEF ContactInv, ContactTypes
  <2> QED
    BY <1>1, <1>5, <2>1, <2>2 DEF ContactInv, ContactTypes
<1>9. Registered'
  <2>1. ASSUME NEW b \in Addresses
        PROVE  _livePeepsByEmail'[b] = {t \in Slots : peep'[t] # Nobody /\ peep'[t].address = b}
    <3>1. _livePeepsByEmail[b] = {t \in Slots : peep[t] # Nobody /\ peep[t].address = b}
      BY DEF ContactInv, Registered
    <3>2. _livePeepsByEmail'[b] = _livePeepsByEmail[b] \cup IF b = a THEN {i} ELSE {}
      BY <1>4 DEF ContactInv, ContactTypes
    <3>3. ASSUME NEW t \in Slots
          PROVE  t \in _livePeepsByEmail'[b] <=> peep'[t] # Nobody /\ peep'[t].address = b
      BY <1>1, <1>3, <1>6, <1>7, <3>1, <3>2
    <3> QED
      BY <3>1, <3>2, <3>3
  <2>2. ASSUME NEW c \in Persons
        PROVE  _livePeepsById'[c] = {t \in Slots : peep'[t] # Nobody /\ peep'[t].contactId = c}
    <3>1. _livePeepsById[c] = {t \in Slots : peep[t] # Nobody /\ peep[t].contactId = c}
      BY DEF ContactInv, Registered
    <3>2. _livePeepsById'[c] = _livePeepsById[c] \cup IF c = w THEN {i} ELSE {}
      BY <1>4
    <3>3. ASSUME NEW t \in Slots
          PROVE  t \in _livePeepsById'[c] <=> peep'[t] # Nobody /\ peep'[t].contactId = c
      BY <1>1, <1>3, <1>6, <1>7, <3>1, <3>2
    <3> QED
      BY <3>1, <3>2, <3>3
  <2> QED
    BY <2>1, <2>2 DEF Registered
<1>10. Counted'
  BY <1>1, <1>5 DEF ContactInv, Counted
<1>11. HadOnce'
  <2>1. \A b \in Addresses : _contactCache'[b] \in Persons => _contactCache'[b] \in had'[b]
    BY <1>1, <1>5, ContactsAssumption DEF ContactInv, HadOnce
  <2>2. w \in Persons => w \in had[a]
    BY <1>2, ContactsAssumption DEF ContactInv, HadOnce
  <2>3. \A t \in Slots : peep'[t] # Nobody /\ peep'[t].contactId # Nobody => peep'[t].contactId \in had'[peep'[t].address]
    <3>1. \A t \in Slots : t # i /\ peep'[t] # Nobody /\ peep'[t].contactId # Nobody =>
                             peep'[t].contactId \in had'[peep'[t].address]
      BY <1>1, <1>6 DEF ContactInv, HadOnce
    <3> QED
      BY <1>1, <1>3, <1>7, <2>2, <3>1
  <2>4. \A l \in lookups' : l.found \in Persons => l.found \in had'[l.address]
    BY <1>1, <1>5, ContactsAssumption DEF ContactInv, HadOnce
  <2> QED
    BY <1>1, <2>1, <2>3, <2>4 DEF ContactInv, HadOnce
<1>12. InOrder' /\ HeardOf'
  BY <1>1 DEF ContactInv, InOrder, Ended, Begun, Notice, Heralded, HeardOf
<1>13. \A c, b : /\ Owns(c, b) <=> Owns(c, b)'
                 /\ Alone(b) <=> Alone(b)'
                 /\ LossIsToCome(c) <=> LossIsToCome(c)'
                 /\ GainIsToCome(c) <=> GainIsToCome(c)'
                 /\ Asked(b) => Asked(b)'
                 /\ LossIsSeen(c, b) <=> LossIsSeen(c, b)'
                 /\ GainIsSeen(c, b) => GainIsSeen(c, b)'
  <2>1. \A c, b : /\ Owns(c, b) <=> Owns(c, b)'
                  /\ Alone(b) <=> Alone(b)'
                  /\ LossIsToCome(c) <=> LossIsToCome(c)'
                  /\ GainIsToCome(c) <=> GainIsToCome(c)'
                  /\ Asked(b) => Asked(b)'
    BY <1>1, <1>5 DEF Owns, Alone, LossIsToCome, GainIsToCome, Heralded, Notice, Asked
  <2> QED
    BY <1>1, <2>1 DEF LossIsSeen, GainIsSeen
<1>14. CacheCounted'
  <2>1. _cacheHitEntries' = 0 /\ _cacheEmptyEntries' = 0 =>
           \A b \in Addresses : _contactCache'[b] = Nobody => Asked(b)'
    <3>1. _cacheHitEntries = 0 /\ _cacheEmptyEntries = 0 =>
             \A b \in Addresses : _contactCache[b] = Nobody => Asked(b)
      BY DEF ContactInv, CacheCounted, Asked
    <3> QED
      BY <1>1, <1>5, <1>13, <3>1
  <2>2. \A b \in Addresses : _contactCache'[b] \in Persons => _cacheHitEntries' # 0
    BY <1>1, <1>5, ContactsAssumption DEF ContactInv, CacheCounted
  <2> QED
    BY <2>1, <2>2 DEF CacheCounted, Asked
<1>15. CacheFollows'
  <2>1. ASSUME NEW b \in Addresses, b \notin misled, NEW c \in Persons
        PROVE  /\ _contactCache'[b] = c /\ ~Owns(c, b)' => LossIsToCome(c)'
               /\ _contactCache'[b] = Nobody /\ Owns(c, b)' /\ Alone(b)' => GainIsToCome(c)' \/ Asked(b)'
    <3>1. /\ _contactCache[b] = c /\ ~Owns(c, b) => LossIsToCome(c)
          /\ _contactCache[b] = Nobody /\ Owns(c, b) /\ Alone(b) => GainIsToCome(c) \/ Asked(b)
      BY <2>1 DEF ContactInv, CacheFollows
    <3> QED
      BY <1>5, <1>13, <3>1, ContactsAssumption
  <2> QED
    BY <1>1, <2>1 DEF CacheFollows
<1>16. PeepsFollow'
  <2>1. ASSUME NEW t \in Slots, peep'[t] # Nobody, t # i
        PROVE  \E q : q = peep'[t] /\ PeepFollows(q)'
    <3>1. PICK q \in APeep, r \in APeep : /\ q = peep'[t] /\ r = peep[t]
                                          /\ r.address = q.address /\ r.contactId = q.contactId /\ r.name = q.name
      BY <1>6, <2>1 DEF ContactInv, ContactTypes
    <3>2. PeepFollows(r)
      BY <1>6, <2>1, <3>1 DEF ContactInv, PeepsFollow
    <3>3. PeepFollows(q)'
      BY <1>1, <1>13, <3>1, <3>2 DEF PeepFollows
    <3> QED
      BY <3>1, <3>3
  <2>2. PeepFollows(p)'
    <3>1. ASSUME a \notin misled, NEW c \in Persons
          PROVE  /\ w = c /\ ~Owns(c, a)' => LossIsSeen(c, a)'
                 /\ w = Nobody /\ Owns(c, a)' /\ Alone(a)' => GainIsSeen(c, a)'
      <4>1. /\ _contactCache[a] = c /\ ~Owns(c, a) => LossIsToCome(c)
            /\ _contactCache[a] = Nobody /\ Owns(c, a) /\ Alone(a) => GainIsToCome(c) \/ Asked(a)
        BY <3>1 DEF ContactInv, CacheFollows
      <4>2. w = c => _contactCache[a] = c
        BY <1>2, ContactsAssumption
      <4>3. w = Nobody => _contactCache[a] \in {Nobody, Unknown}
        BY <1>2, ContactsAssumption DEF ContactInv, ContactTypes
      <4>4. w = c /\ ~Owns(c, a)' => LossIsSeen(c, a)'
        BY <1>13, <4>1, <4>2 DEF LossIsSeen
      <4>5. w = Nobody /\ Owns(c, a)' /\ Alone(a)' => GainIsSeen(c, a)'
        BY <1>5, <1>13, <4>1, <4>3 DEF GainIsSeen
      <4> QED
        BY <4>4, <4>5
    <3> QED
      BY <1>1, <1>3, <3>1 DEF PeepFollows
  <2> QED
    BY <1>7, <2>1, <2>2 DEF PeepsFollow
<1> QED
  BY <1>8, <1>9, <1>10, <1>11, <1>12, <1>14, <1>15, <1>16 DEF ContactInv

LEMMA ShownHolds ==
    ASSUME ContactInv,
           \E i \in Slots : \/ \E a \in Addresses : Contact!Shows(i, a) \/ Contact!Asks(i, a)
                            \/ \E t \in Slots : Contact!Updates(i, t)
    PROVE  ContactInv'
<1>1. ASSUME Contact!Deed
      PROVE  deeds' \in 0..MaxDeeds
  BY <1>1, ContactsAssumption DEF Contact!Deed, ContactInv, ContactTypes
<1>2. callbacks \in Nat
  BY DEF ContactInv, ContactTypes
<1>3. ASSUME NEW i \in Slots, NEW a \in Addresses, Contact!Shows(i, a)
      PROVE  ContactInv'
  <2>1. Contact!Resolve(i, a, TRUE, {}) /\ callbacks' = callbacks /\ Contact!Deed
    BY <1>3 DEF Contact!Shows
  <2>2. /\ deeds' \in 0..MaxDeeds /\ callbacks' \in Nat /\ (callbacks' # 0 => callbacks # 0)
        /\ TRUE \in BOOLEAN /\ {} \in SUBSET Slots
    BY <1>1, <1>2, <2>1
  <2> QED
    BY <2>1, <2>2, ResolveHolds
<1>4. ASSUME NEW i \in Slots, NEW a \in Addresses, Contact!Asks(i, a)
      PROVE  ContactInv'
  <2>1. /\ Contact!Resolve(i, a, FALSE, {}) /\ Contact!Deed
        /\ callbacks' = IF pendingLookupCount' # 0 THEN callbacks + 1 ELSE callbacks
    BY <1>4 DEF Contact!Asks
  <2>2. callbacks' \in Nat /\ (callbacks' # 0 => callbacks # 0 \/ pendingLookupCount' # 0)
        /\ FALSE \in BOOLEAN /\ {} \in SUBSET Slots /\ deeds' \in 0..MaxDeeds
    BY <1>1, <1>2, <2>1
  <2> QED
    BY <2>1, <2>2, ResolveHolds
<1>5. ASSUME NEW i \in Slots, NEW t \in Slots, Contact!Updates(i, t)
      PROVE  ContactInv'
  <2>1. /\ Contact!Resolve(t, peep[i].address, TRUE, {i}) /\ callbacks' = callbacks /\ Contact!Deed
        /\ peep[i] # Nobody
    BY <1>5 DEF Contact!Updates
  <2>2. PICK a \in Addresses : a = peep[i].address
    BY <2>1 DEF ContactInv, ContactTypes, APeep
  <2>3. /\ deeds' \in 0..MaxDeeds /\ callbacks' \in Nat /\ (callbacks' # 0 => callbacks # 0)
        /\ TRUE \in BOOLEAN /\ {i} \in SUBSET Slots /\ \A k \in {i} : peep[k] # Nobody
    BY <1>1, <1>2, <2>1
  <2> QED
    BY <2>1, <2>2, <2>3, ResolveHolds
<1> QED
  BY <1>3, <1>4, <1>5

LEMMA ReleasesHolds ==
    ASSUME ContactInv, NEW i \in Slots, Contact!Releases(i)
    PROVE  ContactInv'
<1>1. /\ peep[i] # Nobody /\ peep' = [peep EXCEPT ![i] = Nobody]
      /\ _livePeepsById' = [c \in Persons |-> IF peep[i].contactId = c THEN _livePeepsById[c] \ {i} ELSE _livePeepsById[c]]
      /\ _livePeepsByEmail' = [_livePeepsByEmail EXCEPT ![peep[i].address] = @ \ {i}]
      /\ UNCHANGED <<book, gone, notices, _contactCache, _cacheHitEntries, _cacheEmptyEntries,
                     lookups, refinds, pendingLookupCount, callbacks, orphans, misled, had, deeds>>
  BY DEF Contact!Releases, Contact!ForgottenById, Contact!cacheVars, Contact!requestVars
<1>2. /\ peep'[i] = Nobody /\ \A t \in Slots : t # i => peep'[t] = peep[t]
      /\ peep' \in [Slots -> APeep \cup {Nobody}]
      /\ \A t \in Slots : peep'[t] # Nobody => peep'[t] = peep[t]
  BY <1>1 DEF ContactInv, ContactTypes
<1>3. peep[i].address \in Addresses
  BY <1>1 DEF ContactInv, ContactTypes, APeep
<1>4. ContactTypes'
  BY <1>1, <1>2 DEF ContactInv, ContactTypes
<1>5. Registered'
  <2>1. ASSUME NEW b \in Addresses
        PROVE  _livePeepsByEmail'[b] = {t \in Slots : peep'[t] # Nobody /\ peep'[t].address = b}
    <3>1. _livePeepsByEmail[b] = {t \in Slots : peep[t] # Nobody /\ peep[t].address = b}
      BY DEF ContactInv, Registered
    <3>2. _livePeepsByEmail'[b] = IF b = peep[i].address THEN _livePeepsByEmail[b] \ {i} ELSE _livePeepsByEmail[b]
      BY <1>1, <1>3 DEF ContactInv, ContactTypes
    <3> QED
      BY <1>2, <3>1, <3>2
  <2>2. ASSUME NEW c \in Persons
        PROVE  _livePeepsById'[c] = {t \in Slots : peep'[t] # Nobody /\ peep'[t].contactId = c}
    <3>1. _livePeepsById[c] = {t \in Slots : peep[t] # Nobody /\ peep[t].contactId = c}
      BY DEF ContactInv, Registered
    <3>2. _livePeepsById'[c] = IF peep[i].contactId = c THEN _livePeepsById[c] \ {i} ELSE _livePeepsById[c]
      BY <1>1
    <3> QED
      BY <1>2, <3>1, <3>2
  <2> QED
    BY <2>1, <2>2 DEF Registered
<1>6. Counted' /\ InOrder' /\ HeardOf' /\ CacheCounted'
  BY <1>1 DEF ContactInv, Counted, InOrder, Ended, Begun, Notice, Heralded, HeardOf, CacheCounted
<1>7. HadOnce'
  BY <1>1, <1>2 DEF ContactInv, HadOnce
<1>8. CacheFollows'
  BY <1>1 DEF ContactInv, CacheFollows, Owns, Alone, LossIsToCome, GainIsToCome, Asked, Heralded, Notice
<1>9. PeepsFollow'
  <2>1. \A p : PeepFollows(p) => PeepFollows(p)'
    BY <1>1 DEF PeepFollows, LossIsSeen, GainIsSeen, Owns, Alone, LossIsToCome, GainIsToCome, Asked, Heralded, Notice
  <2> QED
    BY <1>2, <2>1 DEF ContactInv, PeepsFollow
<1> QED
  BY <1>4, <1>5, <1>6, <1>7, <1>8, <1>9 DEF ContactInv

\* handleResult, whatever was found: what it does to the lookups and to the cache.
LEMMA Answered ==
    ASSUME ContactInv, NEW l \in lookups, NEW a \in Addresses, a = l.address, l.found # Unknown,
           lookups' = lookups \ {l}, misled' = misled \cup IF Contact!Overtaken(a, l.found) THEN {a} ELSE {},
           \/ Contact!ResetCache
           \/ /\ _contactCache' = [_contactCache EXCEPT ![a] = l.found]
              /\ IF l.found = Nobody
                 THEN /\ _cacheEmptyEntries' = _cacheEmptyEntries + 1 /\ _cacheEmptyEntries + 1 <= MaxEmpty
                      /\ UNCHANGED _cacheHitEntries
                 ELSE /\ _cacheHitEntries' = _cacheHitEntries + 1 /\ _cacheHitEntries + 1 <= MaxHits
                      /\ UNCHANGED _cacheEmptyEntries,
           UNCHANGED <<book, gone, notices, refinds, had, deeds>>
    PROVE  /\ l.found \in Persons \cup {Nobody}
           /\ _contactCache' \in [Addresses -> Persons \cup {Nobody, Unknown}]
           /\ _cacheHitEntries' \in 0..MaxHits /\ _cacheEmptyEntries' \in 0..MaxEmpty
           /\ IsFiniteSet(lookups') /\ lookups' \subseteq ALookup /\ misled' \subseteq Addresses
           /\ Cardinality(lookups') \in Nat /\ Cardinality(lookups) = Cardinality(lookups') + 1
           /\ \A j, k \in lookups' : j.n = k.n => j = k
           /\ \A b \in Addresses : _contactCache'[b] \in Persons => _contactCache'[b] \in had[b]
           /\ CacheCounted' /\ CacheFollows' /\ InOrder' /\ HeardOf'
           /\ misled \subseteq misled'
           /\ l.found \in Persons => l.found \in had[a]
           /\ \A c, b : /\ Owns(c, b) <=> Owns(c, b)'
                        /\ Alone(b) <=> Alone(b)'
                        /\ LossIsSeen(c, b) <=> LossIsSeen(c, b)'
                        /\ b # a => (GainIsSeen(c, b) <=> GainIsSeen(c, b)')
           /\ a \notin misled' => \A c \in Persons :
                 /\ l.found = c /\ ~Owns(c, a)' => LossIsSeen(c, a)'
                 /\ l.found = Nobody /\ Owns(c, a)' => GainIsSeen(c, a)'
<1>1. /\ l \in ALookup /\ IsFiniteSet(lookups) /\ lookups \subseteq ALookup
      /\ misled \subseteq Addresses
      /\ _contactCache \in [Addresses -> Persons \cup {Nobody, Unknown}]
      /\ _cacheHitEntries \in 0..MaxHits /\ _cacheEmptyEntries \in 0..MaxEmpty
      /\ \A j, k \in lookups : j.n = k.n => j = k
      /\ \A b \in Addresses : _contactCache[b] \in Persons => _contactCache[b] \in had[b]
      /\ l.found \in Persons => l.found \in had[a]
  BY DEF ContactInv, ContactTypes, Counted, HadOnce
<1>2. l.found \in Persons \cup {Nobody}
  BY <1>1 DEF ALookup
<1>3. /\ IsFiniteSet(lookups') /\ lookups' \subseteq ALookup
      /\ Cardinality(lookups') \in Nat /\ Cardinality(lookups) = Cardinality(lookups') + 1
      /\ \A j, k \in lookups' : j.n = k.n => j = k
  <2>1. /\ IsFiniteSet(lookups \ {l}) /\ Cardinality(lookups \ {l}) = Cardinality(lookups) - 1
        /\ Cardinality(lookups) \in Nat
    BY <1>1, FS_RemoveElement, FS_CardinalityType
  <2>2. IsFiniteSet(lookups') /\ Cardinality(lookups') \in Nat
    BY <2>1, FS_CardinalityType
  <2> QED
    BY <1>1, <2>1, <2>2
<1>5. /\ _contactCache' \in [Addresses -> Persons \cup {Nobody, Unknown}]
      /\ _cacheHitEntries' \in 0..MaxHits /\ _cacheEmptyEntries' \in 0..MaxEmpty
      /\ \/ \A b \in Addresses : _contactCache'[b] = Unknown
         \/ /\ _contactCache'[a] = l.found /\ \A b \in Addresses : b # a => _contactCache'[b] = _contactCache[b]
            /\ IF l.found = Nobody THEN _cacheEmptyEntries' # 0 /\ _cacheHitEntries' = _cacheHitEntries
               ELSE _cacheHitEntries' # 0
  <2>1. CASE Contact!ResetCache
    BY <2>1, ContactsAssumption DEF Contact!ResetCache
  <2>2. CASE ~Contact!ResetCache
    <3>1. /\ _contactCache' \in [Addresses -> Persons \cup {Nobody, Unknown}]
          /\ _contactCache'[a] = l.found /\ \A b \in Addresses : b # a => _contactCache'[b] = _contactCache[b]
      BY <1>1, <1>2, <2>2
    <3>2. /\ _cacheHitEntries' \in 0..MaxHits /\ _cacheEmptyEntries' \in 0..MaxEmpty
          /\ IF l.found = Nobody THEN _cacheEmptyEntries' # 0 /\ _cacheHitEntries' = _cacheHitEntries
             ELSE _cacheHitEntries' # 0
      BY <1>1, <2>2, ContactsAssumption
    <3> QED
      BY <3>1, <3>2
  <2> QED
    BY <2>1, <2>2
<1>6. CacheCounted'
  <2>1. CASE \A b \in Addresses : _contactCache'[b] = Unknown
    BY <2>1, ContactsAssumption DEF CacheCounted
  <2>2. CASE ~ \A b \in Addresses : _contactCache'[b] = Unknown
    <3>1. _cacheHitEntries' # 0 \/ _cacheEmptyEntries' # 0
      BY <1>5, <2>2
    <3>2. \A b \in Addresses : _contactCache'[b] \in Persons => _cacheHitEntries' # 0
      BY <1>5, <2>2, ContactsAssumption DEF ContactInv, CacheCounted
    <3> QED
      BY <3>1, <3>2 DEF CacheCounted
  <2> QED
    BY <2>1, <2>2
<1>7. misled \subseteq misled' /\ misled' \subseteq Addresses
  BY <1>1
<1>8. \A c, b : /\ Owns(c, b) <=> Owns(c, b)'
                /\ Alone(b) <=> Alone(b)'
                /\ LossIsToCome(c) <=> LossIsToCome(c)'
                /\ GainIsToCome(c) <=> GainIsToCome(c)'
                /\ b # a => (Asked(b) <=> Asked(b)')
  BY DEF Owns, Alone, LossIsToCome, GainIsToCome, Heralded, Notice, Asked
<1>9. \A c, b : /\ LossIsSeen(c, b) <=> LossIsSeen(c, b)'
                /\ b # a => (GainIsSeen(c, b) <=> GainIsSeen(c, b)')
  BY <1>8 DEF LossIsSeen, GainIsSeen
<1>10. ASSUME a \notin misled', NEW c \in Persons
       PROVE  /\ l.found = c /\ ~Owns(c, a) => LossIsToCome(c)
              /\ l.found = Nobody /\ Owns(c, a) => GainIsToCome(c)
  <2>1. ~Contact!Overtaken(a, l.found)
    BY <1>10
  <2>2. c \in Contact!Having(a) <=> Owns(c, a)
    BY DEF Contact!Having, Owns
  <2>3. ASSUME l.found = c, ~Owns(c, a)
        PROVE  LossIsToCome(c)
    <3>1. Contact!Noticed(c) /\ c \in had[a]
      BY <1>1, <2>1, <2>2, <2>3, ContactsAssumption DEF Contact!Overtaken
    <3> QED
      BY <2>3, <3>1, ComesToBeHeard
  <2>4. ASSUME l.found = Nobody, Owns(c, a)
        PROVE  GainIsToCome(c)
    <3>1. Contact!Noticed(c)
      BY <2>1, <2>2, <2>4 DEF Contact!Overtaken
    <3>2. c \in had[a]
      BY <2>4 DEF ContactInv, HadOnce, Owns
    <3> QED
      BY <2>4, <3>1, <3>2, ComesToBeHeard
  <2> QED
    BY <2>3, <2>4
<1>11. CacheFollows'
  <2>1. ASSUME NEW b \in Addresses, b \notin misled', NEW c \in Persons
        PROVE  /\ _contactCache'[b] = c /\ ~Owns(c, b) => LossIsToCome(c)
               /\ _contactCache'[b] = Nobody /\ Owns(c, b) /\ Alone(b) => GainIsToCome(c) \/ Asked(b)'
    <3>1. CASE _contactCache'[b] = Unknown
      BY <3>1, ContactsAssumption
    <3>2. CASE _contactCache'[b] # Unknown /\ b = a
      BY <1>5, <1>10, <2>1, <3>2
    <3>3. CASE _contactCache'[b] # Unknown /\ b # a
      <4>1. _contactCache'[b] = _contactCache[b] /\ b \notin misled
        BY <1>5, <1>7, <2>1, <3>3
      <4>2. /\ _contactCache[b] = c /\ ~Owns(c, b) => LossIsToCome(c)
            /\ _contactCache[b] = Nobody /\ Owns(c, b) /\ Alone(b) => GainIsToCome(c) \/ Asked(b)
        BY <4>1 DEF ContactInv, CacheFollows
      <4> QED
        BY <1>8, <3>3, <4>1, <4>2
    <3> QED
      BY <3>1, <3>2, <3>3
  <2> QED
    BY <1>8, <2>1 DEF CacheFollows
<1>12. InOrder' /\ HeardOf'
  BY DEF ContactInv, InOrder, Ended, Begun, Notice, Heralded, HeardOf
<1>13. \A b \in Addresses : _contactCache'[b] \in Persons => _contactCache'[b] \in had[b]
  BY <1>1, <1>5, ContactsAssumption
<1>14. a \notin misled' => \A c \in Persons :
          /\ l.found = c /\ ~Owns(c, a)' => LossIsSeen(c, a)'
          /\ l.found = Nobody /\ Owns(c, a)' => GainIsSeen(c, a)'
  BY <1>8, <1>10 DEF LossIsSeen, GainIsSeen
<1> QED
  BY <1>1, <1>2, <1>3, <1>5, <1>6, <1>7, <1>8, <1>9, <1>11, <1>12, <1>13, <1>14

LEMMA FoundNobodyHolds ==
    ASSUME ContactInv, NEW l \in lookups, Contact!FoundNobody(l)
    PROVE  ContactInv'
<1>1. PICK a \in Addresses : a = l.address
  BY DEF ContactInv, ContactTypes, ALookup
<1>2. /\ l.found = Nobody /\ lookups' = lookups \ {l} /\ pendingLookupCount' = pendingLookupCount - 1
      /\ callbacks' = IF pendingLookupCount' = 0 THEN 0 ELSE callbacks
      /\ misled' = misled \cup IF Contact!Overtaken(a, l.found) THEN {a} ELSE {}
      /\ UNCHANGED <<book, gone, notices, peep, _livePeepsByEmail, _livePeepsById, refinds, orphans, had, deeds>>
  BY <1>1 DEF Contact!FoundNobody, Contact!peepVars
<1>3. \/ Contact!ResetCache
      \/ /\ _contactCache' = [_contactCache EXCEPT ![a] = l.found]
         /\ _cacheEmptyEntries' = _cacheEmptyEntries + 1 /\ _cacheEmptyEntries + 1 <= MaxEmpty
         /\ UNCHANGED _cacheHitEntries
  <2>1. _cacheEmptyEntries \in Nat /\ MaxEmpty \in Nat
    BY ContactsAssumption DEF ContactInv, ContactTypes
  <2> QED
    BY <1>1, <1>2, <2>1 DEF Contact!FoundNobody
<1>4. l.found # Unknown
  BY <1>2, ContactsAssumption
<1>5. /\ _contactCache' \in [Addresses -> Persons \cup {Nobody, Unknown}]
      /\ _cacheHitEntries' \in 0..MaxHits /\ _cacheEmptyEntries' \in 0..MaxEmpty
      /\ IsFiniteSet(lookups') /\ lookups' \subseteq ALookup /\ misled' \subseteq Addresses
      /\ Cardinality(lookups') \in Nat /\ Cardinality(lookups) = Cardinality(lookups') + 1
      /\ \A j, k \in lookups' : j.n = k.n => j = k
      /\ \A b \in Addresses : _contactCache'[b] \in Persons => _contactCache'[b] \in had[b]
      /\ CacheCounted' /\ CacheFollows' /\ InOrder' /\ HeardOf'
      /\ misled \subseteq misled'
      /\ \A c, b : /\ Owns(c, b) <=> Owns(c, b)'
                   /\ Alone(b) <=> Alone(b)'
                   /\ LossIsSeen(c, b) <=> LossIsSeen(c, b)'
                   /\ b # a => (GainIsSeen(c, b) <=> GainIsSeen(c, b)')
      /\ a \notin misled' => \A c \in Persons : Owns(c, a)' => GainIsSeen(c, a)'
  BY <1>1, <1>2, <1>3, <1>4, Answered
<1>6. callbacks' \in Nat
  BY <1>2 DEF ContactInv, ContactTypes
<1>7. ContactTypes'
  BY <1>2, <1>5, <1>6 DEF ContactInv, ContactTypes
<1>8. Registered'
  BY <1>2 DEF ContactInv, Registered
<1>9. Counted'
  <2>1. pendingLookupCount' = Cardinality(lookups') + orphans
    BY <1>2, <1>5 DEF ContactInv, ContactTypes, Counted
  <2> QED
    BY <1>2, <1>5, <2>1 DEF Counted
<1>10. HadOnce'
  <2>1. /\ \A c \in Persons, b \in Addresses : /\ book[c] # Nobody /\ b \in book[c] => c \in had[b]
                                               /\ c \in had[b] => book[c] # Nobody \/ c \in gone
        /\ \A i \in Slots : peep[i] # Nobody /\ peep[i].contactId # Nobody => peep[i].contactId \in had[peep[i].address]
        /\ \A k \in lookups : k.found \in Persons => k.found \in had[k.address]
        /\ \A r \in refinds : r.found \notin {Nobody, Unknown} => \A b \in r.found : r.id \in had[b]
    BY DEF ContactInv, HadOnce
  <2> QED
    BY <1>2, <1>5, <2>1 DEF HadOnce
<1>11. PeepsFollow'
  <2>1. ASSUME NEW i \in Slots, peep[i] # Nobody
        PROVE  PeepFollows(peep[i])'
    <3>1. PICK p \in APeep : p = peep[i]
      BY <2>1 DEF ContactInv, ContactTypes
    <3>2. PeepFollows(p) /\ p.address \in Addresses
      BY <2>1, <3>1 DEF ContactInv, PeepsFollow, APeep
    <3>3. PeepFollows(p)'
      BY <1>5, <3>2 DEF PeepFollows
    <3> QED
      BY <1>2, <3>1, <3>3
  <2> QED
    BY <1>2, <2>1 DEF PeepsFollow
<1> QED
  BY <1>5, <1>7, <1>8, <1>9, <1>10, <1>11 DEF ContactInv

LEMMA FoundHolds ==
    ASSUME ContactInv, NEW l \in lookups, Contact!Found(l)
    PROVE  ContactInv'
<1>1. PICK a \in Addresses : a = l.address
  BY DEF ContactInv, ContactTypes, ALookup
<1>2. PICK c \in Persons : c = l.found
  BY DEF Contact!Found
<1>3. PICK live \in SUBSET Slots : live = _livePeepsByEmail[a]
  BY DEF ContactInv, ContactTypes
<1>4. /\ lookups' = lookups \ {l}
      /\ IF live = {}
         THEN orphans' = orphans + 1 /\ UNCHANGED <<pendingLookupCount, callbacks>>
         ELSE /\ pendingLookupCount' = pendingLookupCount - 1
              /\ callbacks' = IF pendingLookupCount' = 0 THEN 0 ELSE callbacks
              /\ UNCHANGED orphans
      /\ misled' = misled \cup IF Contact!Overtaken(a, l.found) THEN {a} ELSE {}
      /\ UNCHANGED <<book, gone, notices, _livePeepsByEmail, refinds, had, deeds>>
      /\ Contact!Link(live, live, c)
  BY <1>1, <1>2, <1>3 DEF Contact!Found
<1>5. l.found # Nobody /\ l.found # Unknown
  BY <1>2, ContactsAssumption
<1>6. \/ Contact!ResetCache
      \/ /\ _contactCache' = [_contactCache EXCEPT ![a] = l.found]
         /\ _cacheHitEntries' = _cacheHitEntries + 1 /\ _cacheHitEntries + 1 <= MaxHits
         /\ UNCHANGED _cacheEmptyEntries
  <2>1. _cacheHitEntries \in Nat /\ MaxHits \in Nat
    BY ContactsAssumption DEF ContactInv, ContactTypes
  <2> QED
    BY <1>1, <2>1 DEF Contact!Found
<1>7. /\ _contactCache' \in [Addresses -> Persons \cup {Nobody, Unknown}]
      /\ _cacheHitEntries' \in 0..MaxHits /\ _cacheEmptyEntries' \in 0..MaxEmpty
      /\ IsFiniteSet(lookups') /\ lookups' \subseteq ALookup /\ misled' \subseteq Addresses
      /\ Cardinality(lookups') \in Nat /\ Cardinality(lookups) = Cardinality(lookups') + 1
      /\ \A j, k \in lookups' : j.n = k.n => j = k
      /\ \A b \in Addresses : _contactCache'[b] \in Persons => _contactCache'[b] \in had[b]
      /\ CacheCounted' /\ CacheFollows' /\ InOrder' /\ HeardOf'
      /\ misled \subseteq misled' /\ c \in had[a]
      /\ \A d, b : /\ Owns(d, b) <=> Owns(d, b)'
                   /\ Alone(b) <=> Alone(b)'
                   /\ LossIsSeen(d, b) <=> LossIsSeen(d, b)'
                   /\ b # a => (GainIsSeen(d, b) <=> GainIsSeen(d, b)')
      /\ a \notin misled' /\ ~Owns(c, a)' => LossIsSeen(c, a)'
  BY <1>1, <1>2, <1>4, <1>5, <1>6, Answered
<1>8. /\ \A i \in Slots : /\ i \in live <=> peep[i] # Nobody /\ peep[i].address = a
                          /\ peep[i] # Nobody => peep[i] \in APeep
      /\ \A d \in Persons, i \in Slots : i \in _livePeepsById[d] <=> peep[i] # Nobody /\ peep[i].contactId = d
      /\ c # Nobody
  BY <1>3, ContactsAssumption DEF ContactInv, ContactTypes, Registered
<1>9. /\ peep' = [i \in Slots |-> IF i \notin live THEN peep[i]
                                  ELSE [peep[i] EXCEPT !.contactId = IF i \in {t \in live : peep[t].contactId = Nobody}
                                                                     THEN c ELSE @,
                                                       !.name = IF i \in live THEN c ELSE @]]
      /\ _livePeepsById' = [_livePeepsById EXCEPT ![c] = @ \cup {t \in live : peep[t].contactId = Nobody}]
  BY <1>4 DEF Contact!Link
<1>10. ASSUME NEW i \in Slots
       PROVE  /\ i \notin live => peep'[i] = peep[i]
              /\ i \in live => /\ peep'[i] \in APeep /\ peep'[i] # Nobody /\ peep'[i].address = a /\ peep'[i].name = c
                               /\ peep'[i].contactId = IF peep[i].contactId = Nobody THEN c ELSE peep[i].contactId
  <2>1. CASE i \notin live
    BY <1>9, <2>1
  <2>2. CASE i \in live
    <3>1. PICK p \in APeep : p = peep[i] /\ p.address = a
      BY <1>8, <2>2
    <3>2. PICK d \in Persons \cup {Nobody} : d = IF p.contactId = Nobody THEN c ELSE p.contactId
      BY DEF APeep
    <3>3. peep'[i] = [p EXCEPT !.contactId = d, !.name = c]
      <4>1. CASE p.contactId = Nobody
        BY <1>9, <2>2, <3>1, <3>2, <4>1
      <4>2. CASE p.contactId # Nobody
        BY <1>9, <2>2, <3>1, <3>2, <4>2
      <4> QED
        BY <4>1, <4>2
    <3>4. /\ peep'[i] \in APeep /\ peep'[i].address = a /\ peep'[i].name = c /\ peep'[i].contactId = d
      BY <3>1, <3>3 DEF APeep
    <3> QED
      BY <2>2, <3>1, <3>2, <3>4, APeepIs
  <2> QED
    BY <2>1, <2>2
<1>11. /\ peep' \in [Slots -> APeep \cup {Nobody}]
       /\ _livePeepsById' \in [Persons -> SUBSET Slots]
       /\ \A d \in Persons, i \in Slots : i \in _livePeepsById'[d] <=>
             i \in _livePeepsById[d] \/ (d = c /\ i \in live /\ peep[i].contactId = Nobody)
  <2>1. peep' \in [Slots -> APeep \cup {Nobody}]
    <3> DEFINE made(i) == IF i \notin live THEN peep[i]
                          ELSE [peep[i] EXCEPT !.contactId = IF i \in {t \in live : peep[t].contactId = Nobody}
                                                             THEN c ELSE @,
                                               !.name = IF i \in live THEN c ELSE @]
    <3>1. peep' = [i \in Slots |-> made(i)]
      BY <1>9
    <3> HIDE DEF made
    <3>2. \A i \in Slots : peep'[i] \in APeep \cup {Nobody}
      BY <1>8, <1>10
    <3> QED
      BY <3>1, <3>2
  <2>2. _livePeepsById \in [Persons -> SUBSET Slots]
    BY DEF ContactInv, ContactTypes
  <2> QED
    BY <1>9, <2>1, <2>2
<1>12. ContactTypes'
  <2>1. callbacks' \in Nat /\ orphans' \in Nat
    BY <1>4 DEF ContactInv, ContactTypes
  <2> QED
    BY <1>4, <1>7, <1>11, <2>1 DEF ContactInv, ContactTypes
<1>13. Registered'
  <2>1. ASSUME NEW b \in Addresses
        PROVE  _livePeepsByEmail'[b] = {t \in Slots : peep'[t] # Nobody /\ peep'[t].address = b}
    <3>1. _livePeepsByEmail[b] = {t \in Slots : peep[t] # Nobody /\ peep[t].address = b}
      BY DEF ContactInv, Registered
    <3>2. \A t \in Slots : (peep'[t] # Nobody <=> peep[t] # Nobody) /\ (peep[t] # Nobody => peep'[t].address = peep[t].address)
      BY <1>8, <1>10
    <3> QED
      BY <1>4, <3>1, <3>2
  <2>2. ASSUME NEW d \in Persons
        PROVE  _livePeepsById'[d] = {t \in Slots : peep'[t] # Nobody /\ peep'[t].contactId = d}
    <3>1. ASSUME NEW t \in Slots
          PROVE  t \in _livePeepsById'[d] <=> peep'[t] # Nobody /\ peep'[t].contactId = d
      <4>1. CASE t \in live
        BY <1>8, <1>10, <1>11, <4>1, ContactsAssumption
      <4>2. CASE t \notin live
        BY <1>8, <1>10, <1>11, <4>2
      <4> QED
        BY <4>1, <4>2
    <3>2. _livePeepsById'[d] \subseteq Slots
      BY <1>11
    <3> QED
      BY <3>1, <3>2
  <2> QED
    BY <2>1, <2>2 DEF Registered
<1>14. Counted'
  <2>1. /\ orphans \in Nat /\ pendingLookupCount = Cardinality(lookups) + orphans
        /\ callbacks # 0 => pendingLookupCount # 0
    BY DEF ContactInv, ContactTypes, Counted
  <2>2. pendingLookupCount' = Cardinality(lookups') + orphans'
    BY <1>4, <1>7, <2>1
  <2>3. callbacks' # 0 => pendingLookupCount' # 0
    BY <1>4, <2>1
  <2> QED
    BY <1>7, <2>2, <2>3 DEF Counted
<1>15. HadOnce'
  <2>1. /\ \A d \in Persons, b \in Addresses : /\ book[d] # Nobody /\ b \in book[d] => d \in had[b]
                                               /\ d \in had[b] => book[d] # Nobody \/ d \in gone
        /\ \A i \in Slots : peep[i] # Nobody /\ peep[i].contactId # Nobody => peep[i].contactId \in had[peep[i].address]
        /\ \A k \in lookups : k.found \in Persons => k.found \in had[k.address]
        /\ \A r \in refinds : r.found \notin {Nobody, Unknown} => \A b \in r.found : r.id \in had[b]
    BY DEF ContactInv, HadOnce
  <2>2. \A i \in Slots : peep'[i] # Nobody /\ peep'[i].contactId # Nobody => peep'[i].contactId \in had[peep'[i].address]
    BY <1>7, <1>8, <1>10, <2>1
  <2> QED
    BY <1>4, <1>7, <2>1, <2>2 DEF HadOnce
<1>16. PeepsFollow'
  <2>1. ASSUME NEW i \in Slots, peep'[i] # Nobody
        PROVE  \E q : q = peep'[i] /\ PeepFollows(q)'
    <3>1. CASE i \notin live
      <4>1. PICK p \in APeep : p = peep[i] /\ p.address # a
        BY <1>8, <1>10, <2>1, <3>1
      <4>2. PeepFollows(p) /\ p.address \in Addresses
        BY <1>10, <2>1, <3>1, <4>1 DEF ContactInv, PeepsFollow, APeep
      <4>3. PeepFollows(p)'
        BY <1>7, <4>1, <4>2 DEF PeepFollows
      <4> QED
        BY <1>10, <3>1, <4>1, <4>3
    <3>2. CASE i \in live
      <4>1. PICK p \in APeep : p = peep[i] /\ p.address = a
        BY <1>8, <3>2
      <4>2. PICK q \in APeep : /\ q = peep'[i] /\ q.address = a /\ q.name = c
                               /\ q.contactId = IF p.contactId = Nobody THEN c ELSE p.contactId
        BY <1>10, <3>2, <4>1
      <4>3. PeepFollows(p) /\ (p.contactId # Nobody => p.contactId \in had[a])
        BY <1>8, <3>2, <4>1 DEF ContactInv, PeepsFollow, HadOnce
      <4>4. q.contactId # Nobody /\ q.contactId \in had[a]
        BY <1>7, <1>8, <4>2, <4>3
      <4>5. Alone(a)' => q.name = q.contactId
        <5>1. ASSUME \A d, e \in had[a] : d = e PROVE q.name = q.contactId
          <6>1. q.name = c /\ c \in had[a] /\ q.contactId \in had[a]
            BY <1>7, <4>2, <4>4
          <6> QED
            BY ONLY <5>1, <6>1
        <5>2. Alone(a)' => \A d, e \in had[a] : d = e
          BY <1>7 DEF Alone
        <5> QED
          BY <5>1, <5>2
      <4>6. a \notin misled' => \A d \in Persons : q.contactId = d /\ ~Owns(d, a)' => LossIsSeen(d, a)'
        <5>1. CASE p.contactId = Nobody
          BY <1>7, <4>2, <5>1
        <5>2. CASE p.contactId # Nobody
          BY <1>7, <4>1, <4>2, <4>3, <5>2 DEF PeepFollows
        <5> QED
          BY <5>1, <5>2
      <4>7. PeepFollows(q)'
        BY <4>2, <4>4, <4>5, <4>6 DEF PeepFollows
      <4> QED
        BY <4>2, <4>7
    <3> QED
      BY <3>1, <3>2
  <2> QED
    BY <2>1 DEF PeepsFollow
<1> QED
  BY <1>7, <1>12, <1>13, <1>14, <1>15, <1>16 DEF ContactInv

\* Every step keeps it.
LEMMA ContactStep ==
    ASSUME ContactInv, Contact!ContactNext \/ UNCHANGED contactSide
    PROVE  ContactInv'
<1>1. CASE UNCHANGED contactSide
  <2>1. UNCHANGED <<book, gone, notices, _contactCache, _cacheHitEntries, _cacheEmptyEntries, peep,
                    _livePeepsByEmail, _livePeepsById, lookups, refinds, pendingLookupCount, callbacks,
                    orphans, misled, had, deeds>>
    BY <1>1 DEF contactSide
  <2>2. ContactTypes' /\ Registered' /\ Counted' /\ HadOnce' /\ HeardOf' /\ CacheCounted'
    BY <2>1 DEF ContactInv, ContactTypes, Registered, Counted, HadOnce, HeardOf, Notice, CacheCounted
  <2>3. InOrder'
    BY <2>1 DEF ContactInv, InOrder, Ended, Begun, Notice, Heralded
  <2>4. CacheFollows'
    BY <2>1 DEF ContactInv, CacheFollows, Owns, Alone, LossIsToCome, GainIsToCome, Asked, Heralded, Notice
  <2>5. \A p : PeepFollows(p) => PeepFollows(p)'
    BY <2>1 DEF PeepFollows, LossIsSeen, GainIsSeen, Owns, Alone, LossIsToCome, GainIsToCome, Asked, Heralded, Notice
  <2>6. PeepsFollow'
    BY <2>1, <2>5 DEF ContactInv, PeepsFollow
  <2> QED
    BY <2>2, <2>3, <2>4, <2>6 DEF ContactInv
<1>2. CASE \/ \E c \in Persons : (\E emails \in SUBSET Addresses : Contact!Saves(c, emails)) \/ Contact!Removes(c)
           \/ Contact!RemovesAll
  BY <1>2, BookHolds
<1>3. CASE Contact!Hears
  BY <1>3, HearsOfChange, HearsOfRemoval
<1>4. ASSUME NEW l \in lookups, Contact!Finds(l) \/ Contact!FindFails(l) \/ Contact!Found(l) \/ Contact!FoundNobody(l)
      PROVE  ContactInv'
  BY <1>4, FindsHolds, FindFailsHolds, FoundHolds, FoundNobodyHolds
<1>5. ASSUME NEW r \in refinds, Contact!FindsById(r) \/ Contact!FindByIdFails(r) \/ Contact!Rechecks(r)
      PROVE  ContactInv'
  BY <1>5, FindsByIdHolds, FindByIdFailsHolds, RechecksHolds
<1>6. ASSUME NEW i \in Slots, Contact!Releases(i)
      PROVE  ContactInv'
  BY <1>6, ReleasesHolds
<1>7. CASE \E i \in Slots : \/ \E a \in Addresses : Contact!Shows(i, a) \/ Contact!Asks(i, a)
                            \/ \E t \in Slots : Contact!Updates(i, t)
  BY <1>7, ShownHolds
<1> QED
  BY <1>1, <1>2, <1>3, <1>4, <1>5, <1>6, <1>7 DEF Contact!ContactNext

LEMMA ContactStart ==
    ASSUME Contact!ContactInit
    PROVE  ContactInv
<1>1. /\ book \in [Persons -> {Nobody} \cup {{a} : a \in Addresses}]
      /\ gone = {} /\ notices = << >>
      /\ _contactCache = [a \in Addresses |-> Unknown] /\ _cacheHitEntries = 0 /\ _cacheEmptyEntries = 0
      /\ peep = [i \in Slots |-> Nobody]
      /\ _livePeepsByEmail = [a \in Addresses |-> {}] /\ _livePeepsById = [c \in Persons |-> {}]
      /\ lookups = {} /\ refinds = {} /\ pendingLookupCount = 0 /\ callbacks = 0
      /\ orphans = 0 /\ misled = {} /\ had = [a \in Addresses |-> Contact!Having(a)] /\ deeds = 0
  BY DEF Contact!ContactInit
<1>2. \A a \in Addresses : had[a] = {c \in Persons : book[c] # Nobody /\ a \in book[c]}
  BY <1>1 DEF Contact!Having
<1>3. DOMAIN notices = {} /\ notices \in Seq(ANotice)
  BY <1>1
<1>4. ContactTypes
  <2>1. book \in [Persons -> (SUBSET Addresses) \cup {Nobody}]
    <3>1. {Nobody} \cup {{a} : a \in Addresses} \subseteq (SUBSET Addresses) \cup {Nobody}
      OBVIOUS
    <3> QED
      BY <1>1, <3>1
  <2>2. had \in [Addresses -> SUBSET Persons]
    BY <1>1 DEF Contact!Having
  <2>3. /\ _cacheHitEntries \in 0..MaxHits /\ _cacheEmptyEntries \in 0..MaxEmpty /\ deeds \in 0..MaxDeeds
    BY <1>1, ContactsAssumption
  <2>4. /\ _contactCache \in [Addresses -> Persons \cup {Nobody, Unknown}]
        /\ peep \in [Slots -> APeep \cup {Nobody}]
        /\ _livePeepsByEmail \in [Addresses -> SUBSET Slots]
        /\ _livePeepsById \in [Persons -> SUBSET Slots]
    BY <1>1
  <2>5. /\ IsFiniteSet(lookups) /\ lookups \subseteq ALookup /\ IsFiniteSet(refinds) /\ refinds \subseteq ARefind
        /\ callbacks \in Nat /\ orphans \in Nat /\ misled \subseteq Addresses
        /\ gone \subseteq {c \in Persons : book[c] = Nobody}
    BY <1>1, FS_EmptySet
  <2> QED
    BY <1>3, <2>1, <2>2, <2>3, <2>4, <2>5 DEF ContactTypes
<1>5. Registered
  BY <1>1 DEF Registered
<1>6. Counted
  BY <1>1, FS_EmptySet DEF Counted
<1>7. HadOnce
  BY <1>1, <1>2, ContactsAssumption DEF HadOnce
<1>8. InOrder
  BY <1>3 DEF InOrder, Ended, Begun, Heralded
<1>9. HeardOf /\ CacheCounted /\ CacheFollows /\ PeepsFollow
  BY <1>1, ContactsAssumption DEF HeardOf, CacheCounted, CacheFollows, PeepsFollow
<1> QED
  BY <1>4, <1>5, <1>6, <1>7, <1>8, <1>9 DEF ContactInv

\* Unless several contacts had an address, it has one at most.
LEMMA AloneIs ==
    ASSUME ContactInv, NEW a \in Addresses, a \notin Contact!Shared
    PROVE  Alone(a)
<1>1. IsFiniteSet(had[a])
  BY ContactsAssumption, FS_Subset DEF ContactInv, ContactTypes
<1>2. Cardinality(had[a]) \in Nat /\ ~(Cardinality(had[a]) > 1)
  BY <1>1, FS_CardinalityType, SameCardinality DEF Contact!Shared
<1>3. ASSUME NEW c \in had[a], NEW d \in had[a], c # d
      PROVE  FALSE
  <2>1. PICK one : one = {c}
    OBVIOUS
  <2>2. IsFiniteSet(one) /\ Cardinality(one) = 1 /\ d \notin one
    BY <1>3, <2>1, FS_Singleton
  <2>3. Cardinality(one \cup {d}) = Cardinality(one) + 1
    BY <2>2, FS_AddElement
  <2>4. Cardinality(one \cup {d}) <= Cardinality(had[a])
    BY <1>1, <2>1, FS_Subset
  <2> QED
    BY <1>2, <2>2, <2>3, <2>4
<1> QED
  BY <1>3 DEF Alone

LEMMA ContactTypeOK == ContactInv => Contact!TypeOK
<1> SUFFICES ASSUME ContactInv PROVE Contact!TypeOK
  OBVIOUS
<1>1. /\ book \in [Persons -> (SUBSET Addresses) \cup {Nobody}]
      /\ gone \subseteq {c \in Persons : book[c] = Nobody}
      /\ _contactCache \in [Addresses -> Persons \cup {Nobody, Unknown}]
      /\ _cacheHitEntries \in 0..MaxHits /\ _cacheEmptyEntries \in 0..MaxEmpty
      /\ _livePeepsByEmail \in [Addresses -> SUBSET Slots]
      /\ _livePeepsById \in [Persons -> SUBSET Slots]
      /\ callbacks \in Nat /\ orphans \in Nat
      /\ misled \subseteq Addresses /\ had \in [Addresses -> SUBSET Persons] /\ deeds \in 0..MaxDeeds
  BY DEF ContactInv, ContactTypes
<1>2. notices \in Seq([reason : {"create", "update", "remove"}, id : Persons \cup {Nobody}])
  BY DEF ContactInv, ContactTypes, ANotice
<1>3. peep \in [Slots -> Contact!Peep \cup {Nobody}]
  BY DEF ContactInv, ContactTypes, APeep, Contact!Peep
<1>4. \A l \in lookups : l.address \in Addresses /\ l.found \in Persons \cup {Nobody, Unknown}
  BY DEF ContactInv, ContactTypes, ALookup
<1>5. \A r \in refinds : r.id \in Persons
  BY DEF ContactInv, ContactTypes, ARefind
<1>6. pendingLookupCount \in Nat
  BY FS_CardinalityType DEF ContactInv, ContactTypes, Counted
<1> QED
  BY <1>1, <1>2, <1>3, <1>4, <1>5, <1>6 DEF Contact!TypeOK

\* When all is heard, nothing is to come any more.
LEMMA TrueWhenHeard ==
    ASSUME ContactInv, notices = << >>, lookups = {}, refinds = {}
    PROVE  \A c, a : ~LossIsToCome(c) /\ ~GainIsToCome(c) /\ ~Asked(a) /\ ~LossIsSeen(c, a) /\ ~GainIsSeen(c, a)
<1>1. \A kinds, ids : ~Heralded(kinds, ids)
  BY DEF Heralded
<1> QED
  BY <1>1 DEF LossIsToCome, GainIsToCome, Asked, LossIsSeen, GainIsSeen

LEMMA ContactsTrue == ContactInv => Contact!ContactsAreTrue
<1> SUFFICES ASSUME ContactInv, notices = << >>, lookups = {}, refinds = {}
             PROVE  /\ \A i \in Slots : peep[i] # Nobody /\ peep[i].address \notin misled \cup Contact!Shared =>
                          /\ IF peep[i].contactId = Nobody THEN Contact!Having(peep[i].address) = {}
                             ELSE Contact!Having(peep[i].address) = {peep[i].contactId}
                          /\ peep[i].contactId # Nobody => peep[i].name = peep[i].contactId
                    /\ \A a \in Addresses \ (misled \cup Contact!Shared) :
                          CASE _contactCache[a] = Unknown -> TRUE
                            [] _contactCache[a] = Nobody  -> Contact!Having(a) = {}
                            [] OTHER                      -> Contact!Having(a) = {_contactCache[a]}
  BY DEF Contact!ContactsAreTrue
<1>1. \A c, a : ~LossIsToCome(c) /\ ~GainIsToCome(c) /\ ~Asked(a) /\ ~LossIsSeen(c, a) /\ ~GainIsSeen(c, a)
  BY TrueWhenHeard
<1>2. ASSUME NEW a \in Addresses, a \notin misled \cup Contact!Shared, NEW c \in Persons, c \in had[a], Owns(c, a)
      PROVE  Contact!Having(a) = {c}
  <2>1. \A d \in Contact!Having(a) : d \in had[a]
    BY DEF Contact!Having, ContactInv, HadOnce
  <2>2. c \in Contact!Having(a)
    BY <1>2 DEF Contact!Having, Owns
  <2> QED
    BY <1>2, <2>1, <2>2, AloneIs DEF Alone
<1>3. ASSUME NEW a \in Addresses, a \notin misled \cup Contact!Shared, \A c \in Persons : ~Owns(c, a)
      PROVE  Contact!Having(a) = {}
  BY <1>3 DEF Contact!Having, Owns
<1>4. ASSUME NEW i \in Slots, peep[i] # Nobody, peep[i].address \notin misled \cup Contact!Shared
      PROVE  /\ IF peep[i].contactId = Nobody THEN Contact!Having(peep[i].address) = {}
                ELSE Contact!Having(peep[i].address) = {peep[i].contactId}
             /\ peep[i].contactId # Nobody => peep[i].name = peep[i].contactId
  <2>1. PICK p \in APeep : p = peep[i]
    BY <1>4 DEF ContactInv, ContactTypes
  <2>2. PICK a \in Addresses : a = p.address
    BY DEF APeep
  <2>3. /\ PeepFollows(p) /\ p.contactId \in Persons \cup {Nobody}
        /\ p.contactId # Nobody => p.contactId \in had[a]
    BY <1>4, <2>1, <2>2 DEF ContactInv, PeepsFollow, HadOnce, APeep
  <2>4. Alone(a) /\ a \notin misled
    BY <1>4, <2>1, <2>2, AloneIs
  <2>5. CASE p.contactId = Nobody
    <3>1. \A c \in Persons : ~Owns(c, a)
      BY <1>1, <2>2, <2>3, <2>4, <2>5 DEF PeepFollows
    <3>2. Contact!Having(a) = {}
      BY <1>3, <1>4, <2>1, <2>2, <3>1
    <3> QED
      BY <2>1, <2>2, <2>5, <3>2
  <2>6. CASE p.contactId # Nobody
    <3>1. PICK c \in Persons : c = p.contactId
      BY <2>3, <2>6
    <3>2. Owns(c, a) /\ p.name = p.contactId
      BY <1>1, <2>2, <2>3, <2>4, <2>6, <3>1 DEF PeepFollows
    <3>3. Contact!Having(a) = {c}
      BY <1>2, <1>4, <2>1, <2>2, <2>3, <2>6, <3>1, <3>2
    <3> QED
      BY <2>1, <2>2, <2>6, <3>1, <3>2, <3>3
  <2> QED
    BY <2>5, <2>6
<1>5. ASSUME NEW a \in Addresses, a \notin misled \cup Contact!Shared
      PROVE  CASE _contactCache[a] = Unknown -> TRUE
               [] _contactCache[a] = Nobody  -> Contact!Having(a) = {}
               [] OTHER                      -> Contact!Having(a) = {_contactCache[a]}
  <2>1. Alone(a) /\ a \notin misled /\ _contactCache[a] \in Persons \cup {Nobody, Unknown}
    BY <1>5, AloneIs DEF ContactInv, ContactTypes
  <2>2. CASE _contactCache[a] = Unknown
    BY <2>2, ContactsAssumption
  <2>3. CASE _contactCache[a] = Nobody
    <3>1. \A c \in Persons : ~Owns(c, a)
      BY <1>1, <2>1, <2>3 DEF ContactInv, CacheFollows
    <3>2. Contact!Having(a) = {}
      BY <1>3, <1>5, <3>1
    <3> QED
      BY <2>3, <3>2, ContactsAssumption
  <2>4. CASE _contactCache[a] \in Persons
    <3>1. PICK c \in Persons : c = _contactCache[a]
      BY <2>4
    <3>2. Owns(c, a) /\ c \in had[a]
      BY <1>1, <2>1, <3>1 DEF ContactInv, CacheFollows, HadOnce
    <3>3. Contact!Having(a) = {c}
      BY <1>2, <1>5, <3>2
    <3>4. c # Nobody /\ c # Unknown
      BY ContactsAssumption
    <3> QED
      BY <3>1, <3>3, <3>4
  <2> QED
    BY <2>1, <2>2, <2>3, <2>4
<1> QED
  BY <1>4, <1>5

\* Whom the views show is whom the contacts say, and who waits for names is called (ContactCache).
THEOREM ContactsInStepHolds == AnySpec => []ContactsInStep
<1> DEFINE Inv == part = "contacts" => ContactInv
<1>1. AnyInit => Inv
  <2>1. AnyInit /\ part = "contacts" => Contact!ContactInit
    BY DEF AnyInit
  <2> QED
    BY <2>1, ContactStart
<1>2. Inv /\ [AnyNext]_anyVars => Inv'
  <2>1. SUFFICES ASSUME Inv, [AnyNext]_anyVars, part' = "contacts"
                 PROVE  ContactInv'
    OBVIOUS
  <2>2. part = "contacts" /\ ContactInv /\ (Contact!ContactNext \/ UNCHANGED contactSide)
    BY <2>1 DEF AnyNext, anyVars
  <2> QED
    BY <2>2, ContactStep
<1>3. Inv => ContactsInStep
  <2>1. SUFFICES ASSUME ContactInv
                 PROVE  Contact!RegistriesAgree /\ Contact!CallersAreCalled /\ Contact!ContactsAreTrue
    BY DEF ContactsInStep
  <2>2. Contact!RegistriesAgree
    BY <2>1, ContactTypeOK DEF Contact!RegistriesAgree, ContactInv, Registered
  <2>3. Contact!CallersAreCalled
    BY <2>1, SameCardinality DEF Contact!CallersAreCalled, ContactInv, Counted
  <2> QED
    BY <2>1, <2>2, <2>3, ContactsTrue
<1> QED
  BY <1>1, <1>2, <1>3, PTL DEF AnySpec

-----------------------------------------------------------------------------
(* Drafts and their composers (Compose). *)

AFile    == [relId : Nat, blob : 1..MaxDeeds]
AContent == [parts : Seq(AFile), text : 0..MaxDeeds]
ADraft   == [content : AContent, to : SUBSET People, cc : SUBSET People, bcc : SUBSET People]
OfFiles  == [do : {"attach", "detach"}, part : AFile, text : {0}]
OfText   == [do : {"save", "send", "delete"}, part : {None}, text : 0..MaxDeeds]

ComposeTypes ==
    /\ source \in [to : SUBSET People, cc : SUBSET People, author : People, own : {Me, Alias},
                   mode : {"sender", "all"}]
    /\ draft \in ADraft \cup {None}
    /\ editor \in [Composers -> AContent \cup {None}]
    /\ writing \in Seq(OfText) /\ planning \in Seq(OfFiles \cup OfText)
    /\ attaching \in AFile \cup {None} /\ sent \in AContent \cup {None} /\ meant \in AContent \cup {None}
    /\ edits \in 0..MaxDeeds /\ crashes \in 0..MaxCrashes /\ crowded \in BOOLEAN /\ created \in BOOLEAN

\* It goes to whom the reply was to go to.
Addressed ==
    draft # None => /\ draft.to = Composed!Reply(source).to /\ draft.cc = Composed!Reply(source).cc
                    /\ draft.bcc = Composed!Reply(source).bcc

\* What is encoded is the file of the first task.
Encoded ==
    attaching # None => planning # << >> /\ Head(planning).do = "attach" /\ Head(planning).part = attaching

\* Before the draft there is nothing.
Unmade ==
    ~created => /\ draft = None /\ planning = << >> /\ writing = << >> /\ meant = None /\ sent = None
                /\ \A c \in Composers : editor[c] = None

\* Whatever sends was meant.
SendMeant ==
    (\E i \in DOMAIN planning : planning[i].do = "send") \/ (\E i \in DOMAIN writing : writing[i].do = "send") =>
        meant # None

IdsApart(p) == \A i, j \in DOMAIN p : p[i].relId = p[j].relId => i = j

\* The files q are what the task e makes of p.
Makes(e, p, q) == q = CASE e.do = "attach" -> Append(p, e.part)
                        [] e.do = "detach" -> Composed!Without(p, e.part.relId)
                        [] OTHER           -> p

\* The tasks of the queue make the files p of those of the draft, through h[0], ..., h[n], and never have one id twice.
LeadTo(p) ==
    \E h \in [0..Len(planning) -> Seq(AFile)] :
        /\ h[0] = draft.content.parts /\ h[Len(planning)] = p
        /\ \A i \in 0..Len(planning) : IdsApart(h[i])
        /\ \A i \in 1..Len(planning) : Makes(planning[i], h[i - 1], h[i])

NoSave(q)      == \A i \in DOMAIN q : q[i].do # "save"
LastSave(q, t) == \E i \in DOMAIN q : /\ q[i].do = "save" /\ q[i].text = t
                                      /\ \A j \in DOMAIN q : j > i => q[j].do # "save"

\* The text will be t.
TextToBe(t) ==
    \/ LastSave(writing, t)
    \/ NoSave(writing) /\ LastSave(planning, t)
    \/ NoSave(writing) /\ NoSave(planning) /\ draft.content.text = t

\* The draft will be so.
ToBe(x) == LeadTo(x.parts) /\ TextToBe(x.text)

Ends(e) == e.do \in {"send", "delete"}

\* The only composer is open on a draft that nothing ends.
OneOpen ==
    \A c \in Composers : editor[c] # None =>
        /\ draft # None /\ meant = None
        /\ \A i \in DOMAIN planning : ~Ends(planning[i])
        /\ \A i \in DOMAIN writing : ~Ends(writing[i])
        /\ \A d \in Composers : editor[d] # None => d = c

\* Nothing comes after what sends.
SendsLast ==
    /\ \A i \in DOMAIN planning : planning[i].do = "send" => i = Len(planning) /\ writing = << >>
    /\ \A i \in DOMAIN writing : writing[i].do = "send" => i = Len(writing)

Ways ==
    draft # None =>
        /\ \E p \in Seq(AFile) : LeadTo(p)
        /\ \A c \in Composers : editor[c] # None => ToBe(editor[c])

\* What was meant is on its way, or was sent.
Sending ==
    crashes = 0 => /\ SendsLast
                   /\ draft # None /\ meant # None => ToBe(meant)
                   /\ sent # None => sent = meant

DraftInv ==
    /\ ComposeTypes /\ Addressed /\ Encoded /\ Unmade /\ SendMeant
    /\ ~crowded => OneOpen /\ Ways /\ Sending

\* What a concatenation is, place by place.
LEMMA Concatenation ==
    ASSUME NEW S, NEW q \in Seq(S), NEW r \in Seq(S)
    PROVE  /\ q \o r \in Seq(S) /\ Len(q \o r) = Len(q) + Len(r)
           /\ \A j \in 1..(Len(q) + Len(r)) :
                 (q \o r)[j] = IF j <= Len(q) THEN q[j] ELSE r[j - Len(q)]
OBVIOUS

\* What RemoveAt returns, place by place.
LEMMA Removal ==
    ASSUME NEW S, NEW q \in Seq(S), NEW k \in DOMAIN q
    PROVE  /\ Composed!RemoveAt(q, k) \in Seq(S)
           /\ Len(Composed!RemoveAt(q, k)) = Len(q) - 1
           /\ \A j \in 1..(Len(q) - 1) :
                 Composed!RemoveAt(q, k)[j] = IF j < k THEN q[j] ELSE q[j + 1]
<1> DEFINE a == SubSeq(q, 1, k - 1)  z == SubSeq(q, k + 1, Len(q))
<1>1. a \in Seq(S) /\ Len(a) = k - 1 /\ \A j \in 1..(k - 1) : a[j] = q[j]
  OBVIOUS
<1>2. z \in Seq(S) /\ Len(z) = Len(q) - k /\ \A j \in 1..(Len(q) - k) : z[j] = q[j + k]
  OBVIOUS
<1>3. Composed!RemoveAt(q, k) = a \o z
  BY DEF Composed!RemoveAt
<1> HIDE DEF a, z
<1>4. k \in 1..Len(q) /\ Len(q) \in Nat
  OBVIOUS
<1>5. /\ a \o z \in Seq(S) /\ Len(a \o z) = Len(q) - 1
      /\ \A j \in 1..(Len(q) - 1) : (a \o z)[j] = IF j <= k - 1 THEN a[j] ELSE z[j - (k - 1)]
  <2>1. Len(a) + Len(z) = Len(q) - 1 /\ Len(a) = k - 1
    BY <1>1, <1>2, <1>4
  <2>2. /\ a \o z \in Seq(S) /\ Len(a \o z) = Len(a) + Len(z)
        /\ \A j \in 1..(Len(a) + Len(z)) :
              (a \o z)[j] = IF j <= Len(a) THEN a[j] ELSE z[j - Len(a)]
    BY <1>1, <1>2, Concatenation
  <2>3. ASSUME NEW j \in 1..(Len(q) - 1)
        PROVE  (a \o z)[j] = IF j <= k - 1 THEN a[j] ELSE z[j - (k - 1)]
    BY ONLY <2>1, <2>2
  <2> QED
    BY <2>1, <2>2, <2>3
<1>6. ASSUME NEW j \in 1..(Len(q) - 1), j >= k PROVE z[j - (k - 1)] = q[j + 1]
  <2>1. j - (k - 1) \in 1..(Len(q) - k) /\ (j - (k - 1)) + k = j + 1
    BY <1>4, <1>6
  <2> QED
    BY <1>2, <2>1
<1> QED
  BY <1>1, <1>3, <1>4, <1>5, <1>6

\* A file is added under an id that is free.
LEMMA AttachedApart ==
    ASSUME NEW p \in Seq(AFile), IdsApart(p), NEW f \in AFile, \A i \in DOMAIN p : p[i].relId # f.relId
    PROVE  Append(p, f) \in Seq(AFile) /\ IdsApart(Append(p, f))
<1>1. /\ Append(p, f) \in Seq(AFile) /\ Len(p) \in Nat
      /\ DOMAIN Append(p, f) = 1..(Len(p) + 1) /\ DOMAIN p = 1..Len(p)
      /\ \A i \in 1..Len(p) : Append(p, f)[i] = p[i]
      /\ Append(p, f)[Len(p) + 1] = f
  BY Appending
<1> QED
  BY <1>1 DEF IdsApart

\* A file is taken out by its place, or by its id.
LEMMA DetachedApart ==
    ASSUME NEW p \in Seq(AFile), IdsApart(p), NEW k \in DOMAIN p
    PROVE  /\ Composed!RemoveAt(p, k) \in Seq(AFile) /\ IdsApart(Composed!RemoveAt(p, k))
           /\ Composed!Without(p, p[k].relId) = Composed!RemoveAt(p, k)
<1>1. /\ Composed!RemoveAt(p, k) \in Seq(AFile) /\ Len(p) \in Nat /\ DOMAIN p = 1..Len(p) /\ k \in 1..Len(p)
      /\ Len(Composed!RemoveAt(p, k)) = Len(p) - 1
      /\ \A j \in 1..(Len(p) - 1) : Composed!RemoveAt(p, k)[j] = IF j < k THEN p[j] ELSE p[j + 1]
  <2>1. Len(p) \in Nat /\ DOMAIN p = 1..Len(p) /\ k \in 1..Len(p)
    OBVIOUS
  <2> QED
    BY <2>1, Removal
<1>2. IdsApart(Composed!RemoveAt(p, k))
  <2>1. DOMAIN Composed!RemoveAt(p, k) = 1..(Len(p) - 1)
    BY <1>1
  <2>2. ASSUME NEW i \in 1..(Len(p) - 1), NEW j \in 1..(Len(p) - 1),
               Composed!RemoveAt(p, k)[i].relId = Composed!RemoveAt(p, k)[j].relId
        PROVE  i = j
    <3>1. PICK m \in DOMAIN p : m = (IF i < k THEN i ELSE i + 1) /\ Composed!RemoveAt(p, k)[i] = p[m]
      BY <1>1
    <3>2. PICK n \in DOMAIN p : n = (IF j < k THEN j ELSE j + 1) /\ Composed!RemoveAt(p, k)[j] = p[n]
      BY <1>1
    <3>3. m = n
      BY <2>2, <3>1, <3>2 DEF IdsApart
    <3> QED
      BY <1>1, <3>1, <3>2, <3>3
  <2> QED
    BY <2>1, <2>2 DEF IdsApart
<1>3. {i \in DOMAIN p : p[i].relId = p[k].relId} = {k}
  BY DEF IdsApart
<1>4. Composed!Min({k}) = k
  BY <1>1 DEF Composed!Min
<1>5. p[k].relId \in Composed!IdsOf(p)
  BY DEF Composed!IdsOf
<1>6. Composed!Without(p, p[k].relId) = Composed!RemoveAt(p, k)
  BY <1>3, <1>4, <1>5, Zenon DEF Composed!Without
<1> QED
  BY SMTT(30), <1>1, <1>2, <1>6

\* The last save, when a task is added or the first one is taken.
LEMMA SaveAdded ==
    ASSUME NEW S, NEW q \in Seq(S), NEW e \in S
    PROVE  /\ e.do = "save" => LastSave(Append(q, e), e.text)
           /\ e.do # "save" => /\ \A t : LastSave(q, t) => LastSave(Append(q, e), t)
                               /\ NoSave(q) => NoSave(Append(q, e))
<1>1. /\ Append(q, e) \in Seq(S) /\ Len(q) \in Nat
      /\ DOMAIN Append(q, e) = 1..(Len(q) + 1) /\ DOMAIN q = 1..Len(q)
      /\ \A i \in 1..Len(q) : Append(q, e)[i] = q[i]
      /\ Append(q, e)[Len(q) + 1] = e
  BY Appending
<1>2. ASSUME e.do = "save"
      PROVE  LastSave(Append(q, e), e.text)
  <2>1. PICK n \in DOMAIN Append(q, e) : n = Len(q) + 1 /\ \A j \in DOMAIN Append(q, e) : ~(j > n)
    BY <1>1
  <2> QED
    BY <1>1, <1>2, <2>1 DEF LastSave
<1>3. ASSUME e.do # "save", NEW t, LastSave(q, t)
      PROVE  LastSave(Append(q, e), t)
  BY <1>1, <1>3 DEF LastSave
<1>4. ASSUME e.do # "save", NoSave(q)
      PROVE  NoSave(Append(q, e))
  BY <1>1, <1>4 DEF NoSave
<1> QED
  BY <1>2, <1>3, <1>4

LEMMA SaveTaken ==
    ASSUME NEW S, NEW q \in Seq(S), q # << >>
    PROVE  /\ \A t : LastSave(q, t) => \/ LastSave(Tail(q), t)
                                       \/ NoSave(Tail(q)) /\ Head(q).do = "save" /\ Head(q).text = t
           /\ NoSave(q) => NoSave(Tail(q)) /\ Head(q).do # "save"
<1>1. /\ Tail(q) \in Seq(S) /\ Len(q) \in Nat \ {0}
      /\ DOMAIN Tail(q) = 1..(Len(q) - 1) /\ DOMAIN q = 1..Len(q)
      /\ \A i \in 1..(Len(q) - 1) : Tail(q)[i] = q[i + 1]
      /\ Head(q) = q[1]
  BY Shifting
<1>2. ASSUME NEW t, LastSave(q, t)
      PROVE  LastSave(Tail(q), t) \/ (NoSave(Tail(q)) /\ Head(q).do = "save" /\ Head(q).text = t)
  <2>1. PICK i \in 1..Len(q) : q[i].do = "save" /\ q[i].text = t /\ \A j \in DOMAIN q : j > i => q[j].do # "save"
    BY <1>1, <1>2 DEF LastSave
  <2>2. CASE i = 1
    BY <1>1, <2>1, <2>2 DEF NoSave
  <2>3. CASE i # 1
    <3>0. i - 1 \in 1..(Len(q) - 1)
      BY <1>1, <2>3
    <3>1. PICK k \in 1..(Len(q) - 1) : k = i - 1 /\ k \in DOMAIN Tail(q) /\ Tail(q)[k] = q[i]
      BY <1>1, <3>0
    <3>2. \A j \in DOMAIN Tail(q) : j > k => Tail(q)[j].do # "save"
      BY <1>1, <2>1, <3>1
    <3> QED
      BY <2>1, <3>1, <3>2 DEF LastSave
  <2> QED
    BY <2>2, <2>3
<1>3. ASSUME NoSave(q)
      PROVE  NoSave(Tail(q)) /\ Head(q).do # "save"
  BY <1>1, <1>3 DEF NoSave
<1> QED
  BY <1>2, <1>3

\* None is nothing of these.
LEMMA AnAttachment ==
    /\ \A f \in AFile : f # None
    /\ \A x \in AContent : x # None
    /\ \A d \in ADraft : d # None
<1> DEFINE file == [relId : Nat, blob : Nat]
           content == [parts : Seq(file), text : Nat]
           whole == [content : content, to : SUBSET People, cc : SUBSET People, bcc : SUBSET People]
<1>1. None \notin file /\ None \notin content /\ None \notin whole
  BY DraftsAssumption
<1>2. MaxDeeds \in Nat /\ 1..MaxDeeds \subseteq Nat /\ 0..MaxDeeds \subseteq Nat
  BY DraftsAssumption
<1>3. AFile \subseteq file
  BY <1>2 DEF AFile
<1> HIDE DEF file
<1>4. ASSUME NEW q \in Seq(AFile) PROVE q \in Seq(file)
  BY <1>3
<1>5. AContent \subseteq content
  BY <1>2, <1>4 DEF AContent
<1> HIDE DEF content
<1>6. ADraft \subseteq whole
  BY <1>5 DEF ADraft
<1> QED
  BY <1>1, <1>3, <1>5, <1>6

\* A task is added to the queue.
LEMMA LeadsFurther ==
    ASSUME ComposeTypes, NEW p \in Seq(AFile), LeadTo(p), NEW e \in OfFiles \cup OfText,
           NEW q \in Seq(AFile), Makes(e, p, q), IdsApart(q),
           planning' = Append(planning, e), draft' = draft
    PROVE  LeadTo(q)'
<1>1. PICK n \in Nat : n = Len(planning)
  BY DEF ComposeTypes
<1>2. /\ DOMAIN planning' = 1..(n + 1) /\ Len(planning') = n + 1
      /\ \A i \in 1..n : planning'[i] = planning[i]
      /\ planning'[n + 1] = e
  BY <1>1, Appending DEF ComposeTypes
<1>3. PICK h \in [0..n -> Seq(AFile)] :
        /\ h[0] = draft.content.parts /\ h[n] = p
        /\ \A i \in 0..n : IdsApart(h[i])
        /\ \A i \in 1..n : Makes(planning[i], h[i - 1], h[i])
  BY <1>1 DEF LeadTo
<1> DEFINE g == [i \in 0..(n + 1) |-> IF i = n + 1 THEN q ELSE h[i]]
<1>4. g \in [0..(n + 1) -> Seq(AFile)]
  BY <1>3
<1>5. g[n + 1] = q /\ \A i \in 0..n : g[i] = h[i]
  BY <1>1
<1> HIDE DEF g
<1>6. \A i \in 0..(n + 1) : IdsApart(g[i])
  BY <1>3, <1>5
<1>7. ASSUME NEW i \in 1..(n + 1)
      PROVE  Makes(planning'[i], g[i - 1], g[i])
  <2>1. CASE i = n + 1
    <3>1. g[i - 1] = p /\ g[i] = q /\ planning'[i] = e
      BY <1>2, <1>3, <1>5, <2>1
    <3> QED
      BY <3>1
  <2>2. CASE i # n + 1
    <3>1. i \in 1..n /\ i - 1 \in 0..n /\ i \in 0..n
      BY <2>2
    <3> QED
      BY <1>2, <1>3, <1>5, <3>1
  <2> QED
    BY <2>1, <2>2
<1>8. g[0] = draft'.content.parts
  BY <1>3, <1>5
<1> QED
  BY <1>2, <1>4, <1>5, <1>6, <1>7, <1>8 DEF LeadTo

\* The first task is carried out.
LEMMA LeadsOn ==
    ASSUME ComposeTypes, NEW p \in Seq(AFile), LeadTo(p), planning # << >>, planning' = Tail(planning),
           Makes(Head(planning), draft.content.parts, draft'.content.parts)
    PROVE  LeadTo(p)'
<1>1. PICK n \in Nat : n + 1 = Len(planning) /\ n = Len(planning')
  <2>1. Len(planning) \in Nat \ {0} /\ Len(planning') = Len(planning) - 1
    BY Shifting DEF ComposeTypes
  <2>2. PICK n \in Nat : n = Len(planning) - 1
    <3>1. Len(planning) - 1 \in Nat
      BY <2>1
    <3> QED
      BY <3>1
  <2>3. n + 1 = Len(planning) /\ n = Len(planning')
    BY <2>1, <2>2
  <2> QED
    BY <2>2, <2>3
<1>2. /\ \A i \in 1..n : planning'[i] = planning[i + 1]
      /\ Head(planning) = planning[1]
  BY <1>1, Shifting DEF ComposeTypes
<1>3. PICK h \in [0..(n + 1) -> Seq(AFile)] :
        /\ h[0] = draft.content.parts /\ h[n + 1] = p
        /\ \A i \in 0..(n + 1) : IdsApart(h[i])
        /\ \A i \in 1..(n + 1) : Makes(planning[i], h[i - 1], h[i])
  BY <1>1 DEF LeadTo
<1> DEFINE g == [i \in 0..n |-> h[i + 1]]
<1>4. g \in [0..n -> Seq(AFile)]
  BY <1>3
<1>5. \A i \in 0..n : g[i] = h[i + 1] /\ i + 1 \in 0..(n + 1)
  OBVIOUS
<1> HIDE DEF g
<1>6. \A i \in 0..n : IdsApart(g[i])
  BY <1>3, <1>5
<1>7. ASSUME NEW i \in 1..n
      PROVE  Makes(planning'[i], g[i - 1], g[i])
  <2>1. i - 1 \in 0..n /\ i \in 0..n /\ i + 1 \in 1..(n + 1) /\ (i - 1) + 1 = i /\ (i + 1) - 1 = i
    OBVIOUS
  <2>2. g[i - 1] = h[i] /\ g[i] = h[i + 1]
    BY <1>5, <2>1
  <2>3. Makes(planning[i + 1], h[(i + 1) - 1], h[i + 1])
    BY <1>3, <2>1
  <2> QED
    BY <1>2, <2>1, <2>2, <2>3
<1>8. g[0] = draft'.content.parts /\ g[n] = p
  <2>1. Makes(planning[1], h[0], h[1])
    <3>1. 1 \in 1..(n + 1) /\ 1 - 1 = 0
      OBVIOUS
    <3> QED
      BY <1>3, <3>1
  <2>2. h[1] = draft'.content.parts
    BY <1>2, <1>3, <2>1 DEF Makes
  <2> QED
    BY <1>3, <1>5, <2>2
<1> QED
  BY <1>1, <1>4, <1>6, <1>7, <1>8 DEF LeadTo

\* No task is about files.
LEMMA LeadsNowhere ==
    ASSUME NEW n \in Nat, Len(planning') = n, \A i \in 1..n : planning'[i].do \notin {"attach", "detach"},
           draft'.content.parts \in Seq(AFile), IdsApart(draft'.content.parts)
    PROVE  LeadTo(draft.content.parts)'
<1> DEFINE p == draft'.content.parts
           g == [i \in 0..n |-> p]
<1>1. g \in [0..n -> Seq(AFile)] /\ \A i \in 0..n : g[i] = p
  OBVIOUS
<1>2. p = draft'.content.parts /\ IdsApart(p)
  OBVIOUS
<1> HIDE DEF g, p
<1>3. \A i \in 1..n : Makes(planning'[i], g[i - 1], g[i])
  BY <1>1 DEF Makes
<1>4. /\ g[0] = draft'.content.parts /\ g[n] = draft'.content.parts
      /\ \A i \in 0..n : IdsApart(g[i])
      /\ \A i \in 1..n : Makes(planning'[i], g[i - 1], g[i])
  BY <1>1, <1>2, <1>3
<1> QED
  BY <1>1, <1>4 DEF LeadTo

\* What the files of the draft are now.
LEMMA LeadsFromHere ==
    ASSUME ComposeTypes, NEW p \in Seq(AFile), LeadTo(p)
    PROVE  IdsApart(draft.content.parts) /\ (planning = << >> => draft.content.parts = p)
<1>1. Len(planning) \in Nat /\ (planning = << >> => Len(planning) = 0) /\ 0 \in 0..Len(planning)
  BY DEF ComposeTypes
<1> QED
  BY <1>1 DEF LeadTo

\* The text, when a task moves on.
LEMMA TextLater ==
    ASSUME ComposeTypes, NEW t, TextToBe(t),
           \/ /\ draft' = draft /\ writing' = writing
              /\ \E e \in OfFiles : planning' = Append(planning, e)
           \/ /\ draft' = draft /\ writing # << >>
              /\ planning' = Append(planning, Head(writing)) /\ writing' = Tail(writing)
           \/ /\ writing' = writing /\ planning # << >> /\ planning' = Tail(planning)
              /\ draft'.content.text = IF Head(planning).do = "save" THEN Head(planning).text ELSE draft.content.text
    PROVE  TextToBe(t)'
<1>0. writing \in Seq(OfText) /\ planning \in Seq(OfFiles \cup OfText)
  BY DEF ComposeTypes
<1>1. ASSUME draft' = draft, writing' = writing, NEW e \in OfFiles, planning' = Append(planning, e)
      PROVE  TextToBe(t)'
  <2>1. e.do # "save"
    BY DEF OfFiles
  <2>2. /\ \A u : LastSave(planning, u) => LastSave(Append(planning, e), u)
        /\ NoSave(planning) => NoSave(Append(planning, e))
    BY <1>0, <2>1, SaveAdded
  <2> QED
    BY <1>1, <2>2 DEF TextToBe
<1>2. ASSUME draft' = draft, writing # << >>, planning' = Append(planning, Head(writing)), writing' = Tail(writing)
      PROVE  TextToBe(t)'
  <2>1. PICK e \in OfText : e = Head(writing)
    BY <1>0, <1>2, Shifting
  <2>2. /\ e.do = "save" => LastSave(Append(planning, e), e.text)
        /\ e.do # "save" => /\ \A u : LastSave(planning, u) => LastSave(Append(planning, e), u)
                            /\ NoSave(planning) => NoSave(Append(planning, e))
    BY <1>0, SaveAdded
  <2>3. /\ \A u : LastSave(writing, u) => LastSave(Tail(writing), u)
                                          \/ (NoSave(Tail(writing)) /\ e.do = "save" /\ e.text = u)
        /\ NoSave(writing) => NoSave(Tail(writing)) /\ e.do # "save"
    BY <1>0, <1>2, <2>1, SaveTaken
  <2> QED
    BY <1>2, <2>1, <2>2, <2>3 DEF TextToBe
<1>3. ASSUME writing' = writing, planning # << >>, planning' = Tail(planning),
             draft'.content.text = IF Head(planning).do = "save" THEN Head(planning).text ELSE draft.content.text
      PROVE  TextToBe(t)'
  <2>1. /\ \A u : LastSave(planning, u) => LastSave(Tail(planning), u)
                       \/ (NoSave(Tail(planning)) /\ Head(planning).do = "save" /\ Head(planning).text = u)
        /\ NoSave(planning) => NoSave(Tail(planning)) /\ Head(planning).do # "save"
    BY <1>0, <1>3, SaveTaken
  <2> QED
    BY <1>3, <2>1 DEF TextToBe
<1> QED
  BY <1>1, <1>2, <1>3

\* Neither the queue nor the draft changes.
LEMMA SameWay ==
    ASSUME planning' = planning, draft' = draft
    PROVE  \A p : LeadTo(p)' <=> LeadTo(p)
BY DEF LeadTo

\* An id that is free is nobody's.
LEMMA FreeIdIs ==
    ASSUME NEW p \in Seq(AFile), NEW id \in Composed!FreeIds(p)
    PROVE  id \in Nat /\ \A i \in DOMAIN p : p[i].relId # id
<1> DEFINE n == Len(p)  likely == {n, n + 1} \ Composed!IdsOf(p)
<1>1. n \in Nat
  OBVIOUS
<1>2. id \notin Composed!IdsOf(p) /\ id \in Nat
  <2>1. CASE likely # {}
    <3>1. Composed!FreeIds(p) = {Composed!Min(likely)}
      BY <2>1 DEF Composed!FreeIds
    <3>2. PICK x \in likely : \A y \in likely : x <= y
      <4>1. CASE n \in likely
        BY <1>1, <4>1
      <4>2. CASE n \notin likely
        <5>1. n + 1 \in likely /\ \A y \in likely : y = n + 1
          BY <2>1, <4>2
        <5> QED
          BY <1>1, <5>1
      <4> QED
        BY <4>1, <4>2
    <3>3. Composed!Min(likely) \in likely
      BY <3>2 DEF Composed!Min
    <3> QED
      BY <1>1, <3>1, <3>3
  <2>2. CASE likely = {}
    <3>1. id \in {m \in n..(2 * n + 1) : m \notin Composed!IdsOf(p)}
      BY <2>2 DEF Composed!FreeIds
    <3> QED
      BY <1>1, <3>1
  <2> QED
    BY <2>1, <2>2
<1> QED
  BY <1>2 DEF Composed!IdsOf

\* A set of naturals has a least element.
LEMMA Least ==
    ASSUME NEW S \in SUBSET Nat, S # {}
    PROVE  \E k \in S : \A m \in S : k <= m
<1> DEFINE R == {ss \in Nat \X Nat : ss[1] < ss[2]}
<1>1. IsWellFoundedOn(R, Nat)
  BY NatLessThanWellFounded DEF OpToRel
<1>2. \E x \in S : \A y \in S : ~ (<<y, x>> \in R)
  BY <1>1, WFMin
<1>3. \A x, y \in Nat : <<y, x>> \in R <=> y < x
  OBVIOUS
<1> HIDE DEF R
<1>4. PICK x \in S : \A y \in S : ~(y < x)
  BY <1>2, <1>3
<1> QED
  BY <1>4
\* What is taken out by its id leaves files.
LEMMA WithoutIs ==
    ASSUME NEW p \in Seq(AFile), NEW id
    PROVE  Composed!Without(p, id) \in Seq(AFile)
<1>1. CASE id \notin Composed!IdsOf(p)
  BY <1>1 DEF Composed!Without
<1>2. CASE id \in Composed!IdsOf(p)
  <2> DEFINE S == {i \in DOMAIN p : p[i].relId = id}
  <2>1. S # {} /\ S \subseteq Nat
    BY <1>2 DEF Composed!IdsOf
  <2>2. PICK k \in S : \A m \in S : k <= m
    <3> HIDE DEF S
    <3> QED
      BY <2>1, Least
  <2>3. Composed!Min(S) \in S
    BY <2>2 DEF Composed!Min
  <2>4. Composed!Without(p, id) = Composed!RemoveAt(p, Composed!Min(S))
    BY <1>2 DEF Composed!Without
  <2> QED
    BY <2>3, <2>4, Removal
<1> QED
  BY <1>1, <1>2

\* What an update of a record leaves.
LEMMA ContentIs ==
    ASSUME NEW x \in AContent
    PROVE  /\ x.parts \in Seq(AFile) /\ x.text \in 0..MaxDeeds /\ x # None
           /\ \A q \in Seq(AFile) : /\ [x EXCEPT !.parts = q] \in AContent
                                    /\ [x EXCEPT !.parts = q].parts = q /\ [x EXCEPT !.parts = q].text = x.text
           /\ \A t \in 0..MaxDeeds : /\ [x EXCEPT !.text = t] \in AContent
                                     /\ [x EXCEPT !.text = t].text = t /\ [x EXCEPT !.text = t].parts = x.parts
           /\ \A y \in AContent : x.parts = y.parts /\ x.text = y.text => x = y
<1>1. x # None
  BY AnAttachment
<1> DEFINE Files == Seq(AFile)
<1> HIDE DEF Files
<1>2. PICK q0 \in Files : \E t0 \in 0..MaxDeeds : x = [parts |-> q0, text |-> t0]
  <2>1. x \in [parts : Files, text : 0..MaxDeeds]
    BY DEF AContent, Files
  <2> QED
    BY <2>1
<1>3. PICK t0 \in 0..MaxDeeds : x = [parts |-> q0, text |-> t0]
  BY <1>2
<1>4. AContent = [parts : Files, text : 0..MaxDeeds]
  BY DEF AContent, Files
<1>5. x.parts \in Files /\ x.text \in 0..MaxDeeds
  BY <1>3
<1>6. ASSUME NEW q \in Files
      PROVE  [x EXCEPT !.parts = q] \in AContent /\ [x EXCEPT !.parts = q].parts = q /\ [x EXCEPT !.parts = q].text = x.text
  BY <1>3, <1>4
<1>7. ASSUME NEW t \in 0..MaxDeeds
      PROVE  [x EXCEPT !.text = t] \in AContent /\ [x EXCEPT !.text = t].text = t /\ [x EXCEPT !.text = t].parts = x.parts
  BY <1>3, <1>4
<1>8. ASSUME NEW y \in AContent, x.parts = y.parts, x.text = y.text
      PROVE  x = y
  <2>1. y \in [parts : Files, text : 0..MaxDeeds]
    BY <1>4
  <2>2. PICK q1 \in Files, t1 \in 0..MaxDeeds : y = [parts |-> q1, text |-> t1]
    BY <2>1
  <2> QED
    BY <1>3, <1>8, <2>2
<1> QED
  BY <1>1, <1>5, <1>6, <1>7, <1>8 DEF Files

LEMMA DraftIs ==
    ASSUME NEW d \in ADraft
    PROVE  /\ d.content \in AContent /\ d # None
           /\ \A q \in Seq(AFile) : /\ [d EXCEPT !.content.parts = q] \in ADraft
                                    /\ [d EXCEPT !.content.parts = q].content = [d.content EXCEPT !.parts = q]
                                    /\ [d EXCEPT !.content.parts = q].to = d.to
                                    /\ [d EXCEPT !.content.parts = q].cc = d.cc /\ [d EXCEPT !.content.parts = q].bcc = d.bcc
           /\ \A t \in 0..MaxDeeds : /\ [d EXCEPT !.content.text = t] \in ADraft
                                     /\ [d EXCEPT !.content.text = t].content = [d.content EXCEPT !.text = t]
                                     /\ [d EXCEPT !.content.text = t].to = d.to
                                     /\ [d EXCEPT !.content.text = t].cc = d.cc /\ [d EXCEPT !.content.text = t].bcc = d.bcc
<1>1. d # None
  BY AnAttachment
<1> DEFINE Contents == AContent  Groups == SUBSET People
<1>2. d \in [content : Contents, to : Groups, cc : Groups, bcc : Groups]
  BY DEF ADraft
<1>3. \A e \in Contents : [content |-> e, to |-> d.to, cc |-> d.cc, bcc |-> d.bcc] \in ADraft
  BY <1>2 DEF ADraft
<1>4. d.content \in AContent
  BY <1>2
<1>5. ASSUME NEW q \in Seq(AFile)
      PROVE  /\ [d EXCEPT !.content.parts = q] \in ADraft
             /\ [d EXCEPT !.content.parts = q].content = [d.content EXCEPT !.parts = q]
             /\ [d EXCEPT !.content.parts = q].to = d.to
             /\ [d EXCEPT !.content.parts = q].cc = d.cc /\ [d EXCEPT !.content.parts = q].bcc = d.bcc
  <2>1. PICK e \in AContent : e = [d.content EXCEPT !.parts = q]
    BY <1>4, ContentIs
  <2> HIDE DEF Contents, Groups
  <2>2. [d EXCEPT !.content.parts = q] = [content |-> e, to |-> d.to, cc |-> d.cc, bcc |-> d.bcc]
    BY <1>2, <2>1
  <2> QED
    BY <1>3, <2>1, <2>2 DEF Contents
<1>6. ASSUME NEW t \in 0..MaxDeeds
      PROVE  /\ [d EXCEPT !.content.text = t] \in ADraft
             /\ [d EXCEPT !.content.text = t].content = [d.content EXCEPT !.text = t]
             /\ [d EXCEPT !.content.text = t].to = d.to
             /\ [d EXCEPT !.content.text = t].cc = d.cc /\ [d EXCEPT !.content.text = t].bcc = d.bcc
  <2>1. PICK e \in AContent : e = [d.content EXCEPT !.text = t]
    BY <1>4, ContentIs
  <2> HIDE DEF Contents, Groups
  <2>2. [d EXCEPT !.content.text = t] = [content |-> e, to |-> d.to, cc |-> d.cc, bcc |-> d.bcc]
    BY <1>2, <2>1
  <2> QED
    BY <1>3, <2>1, <2>2 DEF Contents
<1> QED
  BY <1>1, <1>4, <1>5, <1>6

\* resumeMessageComposition.
LEMMA OpensHolds ==
    ASSUME DraftInv, NEW c \in Composers, Composed!Opens(c)
    PROVE  DraftInv'
<1>1. /\ draft # None /\ editor[c] = None /\ meant = None
      /\ editor' = [editor EXCEPT ![c] = draft.content]
      /\ crowded' = (crowded \/ writing # << >> \/ planning # << >> \/ \E d \in Composers : editor[d] # None)
      /\ UNCHANGED <<source, created, draft, writing, planning, attaching, sent, edits, crashes, meant>>
  BY DEF Composed!Opens
<1>2. ComposeTypes /\ draft.content \in AContent
  BY <1>1, DraftIs DEF DraftInv, ComposeTypes
<1>3. editor' \in [Composers -> AContent \cup {None}] /\ editor'[c] = draft.content
      /\ \A d \in Composers \ {c} : editor'[d] = editor[d]
  BY <1>1, <1>2 DEF ComposeTypes
<1>4. ComposeTypes'
  BY <1>1, <1>2, <1>3 DEF ComposeTypes
<1>5. Addressed' /\ Encoded' /\ Unmade' /\ SendMeant'
  BY <1>1 DEF DraftInv, Addressed, Encoded, Unmade, SendMeant
<1>6. ASSUME ~crowded'
      PROVE  OneOpen' /\ Ways' /\ Sending'
  <2>1. /\ ~crowded /\ writing = << >> /\ planning = << >> /\ \A d \in Composers : editor[d] = None
    BY <1>1, <1>2, <1>6 DEF ComposeTypes
  <2>2. OneOpen'
    BY <1>1, <1>3, <2>1 DEF OneOpen
  <2>3. PICK p \in Seq(AFile) : LeadTo(p)
    BY <1>1, <2>1 DEF DraftInv, Ways
  <2>4. p = draft.content.parts
    BY <1>2, <2>1, <2>3, LeadsFromHere
  <2>5. LeadTo(p)'
    BY <1>1, <2>3, SameWay
  <2>6. ASSUME NEW d \in Composers, editor'[d] # None
        PROVE  ToBe(editor[d])'
    <3>0. PICK t : t = draft.content.text
      OBVIOUS
    <3>1. editor'[d] = draft.content /\ editor'[d].parts = p /\ editor'[d].text = t
      BY <1>3, <2>1, <2>4, <2>6, <3>0
    <3>2. NoSave(writing)' /\ NoSave(planning)' /\ draft'.content.text = t
      BY <1>1, <2>1, <3>0 DEF NoSave
    <3>3. TextToBe(t)'
      BY <3>2 DEF TextToBe
    <3> QED
      BY <2>5, <3>1, <3>3 DEF ToBe
  <2>7. Ways'
    BY <2>3, <2>5, <2>6 DEF Ways
  <2>8. Sending'
    <3>1. SendsLast'
      BY <1>1, <2>1 DEF SendsLast
    <3> QED
      BY <1>1, <2>1, <3>1 DEF DraftInv, Sending
  <2> QED
    BY <2>2, <2>7, <2>8
<1> QED
  BY <1>4, <1>5, <1>6 DEF DraftInv

\* A task about files is scheduled by a composer, and says what the composer did.
LEMMA Scheduled ==
    ASSUME DraftInv, NEW c \in Composers, editor[c] # None, NEW e \in OfFiles, NEW x \in AContent,
           x.text = editor[c].text,
           IdsApart(editor[c].parts) => IdsApart(x.parts) /\ Makes(e, editor[c].parts, x.parts),
           editor' = [editor EXCEPT ![c] = x], planning' = Append(planning, e), edits' \in 0..MaxDeeds,
           UNCHANGED <<source, created, draft, writing, attaching, sent, crashes, crowded, meant>>
    PROVE  DraftInv'
<1>1. ComposeTypes
  BY DEF DraftInv
<1>2. /\ planning' \in Seq(OfFiles \cup OfText) /\ planning' # << >>
      /\ DOMAIN planning' = 1..(Len(planning) + 1) /\ DOMAIN planning = 1..Len(planning) /\ Len(planning) \in Nat
      /\ \A i \in 1..Len(planning) : planning'[i] = planning[i]
      /\ planning'[Len(planning) + 1] = e
  <2>1. planning \in Seq(OfFiles \cup OfText) /\ e \in OfFiles \cup OfText
    BY <1>1 DEF ComposeTypes
  <2>2. /\ planning' \in Seq(OfFiles \cup OfText) /\ Len(planning') = Len(planning) + 1
        /\ DOMAIN planning' = 1..(Len(planning) + 1) /\ DOMAIN planning = 1..Len(planning) /\ Len(planning) \in Nat
        /\ \A i \in 1..Len(planning) : planning'[i] = planning[i]
        /\ planning'[Len(planning) + 1] = e
    BY <2>1, Appending
  <2>3. planning' # << >>
    BY <2>2
  <2> QED
    BY <2>2, <2>3
<1>3. editor' \in [Composers -> AContent \cup {None}] /\ editor'[c] = x
      /\ \A d \in Composers \ {c} : editor'[d] = editor[d]
  BY <1>1 DEF ComposeTypes
<1>4. ComposeTypes'
  BY <1>1, <1>2, <1>3 DEF ComposeTypes
<1>5. planning # << >> => Head(planning') = Head(planning)
  BY <1>1, <1>2 DEF ComposeTypes
<1>6. e.do \notin {"save", "send", "delete"}
  BY DEF OfFiles
<1>7. Addressed' /\ Encoded' /\ Unmade'
  BY <1>2, <1>5 DEF DraftInv, Addressed, Encoded, Unmade
<1>8. SendMeant'
  BY <1>2, <1>6 DEF DraftInv, SendMeant
<1>9. ASSUME ~crowded'
      PROVE  OneOpen' /\ Ways' /\ Sending'
  <2>1. ~crowded /\ OneOpen /\ Ways /\ Sending
    BY <1>9 DEF DraftInv
  <2>2. /\ draft # None /\ meant = None
        /\ \A i \in DOMAIN planning : ~Ends(planning[i])
        /\ \A i \in DOMAIN writing : ~Ends(writing[i])
        /\ \A d \in Composers : editor[d] # None => d = c
    BY <2>1 DEF OneOpen
  <2>3. \A i \in DOMAIN planning' : ~Ends(planning'[i])
    BY <1>2, <1>6, <2>2 DEF Ends
  <2>4. \A d \in Composers : editor'[d] # None => d = c
    BY <1>3, <2>2
  <2>5. OneOpen'
    BY <2>2, <2>3, <2>4 DEF OneOpen
  <2>6. LeadTo(editor[c].parts) /\ TextToBe(editor[c].text) /\ editor[c] \in AContent
    BY <1>1, <2>1, <2>2 DEF Ways, ToBe, ComposeTypes
  <2> DEFINE p == editor[c].parts
  <2>7. p \in Seq(AFile) /\ IdsApart(p)
    <3>1. p \in Seq(AFile)
      BY <2>6, ContentIs
    <3>2. Len(planning) \in 0..Len(planning)
      BY <1>2
    <3> QED
      BY <2>6, <3>1, <3>2 DEF LeadTo
  <2>8. IdsApart(x.parts) /\ Makes(e, p, x.parts) /\ x.parts \in Seq(AFile)
    BY <2>1, <2>7, ContentIs
  <2>9. PICK q \in Seq(AFile), r \in Seq(AFile) : q = p /\ r = x.parts
    BY <2>7, <2>8
  <2>10. LeadTo(r)'
    BY <1>1, <2>6, <2>8, <2>9, LeadsFurther
  <2>11. PICK t : t = x.text
    OBVIOUS
  <2>12. TextToBe(t)'
    BY <1>1, <2>6, <2>11, TextLater
  <2>13. ToBe(editor[c])'
    BY <1>3, <2>9, <2>10, <2>11, <2>12 DEF ToBe
  <2>14. Ways'
    BY <2>4, <2>9, <2>10, <2>13 DEF Ways
  <2>15. Sending'
    <3>1. SendsLast'
      BY <2>2, <2>3 DEF SendsLast, Ends
    <3> QED
      BY <2>1, <2>2, <3>1 DEF Sending
  <2> QED
    BY <2>5, <2>14, <2>15
<1> QED
  BY <1>4, <1>7, <1>8, <1>9 DEF DraftInv

\* addAttachment.
LEMMA AttachesHolds ==
    ASSUME DraftInv, NEW c \in Composers, Composed!Attaches(c)
    PROVE  DraftInv'
<1>1. PICK id \in Composed!FreeIds(editor[c].parts) :
        /\ editor' = [editor EXCEPT ![c].parts = Append(@, [relId |-> id, blob |-> edits'])]
        /\ planning' = Append(planning, [do |-> "attach", part |-> [relId |-> id, blob |-> edits'], text |-> 0])
  BY DEF Composed!Attaches, Composed!Schedule
<1>2. /\ editor[c] # None /\ edits < MaxDeeds /\ edits' = edits + 1
      /\ UNCHANGED <<source, created, draft, writing, attaching, sent, crashes, crowded, meant>>
  BY DEF Composed!Attaches, Composed!Does
<1>3. /\ editor \in [Composers -> AContent \cup {None}] /\ editor[c] \in AContent
      /\ edits \in 0..MaxDeeds /\ MaxDeeds \in Nat
  BY <1>2, DraftsAssumption DEF DraftInv, ComposeTypes
<1>4. edits' \in 1..MaxDeeds /\ edits' \in 0..MaxDeeds
  BY <1>2, <1>3
<1>5. editor[c].parts \in Seq(AFile)
  BY <1>3, ContentIs
<1>6. id \in Nat /\ \A i \in DOMAIN editor[c].parts : editor[c].parts[i].relId # id
  BY <1>1, <1>5, FreeIdIs
<1>7. PICK f \in AFile : f = [relId |-> id, blob |-> edits']
  BY <1>4, <1>6 DEF AFile
<1>8. PICK e \in OfFiles : e = [do |-> "attach", part |-> f, text |-> 0]
  BY DEF OfFiles
<1>9. PICK q \in Seq(AFile) : q = Append(editor[c].parts, f)
  <2>1. Append(editor[c].parts, f) \in Seq(AFile)
    BY <1>5
  <2> QED
    BY <2>1
<1>10. PICK x \in AContent : x = [editor[c] EXCEPT !.parts = q] /\ x.parts = q /\ x.text = editor[c].text
  <2>1. /\ [editor[c] EXCEPT !.parts = q] \in AContent
        /\ [editor[c] EXCEPT !.parts = q].parts = q /\ [editor[c] EXCEPT !.parts = q].text = editor[c].text
    BY <1>3, ContentIs
  <2> QED
    BY <2>1
<1>11. editor' = [editor EXCEPT ![c] = x] /\ planning' = Append(planning, e)
  BY <1>1, <1>3, <1>7, <1>8, <1>9, <1>10
<1>12. IdsApart(editor[c].parts) => IdsApart(q)
  BY <1>5, <1>6, <1>7, <1>9, AttachedApart
<1>13. Makes(e, editor[c].parts, q)
  BY <1>8, <1>9 DEF Makes
<1> QED
  BY <1>2, <1>4, <1>10, <1>11, <1>12, <1>13, Scheduled

\* removeAttachment.
LEMMA DetachesHolds ==
    ASSUME DraftInv, NEW c \in Composers, Composed!Detaches(c)
    PROVE  DraftInv'
<1>1. PICK k \in DOMAIN editor[c].parts :
        /\ editor' = [editor EXCEPT ![c].parts = Composed!RemoveAt(@, k)]
        /\ planning' = Append(planning, [do |-> "detach", part |-> editor[c].parts[k], text |-> 0])
  BY DEF Composed!Detaches, Composed!Schedule
<1>2. /\ editor[c] # None /\ edits < MaxDeeds /\ edits' = edits + 1
      /\ UNCHANGED <<source, created, draft, writing, attaching, sent, crashes, crowded, meant>>
  BY DEF Composed!Detaches, Composed!Does
<1>3. /\ editor \in [Composers -> AContent \cup {None}] /\ editor[c] \in AContent
      /\ edits \in 0..MaxDeeds /\ MaxDeeds \in Nat
  BY <1>2, DraftsAssumption DEF DraftInv, ComposeTypes
<1>4. edits' \in 0..MaxDeeds
  BY <1>2, <1>3
<1>5. editor[c].parts \in Seq(AFile)
  BY <1>3, ContentIs
<1>6. PICK f \in AFile : f = editor[c].parts[k]
  BY <1>5
<1>7. PICK e \in OfFiles : e = [do |-> "detach", part |-> f, text |-> 0]
  BY DEF OfFiles
<1>8. PICK q \in Seq(AFile) : q = Composed!RemoveAt(editor[c].parts, k)
  BY <1>5, Removal
<1>9. PICK x \in AContent : x = [editor[c] EXCEPT !.parts = q] /\ x.parts = q /\ x.text = editor[c].text
  <2>1. /\ [editor[c] EXCEPT !.parts = q] \in AContent
        /\ [editor[c] EXCEPT !.parts = q].parts = q /\ [editor[c] EXCEPT !.parts = q].text = editor[c].text
    BY <1>3, ContentIs
  <2> QED
    BY <2>1
<1>10. editor' = [editor EXCEPT ![c] = x] /\ planning' = Append(planning, e)
  BY <1>1, <1>3, <1>6, <1>7, <1>8, <1>9
<1>11. IdsApart(editor[c].parts) => IdsApart(q) /\ Composed!Without(editor[c].parts, f.relId) = q
  BY <1>5, <1>6, <1>8, DetachedApart
<1>12. IdsApart(editor[c].parts) => Makes(e, editor[c].parts, q)
  BY <1>7, <1>11 DEF Makes
<1> QED
  BY <1>2, <1>4, <1>9, <1>10, <1>11, <1>12, Scheduled

\* saveDraft, finishCompositionSendMessage.
LEMMA FinishesHolds ==
    ASSUME DraftInv, NEW c \in Composers, NEW send \in BOOLEAN, Composed!Finishes(c, send)
    PROVE  DraftInv'
<1>1. /\ editor[c] # None /\ edits < MaxDeeds /\ edits' = edits + 1
      /\ UNCHANGED <<source, created, draft, planning, attaching, sent, crashes, crowded>>
  BY DEF Composed!Finishes, Composed!Does
<1>2. /\ ComposeTypes /\ editor \in [Composers -> AContent \cup {None}] /\ editor[c] \in AContent
      /\ edits \in 0..MaxDeeds /\ MaxDeeds \in Nat /\ writing \in Seq(OfText)
  BY <1>1, DraftsAssumption DEF DraftInv, ComposeTypes
<1>3. PICK t \in 0..MaxDeeds : t = edits'
  <2>1. edits' \in 0..MaxDeeds
    BY <1>1, <1>2
  <2> QED
    BY <2>1
<1>4. PICK s \in OfText : s = [do |-> "save", part |-> None, text |-> t]
  BY DEF OfText
<1>5. PICK z \in OfText : z = [do |-> "send", part |-> None, text |-> t]
  BY DEF OfText
<1>6. PICK now \in AContent : now = [editor[c] EXCEPT !.text = t] /\ now.text = t /\ now.parts = editor[c].parts
  <2>1. /\ [editor[c] EXCEPT !.text = t] \in AContent
        /\ [editor[c] EXCEPT !.text = t].text = t /\ [editor[c] EXCEPT !.text = t].parts = editor[c].parts
    BY <1>2, ContentIs
  <2> QED
    BY <2>1
<1>7. /\ writing' = (writing \o <<s>>) \o (IF send THEN <<z>> ELSE << >>)
      /\ editor' = [editor EXCEPT ![c] = IF send THEN None ELSE now]
      /\ meant' = IF send THEN now ELSE meant
  <2>1. [s EXCEPT !.do = "send"] = z
    BY <1>4, <1>5
  <2> QED
    BY <1>3, <1>4, <1>6, <2>1 DEF Composed!Finishes
<1>8. PICK w \in Seq(OfText) : w = Append(writing, s) /\ w = writing \o <<s>>
  <2>1. Append(writing, s) = writing \o <<s>> /\ Append(writing, s) \in Seq(OfText)
    BY <1>2
  <2> QED
    BY <2>1
<1>9. writing' = IF send THEN Append(w, z) ELSE w
  <2>1. w \o <<z>> = Append(w, z) /\ w \o << >> = w
    OBVIOUS
  <2> QED
    BY <1>7, <1>8, <2>1
<1>10. /\ Len(writing) \in Nat /\ DOMAIN writing = 1..Len(writing)
       /\ Len(w) = Len(writing) + 1 /\ DOMAIN w = 1..(Len(writing) + 1)
       /\ \A i \in 1..Len(writing) : w[i] = writing[i]
       /\ w[Len(writing) + 1] = s
  BY <1>2, <1>8, Appending
<1>11. /\ Append(w, z) \in Seq(OfText) /\ Len(Append(w, z)) = Len(w) + 1 /\ DOMAIN Append(w, z) = 1..(Len(w) + 1)
       /\ \A i \in 1..Len(w) : Append(w, z)[i] = w[i]
       /\ Append(w, z)[Len(w) + 1] = z
  BY Appending
<1>12. /\ editor' \in [Composers -> AContent \cup {None}]
       /\ editor'[c] = (IF send THEN None ELSE now)
       /\ \A d \in Composers \ {c} : editor'[d] = editor[d]
  BY <1>2, <1>7
<1>13. ComposeTypes'
  <2>1. writing' \in Seq(OfText) /\ meant' \in AContent \cup {None}
    BY <1>2, <1>7, <1>9, <1>11 DEF ComposeTypes
  <2> QED
    BY <1>1, <1>2, <1>3, <1>12, <2>1 DEF ComposeTypes
<1>14. Addressed' /\ Encoded' /\ Unmade'
  BY <1>1 DEF DraftInv, Addressed, Encoded, Unmade
<1>15. now # None
  BY ContentIs
<1>16. ~send => \A i \in DOMAIN writing' : writing'[i].do = "save" \/ (i \in DOMAIN writing /\ writing'[i] = writing[i])
  <2>1. \A i \in DOMAIN w : w[i].do = "save" \/ (i \in DOMAIN writing /\ w[i] = writing[i])
    BY <1>4, <1>10
  <2> QED
    BY <1>9, <2>1
<1>17. SendMeant'
  BY <1>1, <1>7, <1>15, <1>16 DEF DraftInv, SendMeant
<1>18. ASSUME ~crowded'
       PROVE  OneOpen' /\ Ways' /\ Sending'
  <2>1. ~crowded /\ OneOpen /\ Ways /\ Sending
    BY <1>1, <1>18 DEF DraftInv
  <2>2. /\ draft # None /\ meant = None
        /\ \A i \in DOMAIN planning : ~Ends(planning[i])
        /\ \A i \in DOMAIN writing : ~Ends(writing[i])
        /\ \A d \in Composers : editor[d] # None => d = c
    BY <1>1, <2>1 DEF OneOpen
  <2>3. \A d \in Composers : editor'[d] # None => d = c /\ ~send
    BY <1>12, <2>2
  <2>4. ~send => \A i \in DOMAIN writing' : ~Ends(writing'[i])
    BY <1>16, <2>2 DEF Ends
  <2>5. OneOpen'
    BY <1>1, <1>7, <2>2, <2>3, <2>4 DEF OneOpen
  <2>6. PICK p \in Seq(AFile) : p = now.parts
    BY ContentIs
  <2>7. LeadTo(p)'
    <3>1. LeadTo(p)
      BY <1>1, <1>6, <2>1, <2>2, <2>6 DEF Ways, ToBe
    <3> QED
      BY <1>1, <3>1, SameWay
  <2>8. LastSave(writing', t)
    <3>1. LastSave(w, t)
      <4>1. s.do = "save" /\ s.text = t
        BY <1>4
      <4>2. LastSave(Append(writing, s), s.text)
        BY <1>2, <4>1, SaveAdded
      <4> QED
        BY <1>8, <4>1, <4>2
    <3>2. LastSave(Append(w, z), t)
      <4>1. z.do # "save"
        BY <1>5
      <4> QED
        BY <3>1, <4>1, SaveAdded
    <3> QED
      BY <1>9, <3>1, <3>2
  <2>9. TextToBe(t)'
    BY <2>8 DEF TextToBe, LastSave
  <2>10. ToBe(now)'
    BY <1>6, <2>6, <2>7, <2>9 DEF ToBe
  <2>11. ASSUME NEW d \in Composers, editor'[d] # None
         PROVE  ToBe(editor[d])'
    <3>1. editor'[d] = now
      BY <1>12, <2>3, <2>11
    <3> QED
      BY <2>10, <3>1
  <2>12. Ways'
    BY <2>6, <2>7, <2>11 DEF Ways
  <2>13. ASSUME crashes' = 0
         PROVE  SendsLast' /\ (draft' # None /\ meant' # None => ToBe(meant)') /\ (sent' # None => sent' = meant')
    <3>1. sent = None
      BY <1>1, <2>1, <2>2, <2>13 DEF Sending
    <3>2. meant' # None => meant' = now
      BY <1>7, <2>2
    <3>3. meant' # None => ToBe(meant)'
      BY <2>10, <3>2
    <3>4. \A i \in DOMAIN planning' : planning'[i].do # "send"
      BY <1>1, <2>2 DEF Ends
    <3>5. \A i \in DOMAIN writing' : writing'[i].do = "send" => i = Len(writing')
      <4>1. CASE ~send
        BY <2>4, <4>1 DEF Ends
      <4>2. CASE send
        <5>1. \A i \in DOMAIN w : w[i].do # "send"
          BY <1>4, <1>10, <2>2 DEF Ends
        <5>2. Len(w) \in Nat /\ DOMAIN w = 1..Len(w)
          BY <1>10
        <5>3. ASSUME NEW i \in DOMAIN Append(w, z), Append(w, z)[i].do = "send"
              PROVE  i = Len(w) + 1
          <6>1. i \in 1..(Len(w) + 1)
            BY <1>11
          <6>2. i \notin 1..Len(w)
            BY <1>11, <5>1, <5>2, <5>3
          <6> QED
            BY <5>2, <6>1, <6>2
        <5> QED
          BY <1>9, <1>11, <4>2, <5>3
      <4> QED
        BY <4>1, <4>2
    <3> QED
      BY <1>1, <3>1, <3>3, <3>4, <3>5 DEF SendsLast
  <2> QED
    BY <2>5, <2>12, <2>13 DEF Sending
<1> QED
  BY <1>13, <1>14, <1>17, <1>18 DEF DraftInv

\* abortCompositionDeleteDraft.
LEMMA AbortsHolds ==
    ASSUME DraftInv, NEW c \in Composers, Composed!Aborts(c)
    PROVE  DraftInv'
<1>1. /\ editor[c] # None /\ edits < MaxDeeds /\ edits' = edits + 1
      /\ editor' = [editor EXCEPT ![c] = None]
      /\ UNCHANGED <<source, created, draft, planning, attaching, sent, crashes, crowded, meant>>
  BY DEF Composed!Aborts, Composed!Does
<1>2. /\ ComposeTypes /\ editor \in [Composers -> AContent \cup {None}]
      /\ edits \in 0..MaxDeeds /\ MaxDeeds \in Nat /\ writing \in Seq(OfText)
  BY <1>1, DraftsAssumption DEF DraftInv, ComposeTypes
<1>3. PICK e \in OfText : e = [do |-> "delete", part |-> None, text |-> 0] /\ writing' = Append(writing, e)
  <2>1. [do |-> "delete", part |-> None, text |-> 0] \in OfText
    BY <1>2 DEF OfText
  <2> QED
    BY <2>1 DEF Composed!Aborts
<1>4. /\ writing' \in Seq(OfText) /\ Len(writing) \in Nat /\ DOMAIN writing = 1..Len(writing)
      /\ DOMAIN writing' = 1..(Len(writing) + 1)
      /\ \A i \in 1..Len(writing) : writing'[i] = writing[i]
      /\ writing'[Len(writing) + 1] = e
  BY <1>2, <1>3, Appending
<1>5. /\ editor' \in [Composers -> AContent \cup {None}] /\ editor'[c] = None
      /\ \A d \in Composers \ {c} : editor'[d] = editor[d]
  BY <1>1, <1>2
<1>6. edits' \in 0..MaxDeeds
  BY <1>1, <1>2
<1>7. ComposeTypes'
  BY <1>1, <1>2, <1>4, <1>5, <1>6 DEF ComposeTypes
<1>8. Addressed' /\ Encoded' /\ Unmade'
  BY <1>1 DEF DraftInv, Addressed, Encoded, Unmade
<1>9. \A i \in DOMAIN writing' : writing'[i].do = "send" => i \in DOMAIN writing /\ writing[i].do = "send"
  BY <1>3, <1>4
<1>10. SendMeant'
  BY <1>1, <1>9 DEF DraftInv, SendMeant
<1>11. ASSUME ~crowded'
       PROVE  OneOpen' /\ Ways' /\ Sending'
  <2>1. ~crowded /\ OneOpen /\ Ways /\ Sending
    BY <1>1, <1>11 DEF DraftInv
  <2>2. /\ draft # None /\ meant = None
        /\ \A i \in DOMAIN planning : ~Ends(planning[i])
        /\ \A i \in DOMAIN writing : ~Ends(writing[i])
        /\ \A d \in Composers : editor[d] # None => d = c
    BY <1>1, <2>1 DEF OneOpen
  <2>3. \A d \in Composers : editor'[d] = None
    BY <1>5, <2>2
  <2>4. OneOpen'
    BY <2>3 DEF OneOpen
  <2>5. Ways'
    <3>1. PICK p \in Seq(AFile) : LeadTo(p)
      BY <2>1, <2>2 DEF Ways
    <3>2. LeadTo(p)'
      BY <1>1, <3>1, SameWay
    <3> QED
      BY <2>3, <3>2 DEF Ways
  <2>6. Sending'
    <3>1. SendsLast'
      BY <1>1, <1>9, <2>2 DEF SendsLast, Ends
    <3> QED
      BY <1>1, <2>1, <2>2, <3>1 DEF Sending
  <2> QED
    BY <2>4, <2>5, <2>6
<1> QED
  BY <1>7, <1>8, <1>10, <1>11 DEF DraftInv

\* A task gets from the database to the queue.
LEMMA WrittenHolds ==
    ASSUME DraftInv, Composed!Written
    PROVE  DraftInv'
<1>1. /\ writing # << >> /\ planning' = Append(planning, Head(writing)) /\ writing' = Tail(writing)
      /\ UNCHANGED <<source, created, draft, editor, attaching, sent, edits, crashes, crowded, meant>>
  BY DEF Composed!Written
<1>2. ComposeTypes /\ planning \in Seq(OfFiles \cup OfText) /\ writing \in Seq(OfText)
  BY DEF DraftInv, ComposeTypes
<1>3. /\ writing' \in Seq(OfText) /\ Len(writing') = Len(writing) - 1 /\ Len(writing) \in Nat \ {0}
      /\ DOMAIN writing' = 1..(Len(writing) - 1) /\ DOMAIN writing = 1..Len(writing)
      /\ \A i \in 1..(Len(writing) - 1) : writing'[i] = writing[i + 1]
      /\ Head(writing) = writing[1] /\ Head(writing) \in OfText
  BY <1>1, <1>2, Shifting
<1>4. PICK e \in OfText : e = Head(writing) /\ e = writing[1]
  BY <1>3
<1>5. /\ planning' \in Seq(OfFiles \cup OfText) /\ Len(planning') = Len(planning) + 1
      /\ DOMAIN planning' = 1..(Len(planning) + 1) /\ DOMAIN planning = 1..Len(planning) /\ Len(planning) \in Nat
      /\ \A i \in 1..Len(planning) : planning'[i] = planning[i]
      /\ planning'[Len(planning) + 1] = e
  <2>1. e \in OfFiles \cup OfText /\ planning' = Append(planning, e)
    BY <1>1, <1>4
  <2> QED
    BY <1>2, <2>1, Appending
<1>6. planning # << >> => planning' # << >> /\ Head(planning') = Head(planning)
  BY <1>2, <1>5
<1>7. ComposeTypes'
  BY <1>1, <1>2, <1>3, <1>5 DEF ComposeTypes
<1>8. Addressed' /\ Encoded'
  BY <1>1, <1>6 DEF DraftInv, Addressed, Encoded
<1>9. Unmade'
  BY <1>1 DEF DraftInv, Unmade
<1>10. /\ 1 \in DOMAIN writing
       /\ \A i \in DOMAIN writing' : i + 1 \in DOMAIN writing /\ writing'[i] = writing[i + 1]
       /\ \A i \in DOMAIN planning' : \/ i \in DOMAIN planning /\ planning'[i] = planning[i]
                                      \/ i = Len(planning') /\ planning'[i] = writing[1]
  BY <1>3, <1>4, <1>5
<1>11. SendMeant'
  BY <1>1, <1>10 DEF DraftInv, SendMeant
<1>12. ASSUME ~crowded'
       PROVE  OneOpen' /\ Ways' /\ Sending'
  <2>1. ~crowded /\ OneOpen /\ Ways /\ Sending
    BY <1>1, <1>12 DEF DraftInv
  <2>2. OneOpen'
    <3>1. ASSUME NEW c \in Composers, editor[c] # None
          PROVE  /\ \A i \in DOMAIN planning' : ~Ends(planning'[i])
                 /\ \A i \in DOMAIN writing' : ~Ends(writing'[i])
      <4>1. /\ \A i \in DOMAIN planning : ~Ends(planning[i])
            /\ \A i \in DOMAIN writing : ~Ends(writing[i])
        BY <2>1, <3>1 DEF OneOpen
      <4> QED
        BY <1>10, <4>1
    <3> QED
      BY <1>1, <2>1, <3>1 DEF OneOpen
  <2>3. \A p \in Seq(AFile) : LeadTo(p) => LeadTo(p)'
    <3>1. SUFFICES ASSUME NEW p \in Seq(AFile), LeadTo(p) PROVE LeadTo(p)'
      OBVIOUS
    <3>2. IdsApart(p)
      BY <1>5, <3>1 DEF LeadTo
    <3>3. Makes(e, p, p)
      BY DEF Makes, OfText
    <3> QED
      BY <1>1, <1>2, <1>4, <3>1, <3>2, <3>3, LeadsFurther
  <2>4. ASSUME NEW t, TextToBe(t)
        PROVE  TextToBe(t)'
    BY <1>1, <1>2, <2>4, TextLater
  <2>5. ASSUME NEW x \in AContent, ToBe(x)
        PROVE  ToBe(x)'
    <3>1. x.parts \in Seq(AFile)
      BY ContentIs
    <3> QED
      BY <2>3, <2>4, <2>5, <3>1 DEF ToBe
  <2>6. Ways'
    <3>1. ASSUME NEW c \in Composers, editor'[c] # None, draft' # None
          PROVE  ToBe(editor[c])'
      <4>1. PICK x \in AContent : x = editor[c] /\ x = editor'[c]
        BY <1>1, <1>2, <3>1 DEF ComposeTypes
      <4>2. ToBe(x)
        BY <1>1, <2>1, <3>1, <4>1 DEF Ways
      <4>3. ToBe(x)'
        BY <2>5, <4>2
      <4> QED
        BY <4>1, <4>3
    <3> QED
      BY <1>1, <2>1, <2>3, <3>1 DEF Ways
  <2>7. Sending'
    <3>1. ASSUME crashes = 0
          PROVE  SendsLast'
      <4>0. SendsLast
        BY <2>1, <3>1 DEF Sending
      <4>1. ASSUME NEW i \in DOMAIN planning', planning'[i].do = "send"
            PROVE  i = Len(planning') /\ writing' = << >>
        <5>1. writing[1].do = "send" /\ i = Len(planning')
          BY <1>1, <1>10, <4>0, <4>1 DEF SendsLast
        <5>2. Len(writing) = 1
          BY <1>10, <4>0, <5>1 DEF SendsLast
        <5> QED
          BY <1>3, <5>1, <5>2
      <4>2. ASSUME NEW i \in DOMAIN writing', writing'[i].do = "send"
            PROVE  i = Len(writing')
        <5>1. i + 1 = Len(writing) /\ i \in Nat
          BY <1>3, <1>10, <4>0, <4>2 DEF SendsLast
        <5> QED
          BY <1>3, <5>1
      <4> QED
        BY <4>1, <4>2 DEF SendsLast
    <3>2. ASSUME crashes = 0, draft # None, meant # None
          PROVE  ToBe(meant)'
      <4>1. PICK x \in AContent : x = meant /\ x = meant'
        BY <1>1, <1>2, <3>2 DEF ComposeTypes
      <4>2. ToBe(x)
        BY <2>1, <3>2, <4>1 DEF Sending
      <4>3. ToBe(x)'
        BY <2>5, <4>2
      <4> QED
        BY <4>1, <4>3
    <3> QED
      BY <1>1, <2>1, <3>1, <3>2 DEF Sending
  <2> QED
    BY <2>2, <2>6, <2>7
<1> QED
  BY <1>7, <1>8, <1>9, <1>11, <1>12 DEF DraftInv

\* draft_attach begins.
LEMMA EncodesHolds ==
    ASSUME DraftInv, Composed!Encodes
    PROVE  DraftInv'
<1>1. /\ planning # << >> /\ Head(planning).do = "attach" /\ attaching' = Head(planning).part
      /\ UNCHANGED <<source, created, draft, editor, writing, planning, sent, edits, crashes, crowded, meant>>
  BY DEF Composed!Encodes
<1>2. ComposeTypes
  BY DEF DraftInv
<1>3. Head(planning).part \in AFile
  <2>1. Head(planning) \in OfFiles \cup OfText
    BY <1>1, <1>2, Shifting DEF ComposeTypes
  <2> QED
    BY <1>1, <2>1 DEF OfFiles, OfText
<1>4. ComposeTypes' /\ Encoded'
  BY <1>1, <1>2, <1>3 DEF ComposeTypes, Encoded
<1>5. Addressed' /\ Unmade' /\ SendMeant'
  BY <1>1 DEF DraftInv, Addressed, Unmade, SendMeant
<1>6. \A p : LeadTo(p)' <=> LeadTo(p)
  BY <1>1, SameWay
<1>7. \A t : TextToBe(t)' <=> TextToBe(t)
  BY <1>1 DEF TextToBe
<1>8. \A x : ToBe(x)' <=> ToBe(x)
  BY <1>6, <1>7 DEF ToBe
<1>9. ~crowded => OneOpen' /\ SendsLast' = SendsLast
  BY <1>1 DEF DraftInv, OneOpen, SendsLast
<1>10. ASSUME ~crowded PROVE Ways' /\ Sending'
  <2>1. Ways /\ Sending
    BY <1>10 DEF DraftInv
  <2>2. ASSUME NEW x, x = meant PROVE ToBe(meant)' <=> ToBe(x)
    <3>1. x = meant'
      BY <1>1, <2>2
    <3> QED
      BY <1>8, <3>1
  <2>3. ASSUME NEW c \in Composers, NEW x, x = editor[c] PROVE ToBe(editor[c])' <=> ToBe(x)
    <3>1. x = editor'[c]
      BY <1>1, <2>3
    <3> QED
      BY <1>8, <3>1
  <2>4. (ToBe(meant)' <=> ToBe(meant)) /\ \A c \in Composers : ToBe(editor[c])' <=> ToBe(editor[c])
    BY <2>2, <2>3
  <2> QED
    BY <1>1, <1>6, <1>9, <1>10, <2>1, <2>4 DEF Ways, Sending
<1> QED
  BY <1>1, <1>4, <1>5, <1>9, <1>10 DEF DraftInv

\* A task is taken off the queue.
LEMMA QueueTaken ==
    ASSUME ComposeTypes, planning # << >>, planning' = Tail(planning)
    PROVE  /\ planning' \in Seq(OfFiles \cup OfText) /\ Len(planning') = Len(planning) - 1 /\ Len(planning) \in Nat \ {0}
           /\ DOMAIN planning' = 1..(Len(planning) - 1) /\ DOMAIN planning = 1..Len(planning)
           /\ \A i \in DOMAIN planning' : i + 1 \in DOMAIN planning /\ planning'[i] = planning[i + 1]
           /\ Head(planning) = planning[1] /\ Head(planning) \in OfFiles \cup OfText /\ 1 \in DOMAIN planning
<1>1. /\ Tail(planning) \in Seq(OfFiles \cup OfText) /\ Len(Tail(planning)) = Len(planning) - 1
      /\ Len(planning) \in Nat \ {0}
      /\ DOMAIN Tail(planning) = 1..(Len(planning) - 1) /\ DOMAIN planning = 1..Len(planning)
      /\ \A i \in 1..(Len(planning) - 1) : Tail(planning)[i] = planning[i + 1]
      /\ Head(planning) = planning[1] /\ Head(planning) \in OfFiles \cup OfText
  BY Shifting DEF ComposeTypes
<1>2. \A i \in 1..(Len(planning) - 1) : i + 1 \in 1..Len(planning)
  BY <1>1
<1>3. 1 \in 1..Len(planning)
  BY <1>1
<1> QED
  BY <1>1, <1>2, <1>3

\* What follows when the first task is carried out and the draft remains.
LEMMA MovesOn ==
    ASSUME DraftInv, planning # << >>, draft # None, draft' \in ADraft, draft'.to = draft.to, draft'.cc = draft.cc,
           draft'.bcc = draft.bcc,
           Makes(Head(planning), draft.content.parts, draft'.content.parts),
           draft'.content.text = IF Head(planning).do = "save" THEN Head(planning).text ELSE draft.content.text,
           attaching' = None, planning' = Tail(planning),
           UNCHANGED <<source, created, editor, writing, sent, edits, crashes, crowded, meant>>
    PROVE  DraftInv'
<1>1. ComposeTypes
  BY DEF DraftInv
<1>2. /\ planning' \in Seq(OfFiles \cup OfText) /\ Len(planning') = Len(planning) - 1 /\ Len(planning) \in Nat \ {0}
      /\ DOMAIN planning' = 1..(Len(planning) - 1) /\ DOMAIN planning = 1..Len(planning)
      /\ \A i \in DOMAIN planning' : i + 1 \in DOMAIN planning /\ planning'[i] = planning[i + 1]
  BY <1>1, QueueTaken
<1>3. draft' # None
  BY DraftIs
<1>4. ComposeTypes'
  BY <1>1, <1>2 DEF ComposeTypes
<1>5. Addressed'
  BY <1>3 DEF DraftInv, Addressed
<1>6. Encoded'
  BY DEF Encoded
<1>7. Unmade'
  BY DEF DraftInv, Unmade
<1>8. SendMeant'
  BY <1>2 DEF DraftInv, SendMeant
<1>9. ASSUME ~crowded
      PROVE  OneOpen' /\ Ways' /\ Sending'
  <2>1. OneOpen /\ Ways /\ Sending
    BY <1>9 DEF DraftInv
  <2>2. OneOpen'
    BY <1>2, <1>3, <2>1 DEF OneOpen
  <2>3. ASSUME NEW p \in Seq(AFile), LeadTo(p) PROVE LeadTo(p)'
    BY <1>1, <2>3, LeadsOn
  <2>4. ASSUME NEW t, TextToBe(t) PROVE TextToBe(t)'
    BY <1>1, <2>4, TextLater
  <2>5. ASSUME NEW x \in AContent, ToBe(x)
        PROVE  ToBe(x)'
    <3>1. x.parts \in Seq(AFile)
      BY ContentIs
    <3> QED
      BY <2>3, <2>4, <2>5, <3>1 DEF ToBe
  <2>6. Ways'
    <3>1. ASSUME NEW c \in Composers, editor'[c] # None
          PROVE  ToBe(editor[c])'
      <4>1. PICK x \in AContent : x = editor[c] /\ x = editor'[c]
        BY <1>1, <3>1 DEF ComposeTypes
      <4>2. ToBe(x)
        BY <2>1, <3>1, <4>1 DEF Ways
      <4>3. ToBe(x)'
        BY <2>5, <4>2
      <4> QED
        BY <4>1, <4>3
    <3> QED
      BY <2>1, <2>3, <3>1 DEF Ways
  <2>7. Sending'
    <3>1. ASSUME crashes = 0
          PROVE  SendsLast'
      <4>0. SendsLast
        BY <2>1, <3>1 DEF Sending
      <4>1. ASSUME NEW i \in DOMAIN planning', planning'[i].do = "send"
            PROVE  i = Len(planning') /\ writing' = << >>
        <5>1. i + 1 = Len(planning) /\ writing = << >> /\ i \in Nat
          BY <1>2, <4>0, <4>1 DEF SendsLast
        <5> QED
          BY <1>2, <5>1
      <4>2. ASSUME NEW i \in DOMAIN writing', writing'[i].do = "send"
            PROVE  i = Len(writing')
        BY <4>0, <4>2 DEF SendsLast
      <4> QED
        BY <4>1, <4>2 DEF SendsLast
    <3>2. ASSUME crashes = 0, meant # None
          PROVE  ToBe(meant)'
      <4>1. PICK x \in AContent : x = meant /\ x = meant'
        BY <1>1, <3>2 DEF ComposeTypes
      <4>2. ToBe(x)
        BY <2>1, <3>2, <4>1 DEF Sending
      <4>3. ToBe(x)'
        BY <2>5, <4>2
      <4> QED
        BY <4>1, <4>3
    <3> QED
      BY <2>1, <3>1, <3>2 DEF Sending
  <2> QED
    BY <2>2, <2>6, <2>7
<1> QED
  BY <1>4, <1>5, <1>6, <1>7, <1>8, <1>9 DEF DraftInv

\* What follows when the first task ends the draft, or finds none.
LEMMA EndsHere ==
    ASSUME DraftInv, planning # << >>, draft' = None, sent' \in AContent \cup {None},
           draft # None => Ends(Head(planning)),
           ~crowded /\ crashes = 0 => sent' = sent \/ sent' = meant,
           attaching' = None, planning' = Tail(planning),
           UNCHANGED <<source, created, editor, writing, edits, crashes, crowded, meant>>
    PROVE  DraftInv'
<1>1. ComposeTypes
  BY DEF DraftInv
<1>2. /\ planning' \in Seq(OfFiles \cup OfText) /\ Len(planning') = Len(planning) - 1 /\ Len(planning) \in Nat \ {0}
      /\ DOMAIN planning' = 1..(Len(planning) - 1) /\ DOMAIN planning = 1..Len(planning)
      /\ \A i \in DOMAIN planning' : i + 1 \in DOMAIN planning /\ planning'[i] = planning[i + 1]
      /\ Head(planning) = planning[1] /\ 1 \in DOMAIN planning
  BY <1>1, QueueTaken
<1>3. ComposeTypes'
  BY <1>1, <1>2 DEF ComposeTypes
<1>4. Addressed' /\ Encoded'
  BY DEF Addressed, Encoded
<1>5. Unmade'
  BY DEF DraftInv, Unmade
<1>6. SendMeant'
  BY <1>2 DEF DraftInv, SendMeant
<1>7. ASSUME ~crowded
      PROVE  OneOpen' /\ Ways' /\ Sending'
  <2>1. OneOpen /\ Sending
    BY <1>7 DEF DraftInv
  <2>2. \A c \in Composers : editor[c] = None
    BY <1>2, <2>1 DEF OneOpen
  <2>3. OneOpen' /\ Ways'
    BY <2>2 DEF OneOpen, Ways
  <2>4. ASSUME crashes = 0
        PROVE  SendsLast'
    <3>0. SendsLast
      BY <2>1, <2>4 DEF Sending
    <3>1. ASSUME NEW i \in DOMAIN planning', planning'[i].do = "send"
          PROVE  i = Len(planning') /\ writing' = << >>
      <4>1. i + 1 = Len(planning) /\ writing = << >> /\ i \in Nat
        BY <1>2, <3>0, <3>1 DEF SendsLast
      <4> QED
        BY <1>2, <4>1
    <3>2. ASSUME NEW i \in DOMAIN writing', writing'[i].do = "send"
          PROVE  i = Len(writing')
      BY <3>0, <3>2 DEF SendsLast
    <3> QED
      BY <3>1, <3>2 DEF SendsLast
  <2>5. Sending'
    BY <1>7, <2>1, <2>4 DEF Sending
  <2> QED
    BY <2>3, <2>5
<1> QED
  BY <1>3, <1>4, <1>5, <1>6, <1>7 DEF DraftInv

\* The plan of the first task ends.
LEMMA PlansHolds ==
    ASSUME DraftInv, Composed!Plans
    PROVE  DraftInv'
<1> DEFINE e == Head(planning)
<1>1. /\ planning # << >> /\ planning' = Tail(planning) /\ attaching' = None
      /\ (e.do = "attach" /\ draft # None => attaching # None)
      /\ UNCHANGED <<source, created, editor, writing, edits, crashes, crowded, meant>>
  BY DEF Composed!Plans
<1>2. /\ draft = None => UNCHANGED <<draft, sent>>
      /\ draft # None /\ e.do = "attach" =>
            draft' = [draft EXCEPT !.content.parts = Append(@, attaching)] /\ UNCHANGED sent
      /\ draft # None /\ e.do = "detach" =>
            draft' = [draft EXCEPT !.content.parts = Composed!Without(@, e.part.relId)] /\ UNCHANGED sent
      /\ draft # None /\ e.do = "save" => draft' = [draft EXCEPT !.content.text = e.text] /\ UNCHANGED sent
      /\ draft # None /\ e.do = "send" => sent' = draft.content /\ draft' = None
      /\ draft # None /\ e.do = "delete" => draft' = None /\ UNCHANGED sent
  <2>1. CASE draft = None
    BY <2>1 DEF Composed!Plans
  <2>2. CASE draft # None /\ e.do = "attach"
    BY <2>2 DEF Composed!Plans
  <2>3. CASE draft # None /\ e.do = "detach"
    BY <2>3 DEF Composed!Plans
  <2>4. CASE draft # None /\ e.do = "save"
    BY <2>4 DEF Composed!Plans
  <2>5. CASE draft # None /\ e.do = "send"
    BY <2>5 DEF Composed!Plans
  <2>6. CASE draft # None /\ e.do = "delete"
    BY <2>6 DEF Composed!Plans
  <2> QED
    BY <2>1, <2>2, <2>3, <2>4, <2>5, <2>6
<1>3. ComposeTypes /\ e = planning[1] /\ 1 \in DOMAIN planning /\ Len(planning) \in Nat \ {0}
  BY <1>1, QueueTaken DEF DraftInv
<1>4. PICK f \in OfFiles \cup OfText : f = e
  BY <1>1, <1>3, QueueTaken
<1>5. f.do \in {"attach", "detach", "save", "send", "delete"}
  BY DEF OfFiles, OfText
<1> HIDE DEF e
<1>6. draft # None => draft \in ADraft /\ draft.content \in AContent /\ draft.content.parts \in Seq(AFile)
  BY <1>3, DraftIs, ContentIs DEF ComposeTypes
<1>7. CASE draft = None
  <2>1. draft' = None /\ sent' = sent /\ sent' \in AContent \cup {None}
    BY <1>2, <1>3, <1>7 DEF ComposeTypes
  <2> QED
    BY <1>1, <1>7, <2>1, EndsHere
<1>8. CASE draft # None /\ f.do = "attach"
  <2>1. attaching = f.part /\ attaching \in AFile
    BY <1>1, <1>3, <1>4, <1>8 DEF DraftInv, Encoded, e, ComposeTypes
  <2>2. PICK q \in Seq(AFile) : q = Append(draft.content.parts, attaching)
    <3>1. Append(draft.content.parts, attaching) \in Seq(AFile)
      BY <1>6, <1>8, <2>1
    <3> QED
      BY <3>1
  <2>3. draft' = [draft EXCEPT !.content.parts = q] /\ sent' = sent
    BY <1>2, <1>4, <1>6, <1>8, <2>2
  <2>4. /\ draft' \in ADraft /\ draft'.content = [draft.content EXCEPT !.parts = q]
        /\ draft'.to = draft.to /\ draft'.cc = draft.cc /\ draft'.bcc = draft.bcc
    BY <1>6, <1>8, <2>3, DraftIs
  <2>5. draft'.content.parts = q /\ draft'.content.text = draft.content.text
    BY <1>6, <1>8, <2>4, ContentIs
  <2>6. Makes(f, draft.content.parts, q)
    BY <1>8, <2>1, <2>2 DEF Makes
  <2> QED
    BY <1>1, <1>4, <1>8, <2>3, <2>4, <2>5, <2>6, MovesOn DEF e
<1>9. CASE draft # None /\ f.do = "detach"
  <2>2. PICK q \in Seq(AFile) : q = Composed!Without(draft.content.parts, f.part.relId)
    BY <1>6, <1>9, WithoutIs
  <2>3. draft' = [draft EXCEPT !.content.parts = q] /\ sent' = sent
    BY <1>2, <1>4, <1>6, <1>9, <2>2
  <2>4. /\ draft' \in ADraft /\ draft'.content = [draft.content EXCEPT !.parts = q]
        /\ draft'.to = draft.to /\ draft'.cc = draft.cc /\ draft'.bcc = draft.bcc
    BY <1>6, <1>9, <2>3, DraftIs
  <2>5. draft'.content.parts = q /\ draft'.content.text = draft.content.text
    BY <1>6, <1>9, <2>4, ContentIs
  <2>6. Makes(f, draft.content.parts, q)
    BY <1>9, <2>2 DEF Makes
  <2> QED
    BY <1>1, <1>4, <1>9, <2>3, <2>4, <2>5, <2>6, MovesOn DEF e
<1>10. CASE draft # None /\ f.do = "save"
  <2>1. f.text \in 0..MaxDeeds
    BY <1>10 DEF OfFiles, OfText
  <2>3. draft' = [draft EXCEPT !.content.text = f.text] /\ sent' = sent
    BY <1>2, <1>4, <1>10
  <2>4. /\ draft' \in ADraft /\ draft'.content = [draft.content EXCEPT !.text = f.text]
        /\ draft'.to = draft.to /\ draft'.cc = draft.cc /\ draft'.bcc = draft.bcc
    BY <1>6, <1>10, <2>1, <2>3, DraftIs
  <2>5. draft'.content.parts = draft.content.parts /\ draft'.content.text = f.text
    BY <1>6, <1>10, <2>1, <2>4, ContentIs
  <2>6. Makes(f, draft.content.parts, draft.content.parts)
    BY <1>10 DEF Makes
  <2> QED
    BY <1>1, <1>4, <1>10, <2>3, <2>4, <2>5, <2>6, MovesOn DEF e
<1>11. CASE draft # None /\ f.do = "send"
  <2>1. draft' = None /\ sent' = draft.content /\ sent' \in AContent
    BY <1>2, <1>4, <1>6, <1>11
  <2>2. ASSUME ~crowded, crashes = 0
        PROVE  sent' = meant
    <3>1. Sending /\ SendsLast
      BY <2>2 DEF DraftInv, Sending
    <3>2. meant # None
      BY <1>3, <1>4, <1>11 DEF DraftInv, SendMeant
    <3>3. PICK x \in AContent : x = meant
      BY <1>3, <3>2 DEF ComposeTypes
    <3>4. ToBe(x)
      BY <1>11, <2>2, <3>1, <3>2, <3>3 DEF Sending
    <3>5. Len(planning) = 1 /\ writing = << >>
      BY <1>3, <1>4, <1>11, <3>1 DEF SendsLast
    <3>6. PICK p \in Seq(AFile) : p = x.parts /\ LeadTo(p)
      BY <3>4, ContentIs DEF ToBe
    <3>7. draft.content.parts = p
      <4>1. PICK h \in [0..1 -> Seq(AFile)] : h[0] = draft.content.parts /\ h[1] = p /\ Makes(planning[1], h[1 - 1], h[1])
        BY <3>5, <3>6 DEF LeadTo
      <4>2. Makes(planning[1], h[0], h[1])
        BY <4>1
      <4> QED
        BY <1>3, <1>4, <1>11, <4>1, <4>2 DEF Makes
    <3>8. draft.content.text = x.text
      <4>1. ~LastSave(writing, x.text) /\ ~LastSave(planning, x.text)
        <5>1. DOMAIN planning = {1} /\ planning[1].do # "save"
          BY <1>3, <1>4, <1>11, <3>5 DEF ComposeTypes
        <5> QED
          BY <3>5, <5>1 DEF LastSave
      <4> QED
        BY <3>4, <4>1 DEF ToBe, TextToBe
    <3> QED
      BY <1>6, <1>11, <2>1, <3>3, <3>6, <3>7, <3>8, ContentIs
  <2> QED
    BY <1>1, <1>4, <1>11, <2>1, <2>2, EndsHere DEF e, Ends
<1>12. CASE draft # None /\ f.do = "delete"
  <2>1. draft' = None /\ sent' = sent /\ sent' \in AContent \cup {None}
    BY <1>2, <1>3, <1>4, <1>12 DEF ComposeTypes
  <2> QED
    BY <1>1, <1>4, <1>12, <2>1, EndsHere DEF e, Ends
<1> QED
  BY <1>5, <1>7, <1>8, <1>9, <1>10, <1>11, <1>12

\* The client and the back end end.
LEMMA CrashesHolds ==
    ASSUME DraftInv, Composed!Crashes
    PROVE  DraftInv'
<1>1. /\ crashes < MaxCrashes /\ crashes' = crashes + 1
      /\ editor' = [c \in Composers |-> None] /\ attaching' = None /\ writing' = << >>
      /\ Composed!Survive
      /\ UNCHANGED <<source, created, draft, sent, edits, crowded, meant>>
  BY DEF Composed!Crashes
<1>2. ComposeTypes /\ crashes \in 0..MaxCrashes /\ MaxCrashes \in Nat /\ planning \in Seq(OfFiles \cup OfText)
  BY DraftsAssumption DEF DraftInv, ComposeTypes
<1>3. crashes' \in 0..MaxCrashes /\ crashes' # 0
  BY <1>1, <1>2
<1>4. PICK n \in 0..Len(planning) : \E at \in [1..n -> DOMAIN planning] :
        /\ {at[k] : k \in 1..n} = {i \in DOMAIN planning : planning[i].do \notin {"attach", "detach"}}
        /\ planning' = [k \in 1..n |-> planning[at[k]]]
  BY <1>1 DEF Composed!Survive
<1>5. PICK at \in [1..n -> DOMAIN planning] :
        /\ {at[k] : k \in 1..n} = {i \in DOMAIN planning : planning[i].do \notin {"attach", "detach"}}
        /\ planning' = [k \in 1..n |-> planning[at[k]]]
  BY <1>4
<1>6. n \in Nat /\ DOMAIN planning' = 1..n
  BY <1>2, <1>4, <1>5
<1>7. \A k \in 1..n : /\ planning'[k] = planning[at[k]] /\ at[k] \in DOMAIN planning
                     /\ planning[at[k]].do \notin {"attach", "detach"}
                     /\ planning[at[k]] \in OfFiles \cup OfText
  BY <1>2, <1>5
<1>8. planning' \in Seq(OfFiles \cup OfText) /\ Len(planning') = n
  BY <1>5, <1>6, <1>7
<1>9. ComposeTypes'
  BY <1>1, <1>2, <1>3, <1>8 DEF ComposeTypes
<1>10. Addressed' /\ Encoded'
  BY <1>1 DEF DraftInv, Addressed, Encoded
<1>11. Unmade'
  <2>1. ASSUME ~created, planning = << >> PROVE planning' = << >>
    <3>1. n = 0
      BY <1>2, <1>4, <2>1
    <3> QED
      BY <1>8, <3>1
  <2> QED
    BY <1>1, <2>1 DEF DraftInv, Unmade
<1>12. SendMeant'
  BY <1>1, <1>6, <1>7 DEF DraftInv, SendMeant
<1>13. ASSUME ~crowded
       PROVE  OneOpen' /\ Ways' /\ Sending'
  <2>1. OneOpen' /\ Sending'
    BY <1>1, <1>3 DEF OneOpen, Sending
  <2>2. ASSUME draft # None
        PROVE  \E p \in Seq(AFile) : LeadTo(p)'
    <3>1. PICK q \in Seq(AFile) : LeadTo(q)
      BY <1>13, <2>2 DEF DraftInv, Ways
    <3>2. IdsApart(draft.content.parts)
      BY <1>2, <3>1, LeadsFromHere
    <3>3. PICK p \in Seq(AFile) : p = draft.content.parts /\ p = draft'.content.parts
      BY <1>1, <1>2, <2>2, DraftIs, ContentIs DEF ComposeTypes
    <3>4. \A i \in 1..n : planning'[i].do \notin {"attach", "detach"}
      BY <1>7
    <3>5. LeadTo(draft.content.parts)'
      BY <1>6, <1>8, <3>2, <3>3, <3>4, LeadsNowhere
    <3> QED
      BY <3>3, <3>5
  <2>3. Ways'
    BY <1>1, <2>2 DEF Ways
  <2> QED
    BY <2>1, <2>3
<1> QED
  BY <1>1, <1>9, <1>10, <1>11, <1>12, <1>13 DEF DraftInv

\* draft_create is planned.
LEMMA CreatesHolds ==
    ASSUME DraftInv, Composed!Creates
    PROVE  DraftInv'
<1>1. /\ ~created /\ created' = TRUE /\ draft' = Composed!Reply(source)
      /\ UNCHANGED <<source, editor, writing, planning, attaching, sent, edits, crashes, crowded, meant>>
  BY DEF Composed!Creates
<1>2. /\ ComposeTypes /\ planning = << >> /\ writing = << >> /\ meant = None /\ sent = None
      /\ \A c \in Composers : editor[c] = None
  BY <1>1 DEF DraftInv, Unmade
<1>3. draft' \in ADraft /\ draft'.content = [parts |-> << >>, text |-> 0]
  <2>1. /\ source.to \in SUBSET People /\ source.cc \in SUBSET People /\ source.author \in People
    BY <1>2 DEF ComposeTypes
  <2>2. /\ Composed!ReplyToSender(source, source.author, source.own).to \in SUBSET People
        /\ Composed!ReplyToSender(source, source.author, source.own).cc \in SUBSET People
    BY <2>1 DEF Composed!ReplyToSender
  <2>3. /\ Composed!ReplyToAll(source, source.author, source.own).to \in SUBSET People
        /\ Composed!ReplyToAll(source, source.author, source.own).cc \in SUBSET People
    BY <2>1 DEF Composed!ReplyToAll, Composed!Others
  <2>4. [parts |-> << >>, text |-> 0] \in AContent
    BY DraftsAssumption DEF AContent
  <2> QED
    BY <1>1, <2>2, <2>3, <2>4 DEF Composed!Reply, ADraft
<1>4. draft' # None
  BY <1>3, DraftIs
<1>5. ComposeTypes'
  BY <1>1, <1>2, <1>3 DEF ComposeTypes
<1>6. Addressed' /\ Encoded' /\ Unmade' /\ SendMeant'
  BY <1>1 DEF DraftInv, Addressed, Encoded, Unmade, SendMeant
<1>7. OneOpen'
  BY <1>1, <1>2 DEF OneOpen
<1>8. LeadTo(draft.content.parts)'
  <2>1. draft'.content.parts = << >> /\ draft'.content.parts \in Seq(AFile) /\ IdsApart(draft'.content.parts)
    BY <1>3 DEF IdsApart
  <2>2. PICK n \in Nat : n = 0
    OBVIOUS
  <2>3. Len(planning') = n /\ \A i \in 1..n : planning'[i].do \notin {"attach", "detach"}
    BY <1>1, <1>2, <2>2
  <2> QED
    BY <2>1, <2>2, <2>3, LeadsNowhere
<1>9. Ways'
  <2>1. PICK p \in Seq(AFile) : p = draft'.content.parts
    <3>1. draft'.content.parts \in Seq(AFile)
      BY <1>3
    <3> QED
      BY <3>1
  <2> QED
    BY <1>1, <1>2, <1>8, <2>1 DEF Ways
<1>10. Sending'
  BY <1>1, <1>2 DEF Sending, SendsLast
<1> QED
  BY <1>5, <1>6, <1>7, <1>9, <1>10 DEF DraftInv

LEMMA SameCount == \A S : Composed!Cardinality(S) = Cardinality(S)
BY Zenon DEF Composed!Cardinality, Cardinality

LEMMA DraftStep ==
    ASSUME DraftInv, Composed!ComposeNext \/ UNCHANGED composeSide
    PROVE  DraftInv'
<1>1. ASSUME NEW c \in Composers,
             \/ Composed!Opens(c) \/ Composed!Attaches(c) \/ Composed!Detaches(c) \/ Composed!Aborts(c)
             \/ \E send \in BOOLEAN : Composed!Finishes(c, send)
      PROVE  DraftInv'
  BY <1>1, OpensHolds, AttachesHolds, DetachesHolds, AbortsHolds, FinishesHolds
<1>2. CASE UNCHANGED composeSide
  <2>1. UNCHANGED <<source, created, draft, editor, writing, planning, attaching, sent, edits, crashes, crowded, meant>>
    BY <1>2 DEF composeSide
  <2>2. ComposeTypes' /\ Addressed' /\ Encoded' /\ Unmade' /\ SendMeant'
    BY <2>1 DEF DraftInv, ComposeTypes, Addressed, Encoded, Unmade, SendMeant
  <2>3. \A p : LeadTo(p)' <=> LeadTo(p)
    BY <2>1, SameWay
  <2>4. \A x : ToBe(x)' <=> ToBe(x)
    <3>1. \A t : TextToBe(t)' <=> TextToBe(t)
      BY <2>1 DEF TextToBe
    <3> QED
      BY <2>3, <3>1 DEF ToBe
  <2>5. ASSUME ~crowded PROVE OneOpen' /\ Ways' /\ Sending'
    <3>1. OneOpen /\ Ways /\ Sending
      BY <2>5 DEF DraftInv
    <3>2. OneOpen' /\ SendsLast' = SendsLast
      BY <2>1, <3>1 DEF OneOpen, SendsLast
    <3>3. ASSUME NEW x, x = meant PROVE ToBe(meant)' <=> ToBe(x)
      <4>1. x = meant'
        BY <2>1, <3>3
      <4> QED
        BY <2>4, <4>1
    <3>4. ASSUME NEW c \in Composers, NEW x, x = editor[c] PROVE ToBe(editor[c])' <=> ToBe(x)
      <4>1. x = editor'[c]
        BY <2>1, <3>4
      <4> QED
        BY <2>4, <4>1
    <3>5. (ToBe(meant)' <=> ToBe(meant)) /\ \A c \in Composers : ToBe(editor[c])' <=> ToBe(editor[c])
      BY <3>3, <3>4
    <3> QED
      BY <2>1, <2>3, <3>1, <3>2, <3>5 DEF Ways, Sending
  <2> QED
    BY <2>1, <2>2, <2>5 DEF DraftInv
<1> QED
  BY <1>1, <1>2, CreatesHolds, WrittenHolds, EncodesHolds, PlansHolds, CrashesHolds DEF Composed!ComposeNext

LEMMA DraftStart == Composed!ComposeInit => DraftInv
<1> SUFFICES ASSUME Composed!ComposeInit PROVE DraftInv
  OBVIOUS
<1>1. /\ source \in [to : SUBSET People, cc : SUBSET People, author : People, own : {Me, Alias},
                     mode : {"sender", "all"}]
      /\ draft = None /\ created = FALSE
      /\ editor = [c \in Composers |-> None]
      /\ writing = << >> /\ planning = << >> /\ attaching = None /\ sent = None
      /\ edits = 0 /\ crashes = 0 /\ crowded = FALSE /\ meant = None
  BY DEF Composed!ComposeInit
<1>2. 0 \in 0..MaxDeeds /\ 0 \in 0..MaxCrashes
  BY DraftsAssumption
<1>3. ComposeTypes
  <2>1. editor \in [Composers -> AContent \cup {None}]
    BY <1>1
  <2>2. writing \in Seq(OfText) /\ planning \in Seq(OfFiles \cup OfText)
    BY <1>1
  <2> QED
    BY <1>1, <1>2, <2>1, <2>2 DEF ComposeTypes
<1>4. Addressed /\ Encoded /\ Unmade /\ SendMeant
  BY <1>1 DEF Addressed, Encoded, Unmade, SendMeant
<1>5. OneOpen /\ Ways /\ Sending
  BY <1>1 DEF OneOpen, Ways, Sending, SendsLast
<1> QED
  BY <1>3, <1>4, <1>5 DEF DraftInv

\* The composer and the draft agree when nothing is on its way.
LEMMA Agree == DraftInv => Composed!ComposerAgrees
<1> SUFFICES ASSUME DraftInv, planning = << >>, writing = << >>, ~crowded, draft # None,
                    NEW c \in Composers, editor[c] # None
             PROVE  editor[c] = draft.content
  BY DEF Composed!ComposerAgrees
<1>1. ComposeTypes /\ Ways
  BY DEF DraftInv
<1>2. draft.content \in AContent /\ editor[c] \in AContent
  BY <1>1, DraftIs DEF ComposeTypes
<1>3. LeadTo(editor[c].parts) /\ TextToBe(editor[c].text)
  BY <1>1 DEF Ways, ToBe
<1>4. draft.content.parts = editor[c].parts
  <2>1. editor[c].parts \in Seq(AFile)
    BY <1>2, ContentIs
  <2> QED
    BY <1>1, <1>3, <2>1, LeadsFromHere
<1>5. draft.content.text = editor[c].text
  BY <1>3 DEF TextToBe, LastSave
<1> QED
  BY <1>2, <1>4, <1>5, ContentIs

\* There are as many ids as files.
LEMMA DraftIdsDistinct == DraftInv => Composed!IdsAreDistinct
<1> SUFFICES ASSUME DraftInv, ~crowded, draft # None
             PROVE  Composed!Cardinality(Composed!IdsOf(draft.content.parts)) = Len(draft.content.parts)
  BY DEF Composed!IdsAreDistinct
<1>1. PICK q \in Seq(AFile) : LeadTo(q)
  BY DEF DraftInv, Ways
<1>2. PICK p \in Seq(AFile) : p = draft.content.parts /\ IdsApart(p)
  <2>1. draft.content.parts \in Seq(AFile)
    BY DraftIs, ContentIs DEF DraftInv, ComposeTypes
  <2>2. IdsApart(draft.content.parts)
    BY <1>1, LeadsFromHere DEF DraftInv
  <2> QED
    BY <2>1, <2>2
<1> DEFINE n == Len(p)  ids == Composed!IdsOf(p)  f == [i \in 1..n |-> p[i].relId]
<1>3. n \in Nat /\ DOMAIN p = 1..n
  OBVIOUS
<1>4. ids = {p[i].relId : i \in 1..n}
  BY <1>3 DEF Composed!IdsOf
<1>5. \A i, j \in 1..n : p[i].relId = p[j].relId => i = j
  BY <1>2, <1>3 DEF IdsApart
<1> HIDE DEF n, ids
<1>6. f \in [1..n -> ids] /\ \A i \in 1..n : f[i] = p[i].relId
  BY <1>4
<1> HIDE DEF f
<1>7. f \in Bijection(1..n, ids)
  <2>1. \A i, j \in 1..n : f[i] = f[j] => i = j
    BY <1>5, <1>6
  <2>2. \A x \in ids : \E i \in 1..n : f[i] = x
    BY <1>4, <1>6
  <2> QED
    BY <1>6, <2>1, <2>2 DEF Bijection, Injection, Surjection, IsInjective
<1>8. IsFiniteSet(1..n) /\ Cardinality(1..n) = n
  BY <1>3, FS_Interval
<1>9. Cardinality(ids) = n
  BY <1>7, <1>8, FS_Bijection DEF ExistsBijection
<1> QED
  BY <1>2, <1>9, SameCount DEF n, ids

\* A reply to all goes to all but oneself, and nobody new gets it both ways; one to the author to nobody else.
LEMMA Reached == DraftInv => Composed!RepliesReach
<1> DEFINE all == source.to \cup source.cc \cup {source.author}
           Reaches == IF source.mode = "all"
                      THEN /\ draft.to \cup draft.cc = IF all = {source.own} /\ source.cc = {} THEN all ELSE all \ {source.own}
                           /\ draft.to \cap draft.cc \subseteq source.to \cap source.cc
                      ELSE source.author # source.own => draft.to = {source.author} /\ draft.cc = {} /\ draft.bcc = {}
<1> SUFFICES ASSUME DraftInv, draft # None PROVE Reaches
  BY DEF Composed!RepliesReach
<1>1. CASE source.mode = "all"
  <2>1. /\ draft.to = Composed!ReplyToAll(source, source.author, source.own).to
        /\ draft.cc = Composed!ReplyToAll(source, source.author, source.own).cc
    BY <1>1 DEF DraftInv, Addressed, Composed!Reply
  <2> DEFINE to == IF source.author \in source.to \cup source.cc THEN source.to ELSE {source.author} \cup source.to
  <2>2. all = to \cup source.cc /\ to \cap source.cc \subseteq source.to \cap source.cc
    OBVIOUS
  <2>3. CASE to = {source.own} /\ source.cc = {}
    <3>1. draft.to = to /\ draft.cc = {}
      BY <2>1, <2>3 DEF Composed!ReplyToAll
    <3> QED
      BY <1>1, <2>2, <2>3, <3>1
  <2>4. CASE ~(to = {source.own} /\ source.cc = {})
    <3>1. draft.to = to \ {source.own} /\ draft.cc = source.cc \ {source.own}
      BY <2>1, <2>4 DEF Composed!ReplyToAll, Composed!Others
    <3> HIDE DEF all, to
    <3> QED
      BY <1>1, <2>2, <2>4, <3>1
  <2> QED
    BY <2>3, <2>4
<1>2. CASE source.mode # "all"
  <2>1. /\ draft.to = Composed!ReplyToSender(source, source.author, source.own).to
        /\ draft.cc = Composed!ReplyToSender(source, source.author, source.own).cc
        /\ draft.bcc = draft.cc
    BY <1>2 DEF DraftInv, Addressed, Composed!Reply
  <2> QED
    BY <1>2, <2>1 DEF Composed!ReplyToSender
<1> QED
  BY <1>1, <1>2

LEMMA ComposeTyped == DraftInv => Composed!ComposeTypeOK
<1> SUFFICES ASSUME ComposeTypes PROVE Composed!ComposeTypeOK
  BY DEF DraftInv
<1>1. AFile = Composed!Part /\ AContent = Composed!Content
  BY DEF AFile, AContent, Composed!Part, Composed!Content
<1>2. OfFiles \subseteq Composed!Edit /\ OfText \subseteq Composed!Edit
  <2>1. 0 \in 0..MaxDeeds
    BY DraftsAssumption
  <2> QED
    BY <1>1, <2>1 DEF OfFiles, OfText, Composed!Edit
<1>3. draft # None => draft.content \in AContent /\ {draft.to, draft.cc, draft.bcc} \subseteq SUBSET People
  BY DEF ComposeTypes, ADraft
<1>4. writing \in Seq(Composed!Edit) /\ planning \in Seq(Composed!Edit)
  <2> DEFINE A == OfFiles \cup OfText
  <2>1. A \subseteq Composed!Edit
    BY <1>2
  <2>2. writing \in Seq(OfText) /\ planning \in Seq(A)
    BY DEF ComposeTypes
  <2> HIDE DEF A
  <2> QED
    BY <1>2, <2>1, <2>2
<1>5. /\ \A c \in Composers : editor[c] = None \/ editor[c] \in AContent
      /\ (attaching = None \/ attaching \in AFile)
      /\ (sent = None \/ sent \in AContent) /\ (meant = None \/ meant \in AContent)
      /\ edits \in 0..MaxDeeds /\ crashes \in 0..MaxCrashes /\ crowded \in BOOLEAN /\ created \in BOOLEAN
  BY DEF ComposeTypes
<1> QED
  BY <1>1, <1>3, <1>4, <1>5 DEF Composed!ComposeTypeOK

\* What is sent is what was composed, and goes to whom it should (MessageComposition).
THEOREM ComposeInStepHolds == AnySpec => []ComposeInStep
<1> DEFINE Inv == part = "drafts" => DraftInv
<1>1. AnyInit => Inv
  <2>1. AnyInit /\ part = "drafts" => Composed!ComposeInit
    BY DEF AnyInit
  <2> QED
    BY <2>1, DraftStart
<1>2. Inv /\ [AnyNext]_anyVars => Inv'
  <2>1. SUFFICES ASSUME Inv, [AnyNext]_anyVars, part' = "drafts"
                 PROVE  DraftInv'
    OBVIOUS
  <2>2. part = "drafts" /\ DraftInv /\ (Composed!ComposeNext \/ UNCHANGED composeSide)
    BY <2>1 DEF AnyNext, anyVars
  <2> QED
    BY <2>2, DraftStep
<1>3. Inv => ComposeInStep
  <2>1. SUFFICES ASSUME DraftInv PROVE Composed!ComposeInStep
    BY DEF ComposeInStep
  <2>2. Composed!SentAsMeant
    BY <2>1 DEF DraftInv, Sending, Composed!SentAsMeant
  <2> QED
    BY <2>1, <2>2, Agree, DraftIdsDistinct, Reached, ComposeTyped DEF Composed!ComposeInStep
<1> QED
  BY <1>1, <1>2, <1>3, PTL DEF AnySpec

=============================================================================
