-------------------------- MODULE EntireListProofs ---------------------------
(***************************************************************************)
(* EntireList implements ListMirror: a proof for any items and bounds.     *)
(*                                                                         *)
(* A message is a list of positional changes; it stands for a list if      *)
(* there is a way of worlds from the list before it, one per change, each  *)
(* world made of the one before by the change.  The proxy amends pending   *)
(* changes: that turns its way into another, whose worlds from the amended *)
(* change on have what is new of the item.                                 *)
(***************************************************************************)
EXTENDS EntireList, FiniteSetTheorems, WellFoundedInduction, TLAPS

\* A list in the making: its order, and what is known of each item.
World == {w \in [ids : Seq(Items), version : [Items -> Versions],
                 overlay : [Items -> Overlays]] :
            \A j, k \in DOMAIN w.ids : w.ids[j] = w.ids[k] => j = k}

\* The rows of a world.
Shown(w) == [k \in DOMAIN w.ids |->
                [id |-> w.ids[k], version |-> w.version[w.ids[k]],
                 overlay |-> w.overlay[w.ids[k]]]]

\* A world in which something of item i is new; None and 0 are for nothing new.
Amended(w, i, item, overlays) ==
    [ids     |-> w.ids,
     version |-> IF item = None THEN w.version
                 ELSE [w.version EXCEPT ![i] = item.version],
     overlay |-> IF overlays = 0 THEN w.overlay
                 ELSE [w.overlay EXCEPT ![i] = overlays]]

\* The item that a change is about, in the world before it.
Subject(w, c) == IF c.type = "add" THEN c.state.id ELSE w.ids[c.index]

Adds(a, c, b) ==
    /\ c.type = "add" /\ c.state # None /\ c.overlays # 0
    /\ c.index \in 1..(Len(a.ids) + 1)
    /\ b.ids = InsertAt(a.ids, c.index, c.state.id)
    /\ b.version = [a.version EXCEPT ![c.state.id] = c.state.version]
    /\ b.overlay = [a.overlay EXCEPT ![c.state.id] = c.overlays]

Changes(a, c, b) ==
    /\ c.type = "change"
    /\ c.index \in DOMAIN a.ids
    /\ c.state = None \/ c.state.id = a.ids[c.index]
    /\ b = Amended(a, a.ids[c.index], c.state, c.overlays)

Removes(a, c, b) ==
    /\ c.type = "remove"
    /\ c.index \in DOMAIN a.ids
    /\ b.ids = RemoveAt(a.ids, c.index)
    /\ b.version = a.version /\ b.overlay = a.overlay

\* Change c makes world b of world a.
Turns(a, c, b) == Adds(a, c, b) \/ Changes(a, c, b) \/ Removes(a, c, b)

\* t is a way from rows to world w, by changes.
Way(t, rows, changes, w) ==
    /\ t \in [0..Len(changes) -> World]
    /\ Shown(t[0]) = rows /\ t[Len(changes)] = w
    /\ \A k \in 1..Len(changes) : Turns(t[k - 1], changes[k], t[k])

\* Messages stand for lists.
Stands(rows, changes, list) ==
    /\ changes \in Seq(Entry)
    /\ \E w \in World : Shown(w) = list /\ \E t : Way(t, rows, changes, w)

\* Change m is the last on the way t that is about item i.
Owns(i, m, changes, t) ==
    /\ m \in DOMAIN changes /\ changes[m].type # "remove"
    /\ Subject(t[m - 1], changes[m]) = i
    /\ \A k \in DOMAIN changes : k > m => Subject(t[k - 1], changes[k]) # i

\* What is pending in proxy p leads from rows to world w.
Pending(p, rows, w) ==
    /\ p = [changes |-> p.changes, at |-> p.at, dirty |-> p.dirty]
    /\ p.changes \in Seq(Entry) /\ p.dirty \in BOOLEAN
    /\ w \in World /\ DOMAIN p.at \subseteq Range(w.ids)
    /\ \E t : /\ Way(t, rows, p.changes, w)
              /\ \A i \in DOMAIN p.at : Owns(i, p.at[i], p.changes, t)

-----------------------------------------------------------------------------
(* Sequences and numbers.                                                  *)

\* What a concatenation is, place by place.
LEMMA Concatenation ==
    ASSUME NEW S, NEW s \in Seq(S), NEW r \in Seq(S)
    PROVE  /\ s \o r \in Seq(S) /\ Len(s \o r) = Len(s) + Len(r)
           /\ \A j \in 1..(Len(s) + Len(r)) :
                 (s \o r)[j] = IF j <= Len(s) THEN s[j] ELSE r[j - Len(s)]
OBVIOUS

\* Sequence r is s with e put at place k.
Inserted(r, s, k, e) ==
    /\ Len(r) = Len(s) + 1
    /\ \A j \in 1..(Len(s) + 1) :
          r[j] = IF j < k THEN s[j] ELSE IF j = k THEN e ELSE s[j - 1]

\* What InsertAt returns.
LEMMA InsertionHolds ==
    ASSUME NEW S, NEW s \in Seq(S), NEW e \in S, NEW k \in 1..(Len(s) + 1)
    PROVE  InsertAt(s, k, e) \in Seq(S) /\ Inserted(InsertAt(s, k, e), s, k, e)
<1> DEFINE a == SubSeq(s, 1, k - 1)  z == SubSeq(s, k, Len(s))
<1>1. a \in Seq(S) /\ Len(a) = k - 1 /\ \A j \in 1..(k - 1) : a[j] = s[j]
  OBVIOUS
<1>2. z \in Seq(S) /\ Len(z) = Len(s) - k + 1 /\ \A j \in 1..(Len(s) - k + 1) : z[j] = s[j + k - 1]
  OBVIOUS
<1>3. InsertAt(s, k, e) = a \o <<e>> \o z
  BY DEF InsertAt
<1> HIDE DEF a, z
<1>4. a \o <<e>> \in Seq(S) /\ Len(a \o <<e>>) = k
  BY <1>1
<1>5. \A j \in 1..k : (a \o <<e>>)[j] = IF j < k THEN s[j] ELSE e
  BY <1>1
<1> DEFINE b == a \o <<e>>
<1>6. InsertAt(s, k, e) = b \o z
  BY <1>3
<1> HIDE DEF b
<1>7. b \in Seq(S) /\ Len(b) = k /\ \A j \in 1..k : b[j] = IF j < k THEN s[j] ELSE e
  BY <1>4, <1>5 DEF b
<1>8. /\ b \o z \in Seq(S) /\ Len(b \o z) = Len(s) + 1
      /\ \A j \in 1..(Len(s) + 1) : (b \o z)[j] = IF j <= k THEN b[j] ELSE z[j - k]
  <2>1. Len(b) + Len(z) = Len(s) + 1 /\ Len(b) = k /\ b \in Seq(S) /\ z \in Seq(S)
    BY <1>2, <1>7
  <2>2. /\ b \o z \in Seq(S) /\ Len(b \o z) = Len(b) + Len(z)
        /\ \A j \in 1..(Len(b) + Len(z)) :
              (b \o z)[j] = IF j <= Len(b) THEN b[j] ELSE z[j - Len(b)]
    BY <2>1, Concatenation
  <2>3. ASSUME NEW j \in 1..(Len(s) + 1)
        PROVE  (b \o z)[j] = IF j <= k THEN b[j] ELSE z[j - k]
    BY ONLY <2>1, <2>2
  <2> QED
    BY <2>1, <2>2, <2>3
<1>9. ASSUME NEW j \in 1..(Len(s) + 1), j > k PROVE z[j - k] = s[j - 1]
  <2>1. j - k \in 1..(Len(s) - k + 1) /\ (j - k) + k - 1 = j - 1
    BY <1>9
  <2> QED
    BY <1>2, <2>1
<1>10. ASSUME NEW j \in 1..(Len(s) + 1)
       PROVE  (b \o z)[j] = IF j < k THEN s[j] ELSE IF j = k THEN e ELSE s[j - 1]
  <2>1. CASE j <= k
    <3>1. j \in 1..k
      BY <2>1
    <3> QED
      BY <1>7, <1>8, <2>1, <3>1
  <2>2. CASE j > k
    <3>1. (b \o z)[j] = z[j - k]
      BY <1>8, <2>2
    <3>2. z[j - k] = s[j - 1]
      BY <1>9, <2>2
    <3> QED
      BY <2>2, <3>1, <3>2
  <2>3. j <= k \/ j > k
    OBVIOUS
  <2> QED
    BY ONLY <2>1, <2>2, <2>3
<1>11. Inserted(b \o z, s, k, e)
  BY <1>8, <1>10 DEF Inserted
<1> QED
  BY <1>6, <1>8, <1>11

\* The same, place by place.
LEMMA Insertion ==
    ASSUME NEW S, NEW s \in Seq(S), NEW e \in S, NEW k \in 1..(Len(s) + 1)
    PROVE  /\ InsertAt(s, k, e) \in Seq(S)
           /\ Len(InsertAt(s, k, e)) = Len(s) + 1
           /\ \A j \in 1..(Len(s) + 1) :
                 InsertAt(s, k, e)[j] = IF j < k THEN s[j]
                                        ELSE IF j = k THEN e ELSE s[j - 1]
<1>1. InsertAt(s, k, e) \in Seq(S) /\ Inserted(InsertAt(s, k, e), s, k, e)
  BY InsertionHolds
<1> QED
  BY <1>1 DEF Inserted

\* What RemoveAt returns, place by place.
LEMMA Removal ==
    ASSUME NEW S, NEW s \in Seq(S), NEW k \in DOMAIN s
    PROVE  /\ RemoveAt(s, k) \in Seq(S)
           /\ Len(RemoveAt(s, k)) = Len(s) - 1
           /\ \A j \in 1..(Len(s) - 1) :
                 RemoveAt(s, k)[j] = IF j < k THEN s[j] ELSE s[j + 1]
<1> DEFINE a == SubSeq(s, 1, k - 1)  z == SubSeq(s, k + 1, Len(s))
<1>1. a \in Seq(S) /\ Len(a) = k - 1 /\ \A j \in 1..(k - 1) : a[j] = s[j]
  OBVIOUS
<1>2. z \in Seq(S) /\ Len(z) = Len(s) - k /\ \A j \in 1..(Len(s) - k) : z[j] = s[j + k]
  OBVIOUS
<1>3. RemoveAt(s, k) = a \o z
  BY DEF RemoveAt
<1> HIDE DEF a, z
<1>4. k \in 1..Len(s) /\ Len(s) \in Nat
  OBVIOUS
<1>5. /\ a \o z \in Seq(S) /\ Len(a \o z) = Len(s) - 1
      /\ \A j \in 1..(Len(s) - 1) : (a \o z)[j] = IF j <= k - 1 THEN a[j] ELSE z[j - (k - 1)]
  <2>1. Len(a) + Len(z) = Len(s) - 1 /\ Len(a) = k - 1
    BY <1>1, <1>2, <1>4
  <2>2. /\ a \o z \in Seq(S) /\ Len(a \o z) = Len(a) + Len(z)
        /\ \A j \in 1..(Len(a) + Len(z)) :
              (a \o z)[j] = IF j <= Len(a) THEN a[j] ELSE z[j - Len(a)]
    BY <1>1, <1>2, Concatenation
  <2>3. ASSUME NEW j \in 1..(Len(s) - 1)
        PROVE  (a \o z)[j] = IF j <= k - 1 THEN a[j] ELSE z[j - (k - 1)]
    BY ONLY <2>1, <2>2
  <2> QED
    BY <2>1, <2>2, <2>3
<1>6. ASSUME NEW j \in 1..(Len(s) - 1), j >= k PROVE z[j - (k - 1)] = s[j + 1]
  <2>1. j - (k - 1) \in 1..(Len(s) - k) /\ (j - (k - 1)) + k = j + 1
    BY <1>4, <1>6
  <2> QED
    BY <1>2, <2>1
<1> QED
  BY <1>1, <1>3, <1>4, <1>5, <1>6

\* What Append returns, place by place.
LEMMA Appending ==
    ASSUME NEW S, NEW s \in Seq(S), NEW e \in S
    PROVE  /\ Append(s, e) \in Seq(S) /\ Len(s) \in Nat
           /\ Len(Append(s, e)) = Len(s) + 1 /\ Append(s, e)[Len(s) + 1] = e
           /\ \A k \in 1..Len(s) : Append(s, e)[k] = s[k]
           /\ Append(s, e) # << >>
OBVIOUS

\* Nothing appended to leaves a sequence empty.
LEMMA AppendNonempty ==
    ASSUME NEW s, NEW S, s \in Seq(S), NEW e
    PROVE  Append(s, e) # << >>
<1>1. Len(Append(s, e)) = Len(s) + 1 /\ Len(s) \in Nat
  OBVIOUS
<1>2. Len(<< >>) = 0
  OBVIOUS
<1> QED
  BY <1>1, <1>2

\* Only the empty sequence has length 0.
LEMMA Emptiness ==
    ASSUME NEW S, NEW s \in Seq(S)
    PROVE  Len(s) \in Nat /\ (Len(s) = 0 <=> s = << >>)
OBVIOUS

\* What Tail returns, place by place.
LEMMA TailOf ==
    ASSUME NEW S, NEW s \in Seq(S), s # << >>
    PROVE  /\ Tail(s) \in Seq(S) /\ Len(Tail(s)) = Len(s) - 1 /\ Head(s) = s[1]
           /\ \A k \in 1..(Len(s) - 1) : Tail(s)[k] = s[k + 1]
           /\ s[1] \in S
OBVIOUS

\* What holds at 0 and goes from each number to the next holds up to n.
LEMMA UpTo ==
    ASSUME NEW n \in Nat, NEW S, 0 \in S, \A k \in 1..n : k - 1 \in S => k \in S
    PROVE  \A k \in 0..n : k \in S
<1> DEFINE T == {k \in 0..n : k \notin S}
<1>1. SUFFICES ASSUME T # {} PROVE FALSE
  OBVIOUS
<1>2. T \subseteq Nat
  OBVIOUS
<1> HIDE DEF T
<1>3. PICK k \in T : \A m \in T : ~(<<m, k>> \in OpToRel(<, Nat))
  BY <1>1, <1>2, NatLessThanWellFounded, WFMin
<1>4. k \in 1..n /\ k \notin S /\ k - 1 \notin S
  <2>1. k \in 0..n /\ k \notin S
    BY DEF T
  <2>2. k \in 1..n
    BY <2>1
  <2> QED
    BY <2>1, <2>2
<1>5. k - 1 \in T /\ <<k - 1, k>> \in OpToRel(<, Nat)
  BY <1>4 DEF T, OpToRel
<1> QED
  BY <1>3, <1>5

-----------------------------------------------------------------------------
(* One change.                                                             *)

\* Something new of an item leaves a world.
LEMMA AmendedWorld ==
    ASSUME NEW w \in World, NEW i \in Items, NEW item \in State \cup {None},
           NEW overlays \in Overlays \cup {0}
    PROVE  Amended(w, i, item, overlays) \in World
BY DEF World, Amended, State

\* The rows of a world, place by place.
LEMMA ShownRows ==
    ASSUME NEW w \in World
    PROVE  /\ Shown(w) \in Seq(Row)
           /\ Len(Shown(w)) = Len(w.ids)
           /\ \A k \in 1..Len(w.ids) :
                 Shown(w)[k] = [id |-> w.ids[k], version |-> w.version[w.ids[k]],
                                overlay |-> w.overlay[w.ids[k]]]
<1>1. /\ w.ids \in Seq(Items) /\ w.version \in [Items -> Versions]
      /\ w.overlay \in [Items -> Overlays]
  BY DEF World
<1>2. PICK n \in Nat : n = Len(w.ids) /\ DOMAIN w.ids = 1..n
  BY <1>1
<1>3. \A k \in 1..n : w.ids[k] \in Items
  BY <1>1, <1>2
<1>4. Shown(w) = [k \in 1..n |-> [id |-> w.ids[k], version |-> w.version[w.ids[k]],
                                  overlay |-> w.overlay[w.ids[k]]]]
  BY <1>2 DEF Shown
<1>5. Shown(w) \in [1..n -> Row]
  BY <1>1, <1>3, <1>4 DEF Row
<1>6. Shown(w) \in Seq(Row) /\ Len(Shown(w)) = n
  <2> DEFINE s == Shown(w)
  <2>1. s \in [1..n -> Row]
    BY <1>5
  <2> HIDE DEF s
  <2>2. s \in Seq(Row) /\ Len(s) = n
    BY <2>1
  <2> QED
    BY <2>2 DEF s
<1> QED
  BY <1>2, <1>4, <1>6

\* A view that replays the change shows the next world.
LEMMA TurnReplayed ==
    ASSUME NEW a \in World, NEW b \in World, NEW c \in Entry, Turns(a, c, b)
    PROVE  Replayed(Shown(a), c) = Shown(b)
<1>0. /\ a.ids \in Seq(Items) /\ b.ids \in Seq(Items)
      /\ Shown(a) \in Seq(Row) /\ Len(Shown(a)) = Len(a.ids)
      /\ Shown(b) \in Seq(Row) /\ Len(Shown(b)) = Len(b.ids)
  <2>1. a.ids \in Seq(Items) /\ b.ids \in Seq(Items)
    BY DEF World
  <2>2. Shown(a) \in Seq(Row) /\ Len(Shown(a)) = Len(a.ids)
    BY ShownRows
  <2>3. Shown(b) \in Seq(Row) /\ Len(Shown(b)) = Len(b.ids)
    BY ShownRows
  <2> QED
    BY <2>1, <2>2, <2>3
<1>1. CASE Adds(a, c, b)
  <2>1. c.state \in State /\ c.overlays \in Overlays
    BY <1>1 DEF Adds, Entry
  <2> DEFINE row == [id |-> c.state.id, version |-> c.state.version, overlay |-> c.overlays]
  <2>2. Replayed(Shown(a), c) = InsertAt(Shown(a), c.index, row)
    BY <1>1 DEF Adds, Replayed
  <2>3. row \in Row
    BY <2>1 DEF Row, State
  <2>4. c.index \in 1..(Len(a.ids) + 1) /\ c.state.id \in Items
    BY <1>1, <2>1 DEF Adds, State
  <2> HIDE DEF row
  <2>5. /\ InsertAt(Shown(a), c.index, row) \in Seq(Row)
        /\ Len(InsertAt(Shown(a), c.index, row)) = Len(a.ids) + 1
        /\ \A j \in 1..(Len(a.ids) + 1) :
              InsertAt(Shown(a), c.index, row)[j] =
                 IF j < c.index THEN Shown(a)[j]
                 ELSE IF j = c.index THEN row ELSE Shown(a)[j - 1]
    <3> DEFINE s == Shown(a)
    <3>1. s \in Seq(Row) /\ Len(s) = Len(a.ids)
      BY <1>0
    <3> HIDE DEF s
    <3>2. PICK k \in 1..(Len(s) + 1) : k = c.index
      BY <2>4, <3>1
    <3>3. /\ InsertAt(s, k, row) \in Seq(Row)
          /\ Len(InsertAt(s, k, row)) = Len(s) + 1
          /\ \A j \in 1..(Len(s) + 1) :
                InsertAt(s, k, row)[j] =
                   IF j < k THEN s[j] ELSE IF j = k THEN row ELSE s[j - 1]
      <4>1. InsertAt(s, k, row) \in Seq(Row) /\ Inserted(InsertAt(s, k, row), s, k, row)
        BY <2>3, <3>1, <3>2, InsertionHolds
      <4> QED
        BY <4>1 DEF Inserted
    <3> QED
      BY <3>1, <3>2, <3>3 DEF s
  <2>6. /\ Len(b.ids) = Len(a.ids) + 1
        /\ \A j \in 1..(Len(a.ids) + 1) :
              b.ids[j] = IF j < c.index THEN a.ids[j]
                         ELSE IF j = c.index THEN c.state.id ELSE a.ids[j - 1]
    <3>1. b.ids = InsertAt(a.ids, c.index, c.state.id)
      BY <1>1 DEF Adds
    <3> DEFINE s == a.ids
    <3>2. s \in Seq(Items) /\ c.index \in 1..(Len(s) + 1)
      BY <1>0, <2>4
    <3>3. b.ids = InsertAt(s, c.index, c.state.id)
      BY <3>1
    <3> HIDE DEF s
    <3>4. PICK k \in 1..(Len(s) + 1), i \in Items : k = c.index /\ i = c.state.id
      BY <2>4, <3>2
    <3>5. /\ Len(InsertAt(s, k, i)) = Len(s) + 1
          /\ \A j \in 1..(Len(s) + 1) :
                InsertAt(s, k, i)[j] =
                   IF j < k THEN s[j] ELSE IF j = k THEN i ELSE s[j - 1]
      <4>1. Inserted(InsertAt(s, k, i), s, k, i)
        BY <3>2, <3>4, InsertionHolds
      <4> QED
        BY <4>1 DEF Inserted
    <3> QED
      BY <3>3, <3>4, <3>5 DEF s
  <2>7. \A j \in 1..(Len(a.ids) + 1) : InsertAt(Shown(a), c.index, row)[j] = Shown(b)[j]
    <3>1. \A i \in Items : i # c.state.id =>
             b.version[i] = a.version[i] /\ b.overlay[i] = a.overlay[i]
      BY <1>1 DEF Adds, World
    <3>2. b.version[c.state.id] = c.state.version /\ b.overlay[c.state.id] = c.overlays
      BY <1>1, <2>4 DEF Adds, World
    <3>3. \A j, k \in 1..Len(b.ids) : b.ids[j] = b.ids[k] => j = k
      BY <1>0 DEF World
    <3> SUFFICES ASSUME NEW j \in 1..(Len(a.ids) + 1)
                 PROVE  InsertAt(Shown(a), c.index, row)[j] = Shown(b)[j]
      OBVIOUS
    <3>4. /\ c.index \in Nat /\ c.index \in 1..Len(b.ids) /\ j \in 1..Len(b.ids)
          /\ Len(a.ids) \in Nat
      BY <1>0, <2>4, <2>6
    <3>5. Shown(b)[j] = [id |-> b.ids[j], version |-> b.version[b.ids[j]],
                         overlay |-> b.overlay[b.ids[j]]]
      BY <3>4, ShownRows
    <3>6. \A i \in 1..Len(a.ids) :
             Shown(a)[i] = [id |-> a.ids[i], version |-> a.version[a.ids[i]],
                            overlay |-> a.overlay[a.ids[i]]]
      BY ShownRows
    <3>7. CASE j = c.index
      BY <2>5, <2>6, <3>2, <3>5, <3>7 DEF row
    <3>8. CASE j # c.index
      <4>1. PICK i \in 1..Len(a.ids) : i = IF j < c.index THEN j ELSE j - 1
        BY <2>4, <3>4, <3>8
      <4>2. b.ids[j] = a.ids[i] /\ InsertAt(Shown(a), c.index, row)[j] = Shown(a)[i]
        BY <2>5, <2>6, <3>4, <3>8, <4>1
      <4>3. b.ids[j] # c.state.id /\ b.ids[j] \in Items
        BY <1>0, <2>6, <3>3, <3>4, <3>8
      <4> QED
        BY <3>1, <3>5, <3>6, <4>2, <4>3
    <3> QED
      BY <3>7, <3>8
  <2> QED
    BY <1>0, <2>2, <2>5, <2>6, <2>7
<1>2. CASE Changes(a, c, b)
  <2> DEFINE k == c.index  i == a.ids[k]
  <2>1. /\ k \in 1..Len(a.ids) /\ i \in Items
        /\ b = Amended(a, i, c.state, c.overlays)
        /\ c.state \in State \cup {None} /\ c.overlays \in Overlays \cup {0}
        /\ c.state = None \/ c.state.id = i
    BY <1>0, <1>2 DEF Changes, Entry
  <2>2. Replayed(Shown(a), c) = [Shown(a) EXCEPT ![k] = Updated(Shown(a)[k], c)]
    BY <1>2 DEF Changes, Replayed
  <2>3. b.ids = a.ids
    BY <2>1 DEF Amended
  <2>4. \A j \in Items : j # i =>
           b.version[j] = a.version[j] /\ b.overlay[j] = a.overlay[j]
    BY <2>1 DEF Amended, World
  <2>5. /\ b.version[i] = IF c.state = None THEN a.version[i] ELSE c.state.version
        /\ b.overlay[i] = IF c.overlays = 0 THEN a.overlay[i] ELSE c.overlays
    BY <2>1 DEF Amended, World
  <2>6. \A j \in 1..Len(a.ids) : a.ids[j] \in Items /\ (a.ids[j] = i => j = k)
    BY <1>0, <2>1 DEF World
  <2>7. \A j \in 1..Len(a.ids) :
           Shown(a)[j] = [id |-> a.ids[j], version |-> a.version[a.ids[j]],
                          overlay |-> a.overlay[a.ids[j]]]
    BY ShownRows
  <2>8. \A j \in 1..Len(a.ids) :
           Shown(b)[j] = [id |-> a.ids[j], version |-> b.version[a.ids[j]],
                          overlay |-> b.overlay[a.ids[j]]]
    BY <2>3, ShownRows
  <2> HIDE DEF k, i
  <2>9. Updated(Shown(a)[k], c) = Shown(b)[k]
    <3>1. Shown(a)[k] = [id |-> i, version |-> a.version[i], overlay |-> a.overlay[i]]
      BY <2>1, <2>7 DEF i
    <3>2. Shown(b)[k] = [id |-> i, version |-> b.version[i], overlay |-> b.overlay[i]]
      BY <2>1, <2>8 DEF i
    <3>3. Updated(Shown(a)[k], c) =
             [id |-> i, version |-> b.version[i], overlay |-> b.overlay[i]]
      BY <2>1, <2>5, <3>1 DEF Updated
    <3> QED
      BY <3>2, <3>3
  <2>10. \A j \in 1..Len(a.ids) : j # k => Shown(a)[j] = Shown(b)[j]
    <3> TAKE j \in 1..Len(a.ids)
    <3> HAVE j # k
    <3>1. PICK x \in Items : x = a.ids[j] /\ x # i
      BY <2>6
    <3>2. b.version[x] = a.version[x] /\ b.overlay[x] = a.overlay[x]
      BY <2>4, <3>1
    <3>3. Shown(a)[j] = [id |-> x, version |-> a.version[x], overlay |-> a.overlay[x]]
      BY <2>7, <3>1
    <3>4. Shown(b)[j] = [id |-> x, version |-> b.version[x], overlay |-> b.overlay[x]]
      BY <2>8, <3>1
    <3> QED
      BY <3>2, <3>3, <3>4
  <2> DEFINE s == Shown(a)  r == Shown(b)
  <2>11. /\ s \in Seq(Row) /\ r \in Seq(Row) /\ Len(s) = Len(r) /\ k \in 1..Len(s)
         /\ \A j \in 1..Len(s) : j # k => s[j] = r[j]
    BY <1>0, <2>1, <2>3, <2>10
  <2>12. Replayed(s, c) = [s EXCEPT ![k] = r[k]]
    BY <2>2, <2>9
  <2> HIDE DEF s, r
  <2>13. Replayed(s, c) = r
    BY <2>11, <2>12
  <2> QED
    BY <2>13 DEF s, r
<1>3. CASE Removes(a, c, b)
  <2>1. c.index \in DOMAIN a.ids /\ c.index \in DOMAIN Shown(a)
    BY <1>0, <1>3 DEF Removes
  <2>2. /\ RemoveAt(Shown(a), c.index) \in Seq(Row)
        /\ Len(RemoveAt(Shown(a), c.index)) = Len(a.ids) - 1
        /\ \A j \in 1..(Len(a.ids) - 1) :
              RemoveAt(Shown(a), c.index)[j] = IF j < c.index THEN Shown(a)[j]
                                               ELSE Shown(a)[j + 1]
    <3> DEFINE s == Shown(a)
    <3>1. s \in Seq(Row) /\ Len(s) = Len(a.ids) /\ c.index \in DOMAIN s
      BY <1>0, <2>1
    <3> HIDE DEF s
    <3> QED
      BY <3>1, Removal DEF s
  <2>3. /\ Len(b.ids) = Len(a.ids) - 1
        /\ \A j \in 1..(Len(a.ids) - 1) :
              b.ids[j] = IF j < c.index THEN a.ids[j] ELSE a.ids[j + 1]
    <3> DEFINE s == a.ids
    <3>1. s \in Seq(Items) /\ c.index \in DOMAIN s /\ b.ids = RemoveAt(s, c.index)
      BY <1>0, <1>3 DEF Removes
    <3> HIDE DEF s
    <3> QED
      BY <3>1, Removal DEF s
  <2>4. b.version = a.version /\ b.overlay = a.overlay
    BY <1>3 DEF Removes
  <2>5. \A j \in 1..Len(a.ids) :
           Shown(a)[j] = [id |-> a.ids[j], version |-> a.version[a.ids[j]],
                          overlay |-> a.overlay[a.ids[j]]]
    BY ShownRows
  <2>6. \A j \in 1..Len(b.ids) :
           Shown(b)[j] = [id |-> b.ids[j], version |-> a.version[b.ids[j]],
                          overlay |-> a.overlay[b.ids[j]]]
    BY <2>4, ShownRows
  <2>7. ASSUME NEW j \in 1..(Len(a.ids) - 1)
        PROVE  RemoveAt(Shown(a), c.index)[j] = Shown(b)[j]
    <3>1. PICK i \in 1..Len(a.ids) : i = IF j < c.index THEN j ELSE j + 1
      BY <1>0, <2>1
    <3>2. b.ids[j] = a.ids[i] /\ RemoveAt(Shown(a), c.index)[j] = Shown(a)[i]
      BY <2>2, <2>3, <3>1
    <3>3. j \in 1..Len(b.ids)
      BY <2>3
    <3> QED
      BY <2>5, <2>6, <3>2, <3>3
  <2>8. Replayed(Shown(a), c) = RemoveAt(Shown(a), c.index)
    BY <1>3 DEF Removes, Replayed
  <2> QED
    BY <1>0, <2>2, <2>3, <2>7, <2>8
<1> QED
  BY <1>1, <1>2, <1>3 DEF Turns

\* A message that stands for a list brings a view that shows the list before it there.
LEMMA StandsReplayed ==
    ASSUME NEW rows, NEW changes, NEW list, Stands(rows, changes, list)
    PROVE  Update(rows, changes) = list
<1>1. PICK w \in World : Shown(w) = list /\ \E t : Way(t, rows, changes, w)
  BY DEF Stands
<1>2. PICK t : Way(t, rows, changes, w)
  BY <1>1
<1>3. PICK n \in Nat : n = Len(changes)
  BY DEF Stands
<1>4. \A k \in 1..n : changes[k] \in Entry
  BY <1>3 DEF Stands
<1>5. /\ t \in [0..n -> World] /\ Shown(t[0]) = rows /\ Shown(t[n]) = list
      /\ \A k \in 1..n : Turns(t[k - 1], changes[k], t[k])
  BY <1>1, <1>2, <1>3 DEF Way
<1> DEFINE Follows(f) == f = [k \in 0..n |-> IF k = 0 THEN rows
                                             ELSE Replayed(f[k - 1], changes[k])]
           shown == [k \in 0..n |-> Shown(t[k])]
           after == CHOOSE f : Follows(f)
<1>6. \A k \in 1..n : k - 1 \in 0..n /\ k \in 0..n
  BY <1>3
<1>7. \A k \in 1..n : Replayed(Shown(t[k - 1]), changes[k]) = Shown(t[k])
  BY <1>4, <1>5, <1>6, TurnReplayed
<1>8. Follows(shown)
  BY <1>5, <1>6, <1>7
<1>9. Follows(after)
  BY <1>8
<1>10. \A k \in 1..n : after[k - 1] = shown[k - 1] => after[k] = shown[k]
  <2> SUFFICES ASSUME NEW k \in 1..n, after[k - 1] = shown[k - 1]
               PROVE  after[k] = shown[k]
    OBVIOUS
  <2>1. k # 0 /\ k \in 0..n /\ k - 1 \in 0..n
    OBVIOUS
  <2> HIDE DEF after
  <2>2. after[k] = Replayed(after[k - 1], changes[k])
    BY <1>9, <2>1
  <2>3. shown[k] = Shown(t[k]) /\ shown[k - 1] = Shown(t[k - 1])
    BY <2>1
  <2> QED
    BY <1>7, <2>2, <2>3
<1>11. Update(rows, changes) = after[n]
  BY <1>3 DEF Update
<1>12. after[0] = shown[0]
  <2>1. 0 \in 0..n
    OBVIOUS
  <2> HIDE DEF after
  <2> QED
    BY <1>5, <1>9, <2>1
<1> HIDE DEF after, shown
<1> DEFINE S == {k \in 0..n : after[k] = shown[k]}
<1>13. 0 \in S /\ \A k \in 1..n : k - 1 \in S => k \in S
  BY <1>6, <1>10, <1>12
<1> HIDE DEF S
<1>14. \A k \in 0..n : k \in S
  BY <1>13, UpTo
<1>15. after[n] = shown[n]
  BY <1>14 DEF S
<1>16. shown[n] = Shown(t[n])
  BY DEF shown
<1> QED
  BY <1>5, <1>11, <1>15, <1>16

-----------------------------------------------------------------------------
(* Amending what is pending.                                               *)

\* What is new of two items does not depend on which came first.
LEMMA AmendedBoth ==
    ASSUME NEW w \in World, NEW i \in Items, NEW j \in Items, i # j,
           NEW item, NEW overlays, NEW other, NEW others
    PROVE  Amended(Amended(w, i, item, overlays), j, other, others)
              = Amended(Amended(w, j, other, others), i, item, overlays)
<1> DEFINE f == w.version  g == w.overlay  v == item.version  u == other.version
<1>1. f \in [Items -> Versions] /\ g \in [Items -> Overlays]
  BY DEF World
<1> HIDE DEF f, g, v, u
<1>2. [[f EXCEPT ![i] = v] EXCEPT ![j] = u] = [[f EXCEPT ![j] = u] EXCEPT ![i] = v]
  BY <1>1
<1>3. [[g EXCEPT ![i] = overlays] EXCEPT ![j] = others]
         = [[g EXCEPT ![j] = others] EXCEPT ![i] = overlays]
  BY <1>1
<1> QED
  BY <1>2, <1>3 DEF Amended, f, g, v, u

\* A change that is not about the item does the same where something of it is new.
LEMMA TurnsElsewhere ==
    ASSUME NEW a \in World, NEW b \in World, NEW c \in Entry, Turns(a, c, b),
           NEW i \in Items, Subject(a, c) # i,
           NEW item \in State \cup {None}, NEW overlays \in Overlays \cup {0}
    PROVE  Turns(Amended(a, i, item, overlays), c, Amended(b, i, item, overlays))
<1>1. CASE Adds(a, c, b)
  <2>1. c.state \in State /\ c.state.id # i /\ c.state.id \in Items
    BY <1>1 DEF Adds, Entry, Subject, State
  <2> DEFINE s == c.state.id
             d == Amended(a, s, c.state, c.overlays)
  <2>2. b.version = d.version /\ b.overlay = d.overlay
    BY <1>1 DEF Adds, Amended
  <2>3. Amended(d, i, item, overlays)
           = Amended(Amended(a, i, item, overlays), s, c.state, c.overlays)
    BY <2>1, AmendedBoth
  <2>4. /\ Amended(b, i, item, overlays).version = Amended(d, i, item, overlays).version
        /\ Amended(b, i, item, overlays).overlay = Amended(d, i, item, overlays).overlay
        /\ Amended(b, i, item, overlays).ids = b.ids
        /\ Amended(a, i, item, overlays).ids = a.ids
    BY <2>2 DEF Amended
  <2> DEFINE e == Amended(a, i, item, overlays)
  <2>5. /\ Amended(e, s, c.state, c.overlays).version = [e.version EXCEPT ![s] = c.state.version]
        /\ Amended(e, s, c.state, c.overlays).overlay = [e.overlay EXCEPT ![s] = c.overlays]
    BY <1>1 DEF Adds, Amended
  <2> HIDE DEF d, e
  <2>6. /\ Amended(b, i, item, overlays).version = [e.version EXCEPT ![s] = c.state.version]
        /\ Amended(b, i, item, overlays).overlay = [e.overlay EXCEPT ![s] = c.overlays]
    BY <2>3, <2>4, <2>5 DEF e
  <2>7. Adds(e, c, Amended(b, i, item, overlays))
    BY <1>1, <2>4, <2>6 DEF Adds, e
  <2> QED
    BY <2>7 DEF Turns, e
<1>2. CASE Changes(a, c, b)
  <2>1. a.ids[c.index] # i /\ a.ids[c.index] \in Items
    BY <1>2 DEF Changes, Subject, World
  <2>2. Amended(b, i, item, overlays)
           = Amended(Amended(a, i, item, overlays), a.ids[c.index], c.state, c.overlays)
    BY <1>2, <2>1, AmendedBoth DEF Changes
  <2>3. Amended(a, i, item, overlays).ids = a.ids
    BY DEF Amended
  <2> QED
    BY <1>2, <2>2, <2>3 DEF Changes, Turns
<1>3. CASE Removes(a, c, b)
  BY <1>3 DEF Removes, Amended, Turns
<1> QED
  BY <1>1, <1>2, <1>3 DEF Turns

\* The pending change with what is new.
Merged(c, item, overlays) ==
    [type |-> c.type, index |-> c.index,
     state |-> IF item = None THEN c.state ELSE item,
     overlays |-> IF overlays = 0 THEN c.overlays ELSE overlays]

\* The change that is amended makes the world in which it is new.
LEMMA TurnsMerged ==
    ASSUME NEW a \in World, NEW b \in World, NEW c \in Entry, Turns(a, c, b),
           NEW i \in Items, Subject(a, c) = i, c.type # "remove",
           NEW item \in State \cup {None}, item = None \/ item.id = i,
           NEW overlays \in Overlays \cup {0}
    PROVE  /\ Turns(a, Merged(c, item, overlays), Amended(b, i, item, overlays))
           /\ Merged(c, item, overlays) \in Entry
<1>1. Merged(c, item, overlays) \in Entry
  BY DEF Merged, Entry
<1>2. CASE Adds(a, c, b)
  <2>1. c.state \in State /\ c.state.id = i /\ c.overlays \in Overlays
    BY <1>2 DEF Adds, Entry, Subject
  <2>2. PICK d : d = Merged(c, item, overlays)
    OBVIOUS
  <2>3. /\ d.type = "add" /\ d.index = c.index
        /\ d.state = (IF item = None THEN c.state ELSE item)
        /\ d.overlays = (IF overlays = 0 THEN c.overlays ELSE overlays)
    BY <1>2, <2>2 DEF Merged, Adds
  <2>4. d.state # None /\ d.overlays # 0 /\ d.state.id = i
    BY <1>2, <2>1, <2>3 DEF Adds
  <2>5. PICK x : x = Amended(b, i, item, overlays)
    OBVIOUS
  <2>6. /\ x.ids = b.ids
        /\ x.version = IF item = None THEN b.version
                       ELSE [b.version EXCEPT ![i] = item.version]
        /\ x.overlay = IF overlays = 0 THEN b.overlay
                       ELSE [b.overlay EXCEPT ![i] = overlays]
    BY <2>5 DEF Amended
  <2>7. a.version \in [Items -> Versions] /\ a.overlay \in [Items -> Overlays]
    <3>1. a.version \in [Items -> Versions]
      BY DEF World
    <3>2. a.overlay \in [Items -> Overlays]
      BY DEF World
    <3> QED
      BY <3>1, <3>2
  <2>8. /\ b.version = [a.version EXCEPT ![i] = c.state.version]
        /\ b.overlay = [a.overlay EXCEPT ![i] = c.overlays]
        /\ b.ids = InsertAt(a.ids, c.index, i) /\ c.index \in 1..(Len(a.ids) + 1)
    BY <1>2, <2>1 DEF Adds
  <2>9. x.version = [a.version EXCEPT ![i] = d.state.version]
    <3>1. CASE item = None
      BY <2>3, <2>6, <2>8, <3>1
    <3>2. CASE item # None
      <4>1. x.version = [b.version EXCEPT ![i] = item.version]
        BY <2>6, <3>2
      <4>2. d.state = item
        BY <2>3, <3>2
      <4> QED
        BY ONLY <2>7, <2>8, <4>1, <4>2
    <3> QED
      BY <3>1, <3>2
  <2>10. x.overlay = [a.overlay EXCEPT ![i] = d.overlays]
    <3>1. CASE overlays = 0
      BY <2>3, <2>6, <2>8, <3>1
    <3>2. CASE overlays # 0
      <4>1. x.overlay = [b.overlay EXCEPT ![i] = overlays]
        BY <2>6, <3>2
      <4>2. d.overlays = overlays
        BY <2>3, <3>2
      <4> QED
        BY ONLY <2>7, <2>8, <4>1, <4>2
    <3> QED
      BY <3>1, <3>2
  <2>11. Adds(a, d, x)
    BY <2>3, <2>4, <2>6, <2>8, <2>9, <2>10 DEF Adds
  <2> QED
    BY <1>1, <2>2, <2>5, <2>11 DEF Turns
<1>3. CASE Changes(a, c, b)
  <2>1. a.ids[c.index] = i
    BY <1>3 DEF Changes, Subject
  <2> QED
    BY <1>1, <1>3, <2>1 DEF Changes, Amended, World, Turns, Merged
<1> QED
  BY <1>2, <1>3 DEF Turns, Removes
-----------------------------------------------------------------------------
(* What a pending change or an amendment does to what is pending.          *)

\* An item stays listed until a change removes it.
LEMMA TurnsListed ==
    ASSUME NEW a \in World, NEW b \in World, NEW c \in Entry, Turns(a, c, b)
    PROVE  /\ c.type # "remove" => Subject(a, c) \in Range(b.ids)
           /\ \A i \in Range(a.ids) : i # Subject(a, c) => i \in Range(b.ids)
<1>0. a.ids \in Seq(Items) /\ b.ids \in Seq(Items)
  BY DEF World
<1> DEFINE s == a.ids  r == b.ids  k == c.index
<1>1. CASE Adds(a, c, b)
  <2>1. c.state.id \in Items /\ k \in 1..(Len(s) + 1) /\ r = InsertAt(s, k, c.state.id)
    BY <1>1 DEF Adds, Entry, State
  <2>2. s \in Seq(Items)
    BY <1>0
  <2>3. Subject(a, c) = c.state.id
    BY <1>1 DEF Adds, Subject
  <2> HIDE DEF s, r, k
  <2>4. /\ Len(r) = Len(s) + 1 /\ r \in Seq(Items)
        /\ \A j \in 1..(Len(s) + 1) :
              r[j] = IF j < k THEN s[j] ELSE IF j = k THEN c.state.id ELSE s[j - 1]
    <3>1. PICK x \in Items : x = c.state.id
      BY <2>1
    <3>2. /\ InsertAt(s, k, x) \in Seq(Items) /\ Len(InsertAt(s, k, x)) = Len(s) + 1
          /\ \A j \in 1..(Len(s) + 1) :
                InsertAt(s, k, x)[j] = IF j < k THEN s[j] ELSE IF j = k THEN x ELSE s[j - 1]
      BY <2>1, <2>2, Insertion
    <3> QED
      BY <2>1, <3>1, <3>2
  <2>5. c.state.id \in Range(r)
    BY <2>1, <2>4 DEF Range
  <2>6. ASSUME NEW j \in 1..Len(s) PROVE s[j] \in Range(r)
    <3>1. PICK l \in 1..(Len(s) + 1) : l = IF j < k THEN j ELSE j + 1
      BY <2>1, <2>2
    <3>2. r[l] = s[j] /\ l \in DOMAIN r
      BY <2>1, <2>2, <2>4, <3>1
    <3> QED
      BY <3>2 DEF Range
  <2> QED
    BY <2>2, <2>3, <2>5, <2>6 DEF Range, s, r
<1>2. CASE Changes(a, c, b)
  BY <1>2 DEF Changes, Amended, Subject, Range
<1>3. CASE Removes(a, c, b)
  <2>1. k \in DOMAIN s /\ r = RemoveAt(s, k) /\ c.type = "remove" /\ Subject(a, c) = s[k]
    BY <1>3 DEF Removes, Subject
  <2>2. s \in Seq(Items)
    BY <1>0
  <2> HIDE DEF s, r, k
  <2>4. /\ Len(r) = Len(s) - 1 /\ r \in Seq(Items)
        /\ \A j \in 1..(Len(s) - 1) : r[j] = IF j < k THEN s[j] ELSE s[j + 1]
    BY <2>1, <2>2, Removal
  <2>6. ASSUME NEW j \in 1..Len(s), j # k PROVE s[j] \in Range(r)
    <3>1. PICK l \in 1..(Len(s) - 1) : l = IF j < k THEN j ELSE j - 1
      BY <2>1, <2>2, <2>6
    <3>2. r[l] = s[j] /\ l \in DOMAIN r
      BY <2>1, <2>2, <2>4, <2>6, <3>1
    <3> QED
      BY <3>2 DEF Range
  <2> QED
    BY <2>1, <2>2, <2>6 DEF Range, s, r
<1> QED
  BY <1>1, <1>2, <1>3 DEF Turns

\* A change that is pushed goes one step further.
LEMMA PushKeeps ==
    ASSUME NEW p, NEW rows, NEW w, Pending(p, rows, w),
           NEW c \in Entry, NEW v \in World, Turns(w, c, v),
           NEW q, q = [changes |-> Append(p.changes, c), at |-> q.at, dirty |-> TRUE],
           \A i \in DOMAIN q.at :
              \/ i = Subject(w, c) /\ c.type # "remove" /\ q.at[i] = Len(p.changes) + 1
              \/ i # Subject(w, c) /\ i \in DOMAIN p.at /\ q.at[i] = p.at[i]
    PROVE  Pending(q, rows, v)
<1>1. PICK t : /\ Way(t, rows, p.changes, w)
               /\ \A i \in DOMAIN p.at : Owns(i, p.at[i], p.changes, t)
  BY DEF Pending
<1>2. p.changes \in Seq(Entry) /\ w \in World /\ DOMAIN p.at \subseteq Range(w.ids)
  BY DEF Pending
<1>3. PICK n \in Nat : n = Len(p.changes)
  BY <1>2
<1>4. /\ t \in [0..n -> World] /\ Shown(t[0]) = rows /\ t[n] = w
      /\ \A k \in 1..n : Turns(t[k - 1], p.changes[k], t[k])
  BY <1>1, <1>3 DEF Way
<1>5. PICK d : d = Append(p.changes, c)
  OBVIOUS
<1>6. /\ d \in Seq(Entry) /\ Len(d) = n + 1 /\ d[n + 1] = c
      /\ \A k \in 1..n : d[k] = p.changes[k]
  BY <1>2, <1>3, <1>5
<1>7. PICK u : u = [k \in 0..(n + 1) |-> IF k = n + 1 THEN v ELSE t[k]]
  OBVIOUS
<1>8. /\ u \in [0..(n + 1) -> World] /\ u[n + 1] = v
      /\ \A k \in 0..n : u[k] = t[k]
  BY <1>4, <1>7
<1>9. \A k \in 1..(n + 1) : Turns(u[k - 1], d[k], u[k])
  <2>1. ASSUME NEW k \in 1..n PROVE Turns(u[k - 1], d[k], u[k])
    <3>1. k \in 0..n /\ k - 1 \in 0..n
      OBVIOUS
    <3> QED
      BY <1>4, <1>6, <1>8, <3>1
  <2>2. Turns(u[n], d[n + 1], u[n + 1])
    BY SMTT(40), <1>3, <1>4, <1>6, <1>8
  <2>3. (n + 1) - 1 = n /\ \A k \in 1..(n + 1) : k = n + 1 \/ k \in 1..n
    OBVIOUS
  <2> QED
    BY <2>1, <2>2, <2>3
<1>10. Way(u, rows, d, v)
  <2>1. Shown(u[0]) = rows
    BY SMTT(40), <1>4, <1>8
  <2> QED
    BY <1>6, <1>8, <1>9, <2>1 DEF Way
<1>11. ASSUME NEW i \in DOMAIN q.at PROVE Owns(i, q.at[i], d, u)
  <2>1. DOMAIN d = 1..(n + 1) /\ DOMAIN p.changes = 1..n
    BY <1>2, <1>3, <1>6
  <2>2. \A k \in 1..n : Subject(u[k - 1], d[k]) = Subject(t[k - 1], p.changes[k])
    <3>1. \A k \in 1..n : k - 1 \in 0..n
      OBVIOUS
    <3> QED
      BY <1>6, <1>8, <3>1
  <2>3. Subject(u[n], d[n + 1]) = Subject(w, c) /\ (n + 1) - 1 = n
    <3>1. u[n] = w /\ d[n + 1] = c
      BY <1>4, <1>6, <1>8
    <3> QED
      BY <3>1
  <2>4. CASE i = Subject(w, c)
    <3>1. q.at[i] = n + 1 /\ c.type # "remove"
      BY <1>3, <2>4
    <3>2. \A k \in 1..(n + 1) : ~(k > n + 1)
      OBVIOUS
    <3> QED
      BY <1>6, <2>1, <2>3, <2>4, <3>1, <3>2 DEF Owns
  <2>5. CASE i # Subject(w, c)
    <3>1. i \in DOMAIN p.at /\ q.at[i] = p.at[i]
      BY <2>5
    <3>2. PICK m \in 1..n :
             /\ m = p.at[i] /\ p.changes[m].type # "remove"
             /\ Subject(t[m - 1], p.changes[m]) = i
             /\ \A k \in 1..n : k > m => Subject(t[k - 1], p.changes[k]) # i
      BY <1>1, <2>1, <3>1 DEF Owns
    <3>3. \A k \in 1..(n + 1) : k = n + 1 \/ k \in 1..n
      OBVIOUS
    <3>4. \A k \in 1..(n + 1) : k > m => Subject(u[k - 1], d[k]) # i
      BY <2>2, <2>3, <2>5, <3>2, <3>3
    <3>5. m \in 1..(n + 1) /\ d[m].type # "remove" /\ Subject(u[m - 1], d[m]) = i
      BY <1>6, <2>2, <3>2
    <3> QED
      BY <2>1, <3>1, <3>2, <3>4, <3>5 DEF Owns
  <2> QED
    BY <2>4, <2>5
<1>12. DOMAIN q.at \subseteq Range(v.ids)
  <2>1. /\ c.type # "remove" => Subject(w, c) \in Range(v.ids)
        /\ \A i \in Range(w.ids) : i # Subject(w, c) => i \in Range(v.ids)
    BY <1>2, TurnsListed
  <2> QED
    BY <1>2, <2>1
<1>13. q.changes = d /\ q.dirty = TRUE /\ q = [changes |-> d, at |-> q.at, dirty |-> TRUE]
  BY <1>5
<1> QED
  BY <1>6, <1>10, <1>11, <1>12, <1>13 DEF Pending

\* An amendment leads to the world that has what is new.
LEMMA MergeKeeps ==
    ASSUME NEW p, NEW rows, NEW w, Pending(p, rows, w), NEW i \in DOMAIN p.at,
           NEW item \in State \cup {None}, item = None \/ item.id = i,
           NEW overlays \in Overlays \cup {0},
           NEW q, q = [changes |-> [p.changes EXCEPT ![p.at[i]] =
                                       Merged(p.changes[p.at[i]], item, overlays)],
                       at |-> p.at, dirty |-> p.dirty]
    PROVE  Pending(q, rows, Amended(w, i, item, overlays))
<1>1. PICK t : /\ Way(t, rows, p.changes, w)
               /\ \A j \in DOMAIN p.at : Owns(j, p.at[j], p.changes, t)
  BY DEF Pending
<1>2. /\ p.changes \in Seq(Entry) /\ w \in World /\ DOMAIN p.at \subseteq Range(w.ids)
      /\ p.dirty \in BOOLEAN
  BY DEF Pending
<1>3. PICK n \in Nat : n = Len(p.changes)
  BY <1>2
<1>4. /\ t \in [0..n -> World] /\ Shown(t[0]) = rows /\ t[n] = w
      /\ \A k \in 1..n : Turns(t[k - 1], p.changes[k], t[k])
  BY <1>1, <1>3 DEF Way
<1>5. DOMAIN p.changes = 1..n /\ \A k \in 1..n : p.changes[k] \in Entry
  BY <1>2, <1>3
<1>6. PICK m \in 1..n :
         /\ m = p.at[i] /\ p.changes[m].type # "remove"
         /\ Subject(t[m - 1], p.changes[m]) = i
         /\ \A k \in 1..n : k > m => Subject(t[k - 1], p.changes[k]) # i
  BY <1>1, <1>5 DEF Owns
<1>7. i \in Items
  <2>1. w.ids \in Seq(Items)
    BY <1>2 DEF World
  <2> QED
    BY <1>2, <2>1 DEF Range
<1> DEFINE New(x) == Amended(x, i, item, overlays)
<1>8. \A x \in World : New(x) \in World /\ New(x).ids = x.ids
  BY <1>7, AmendedWorld DEF Amended
<1>9. PICK c : c = Merged(p.changes[m], item, overlays)
  OBVIOUS
<1>10. PICK d : d = [p.changes EXCEPT ![m] = c]
  OBVIOUS
<1>11. PICK u : u = [k \in 0..n |-> IF k < m THEN t[k] ELSE New(t[k])]
  OBVIOUS
<1> HIDE DEF New
<1>12. /\ u \in [0..n -> World]
       /\ \A k \in 0..n : u[k] = IF k < m THEN t[k] ELSE New(t[k])
  BY <1>4, <1>8, <1>11
<1>13. \A k \in 1..n : k \in 0..n /\ k - 1 \in 0..n /\ t[k] \in World /\ t[k - 1] \in World
  BY <1>4
<1>14. Turns(t[m - 1], c, New(t[m])) /\ c \in Entry
  BY <1>4, <1>5, <1>6, <1>7, <1>9, <1>13, TurnsMerged DEF New
<1>15. \A k \in 1..n : k > m => Turns(New(t[k - 1]), p.changes[k], New(t[k]))
  BY <1>4, <1>5, <1>6, <1>7, <1>13, TurnsElsewhere DEF New
<1>16. /\ d \in Seq(Entry) /\ Len(d) = n /\ DOMAIN d = 1..n /\ d[m] = c
       /\ \A k \in 1..n : k # m => d[k] = p.changes[k]
  BY <1>2, <1>3, <1>5, <1>10, <1>14
<1>17. \A k \in 1..n : Turns(u[k - 1], d[k], u[k])
  <2> SUFFICES ASSUME NEW k \in 1..n PROVE Turns(u[k - 1], d[k], u[k])
    OBVIOUS
  <2>0. k \in 0..n /\ k - 1 \in 0..n
    OBVIOUS
  <2>1. CASE k < m
    BY <1>4, <1>12, <1>16, <2>0, <2>1
  <2>2. CASE k = m
    <3>1. u[k - 1] = t[m - 1] /\ u[k] = New(t[m]) /\ d[k] = c
      BY <1>12, <1>16, <2>0, <2>2
    <3> QED
      BY <1>14, <3>1
  <2>3. CASE k > m
    BY <1>12, <1>15, <1>16, <2>0, <2>3
  <2> QED
    BY <2>1, <2>2, <2>3
<1>18. Way(u, rows, d, New(w))
  <2>1. u[0] = t[0] /\ u[n] = New(t[n])
    BY <1>12
  <2> QED
    BY <1>4, <1>12, <1>16, <1>17, <2>1 DEF Way
<1>19. \A k \in 1..n : /\ Subject(u[k - 1], d[k]) = Subject(t[k - 1], p.changes[k])
                       /\ d[k].type = p.changes[k].type
  <2> SUFFICES ASSUME NEW k \in 1..n
               PROVE  /\ Subject(u[k - 1], d[k]) = Subject(t[k - 1], p.changes[k])
                      /\ d[k].type = p.changes[k].type
    OBVIOUS
  <2>1. u[k - 1].ids = t[k - 1].ids
    BY <1>8, <1>12, <1>13
  <2>2. CASE k # m
    BY <1>16, <2>1, <2>2 DEF Subject
  <2>3. CASE k = m
    <3>1. c.type = p.changes[m].type /\ c.index = p.changes[m].index
      BY <1>9 DEF Merged
    <3>2. p.changes[m].type = "add" => c.state.id = p.changes[m].state.id
      BY <1>6, <1>9 DEF Merged, Subject
    <3> QED
      BY <1>16, <2>1, <2>3, <3>1, <3>2 DEF Subject
  <2> QED
    BY <2>2, <2>3
<1>20. \A j \in DOMAIN p.at : Owns(j, p.at[j], d, u)
  <2> SUFFICES ASSUME NEW j \in DOMAIN p.at PROVE Owns(j, p.at[j], d, u)
    OBVIOUS
  <2>1. PICK l \in 1..n : /\ l = p.at[j] /\ p.changes[l].type # "remove"
                          /\ Subject(t[l - 1], p.changes[l]) = j
                          /\ \A k \in 1..n : k > l => Subject(t[k - 1], p.changes[k]) # j
    BY <1>1, <1>5 DEF Owns
  <2>2. d[l].type # "remove" /\ Subject(u[l - 1], d[l]) = j
    BY <1>19, <2>1
  <2>3. \A k \in 1..n : k > l => Subject(u[k - 1], d[k]) # j
    BY <1>19, <2>1
  <2> QED
    BY <1>16, <2>1, <2>2, <2>3 DEF Owns
<1>21. New(w) \in World /\ New(w).ids = w.ids
  BY <1>2, <1>8
<1>22. q.changes = d /\ q.at = p.at /\ q.dirty = p.dirty
       /\ q = [changes |-> d, at |-> p.at, dirty |-> p.dirty]
  BY <1>6, <1>9, <1>10
<1> QED
  BY <1>2, <1>16, <1>18, <1>20, <1>21, <1>22 DEF Pending, New

-----------------------------------------------------------------------------
(* Events.                                                                 *)

\* An event as a change of its own.
EntryOf(e) ==
    [type     |-> IF e.on \in {"add", "remove"} THEN e.on ELSE "change",
     index    |-> e.index,
     state    |-> IF e.on \in {"add", "change"} THEN e.item ELSE None,
     overlays |-> IF e.on \in {"add", "push"} THEN e.overlays ELSE 0]

\* Event e tells how world w became world v.
Tells(w, e, v) ==
    /\ e.on \in {"add", "change", "push", "remove"}
    /\ e.item \in State /\ e.overlays \in Overlays /\ e.index \in Nat \ {0}
    /\ v \in World
    /\ Turns(w, EntryOf(e), v)
    /\ Subject(w, EntryOf(e)) = e.item.id

\* What stands for no state and no overlays is neither.
LEMMA NoneIsNoState == None \notin State /\ 0 \notin Overlays
<1>1. MaxChanges \in Nat
  BY EntireListAssumption
<1>2. Versions \subseteq [own : Nat, mixed : Nat]
  BY <1>1 DEF Versions
<1>3. State \subseteq [id : Items, version : [own : Nat, mixed : Nat]]
  BY <1>2 DEF State
<1> QED
  BY <1>3, EntireListAssumption DEF Overlays

\* However the proxy takes an event, what is pending leads to the world after it.
LEMMA HeardKeeps ==
    ASSUME NEW p, NEW rows, NEW w, Pending(p, rows, w), NEW e, NEW v, Tells(w, e, v)
    PROVE  Pending(Heard(p, e), rows, v)
<1> DEFINE c == EntryOf(e)  i == e.item.id  q == Heard(p, e)
<1>1. /\ p = [changes |-> p.changes, at |-> p.at, dirty |-> p.dirty]
      /\ p.changes \in Seq(Entry) /\ w \in World
      /\ \A j \in DOMAIN p.at : p.at[j] \in DOMAIN p.changes
  BY DEF Pending, Owns
<1>2. c \in Entry
  BY DEF EntryOf, Entry, Tells
<1>3. v \in World /\ Turns(w, c, v) /\ Subject(w, c) = i /\ i \in Items
  BY DEF Tells, State
<1>4. ASSUME c.type # "remove", q = Pushed(p, i, c) PROVE Pending(q, rows, v)
  <2>1. /\ q = [changes |-> Append(p.changes, c), at |-> q.at, dirty |-> TRUE]
        /\ \A j \in DOMAIN q.at :
              \/ j = i /\ q.at[j] = Len(p.changes) + 1
              \/ j # i /\ j \in DOMAIN p.at /\ q.at[j] = p.at[j]
    BY <1>4 DEF Pushed
  <2> HIDE DEF c, q, i
  <2> QED
    BY <1>2, <1>3, <1>4, <2>1, PushKeeps
<1>5. CASE e.on = "add"
  <2>1. c = [type |-> "add", index |-> e.index, state |-> e.item, overlays |-> e.overlays]
    BY <1>5 DEF EntryOf
  <2>2. q = Pushed(p, i, c)
    BY <1>5, <2>1 DEF Heard, OnAdd
  <2> QED
    BY <1>4, <2>1, <2>2
<1>6. ASSUME i \in DOMAIN p.at, c.type = "change",
             q = [changes |-> [p.changes EXCEPT ![p.at[i]] =
                                  Merged(p.changes[p.at[i]], c.state, c.overlays)],
                  at |-> p.at, dirty |-> p.dirty]
      PROVE  Pending(q, rows, v)
  <2>1. c.state \in State \cup {None} /\ c.overlays \in Overlays \cup {0}
    BY <1>2 DEF Entry
  <2>2. v = Amended(w, i, c.state, c.overlays) /\ (c.state = None \/ c.state.id = i)
    BY <1>3, <1>6 DEF Turns, Adds, Changes, Removes, Subject
  <2> HIDE DEF c, q, i
  <2>3. Pending(q, rows, Amended(w, i, c.state, c.overlays))
    BY <1>6, <2>1, <2>2, MergeKeeps
  <2> QED
    BY <2>2, <2>3
<1>7. CASE e.on = "change"
  <2>1. c = ChangeEntry(e.index, e.item, 0) /\ c.type = "change"
    BY <1>7 DEF EntryOf, ChangeEntry
  <2>2. q = OnChange(p, e.item, e.index)
    BY <1>7 DEF Heard
  <2>3. CASE i \notin DOMAIN p.at
    BY <1>4, <2>1, <2>2, <2>3 DEF OnChange
  <2>4. CASE i \in DOMAIN p.at
    <3> DEFINE m == p.at[i]  d == p.changes[m]
    <3>1. d \in Entry
      BY <1>1, <2>4
    <3>2. q = [p EXCEPT !.changes[m].state = e.item]
      BY <2>2, <2>4 DEF OnChange
    <3>3. e.item # None /\ c.state = e.item /\ c.overlays = 0
      BY <2>1, NoneIsNoState DEF Tells, ChangeEntry
    <3>4. Merged(d, c.state, c.overlays) = [d EXCEPT !.state = e.item]
      <4>1. d = [type |-> d.type, index |-> d.index, state |-> d.state,
                 overlays |-> d.overlays]
        BY <3>1 DEF Entry
      <4> HIDE DEF d, c
      <4> QED
        BY SMTT(30), <3>3, <4>1 DEF Merged
    <3> HIDE DEF m
    <3>5. q = [changes |-> [p.changes EXCEPT ![m] = [d EXCEPT !.state = e.item]],
               at |-> p.at, dirty |-> p.dirty]
      BY <1>1, <3>2
    <3>6. q = [changes |-> [p.changes EXCEPT ![p.at[i]] =
                               Merged(p.changes[p.at[i]], c.state, c.overlays)],
               at |-> p.at, dirty |-> p.dirty]
      BY <3>4, <3>5 DEF m
    <3> QED
      BY <1>6, <2>1, <2>4, <3>6
  <2> QED
    BY <2>3, <2>4
<1>8. CASE e.on = "push"
  <2>1. c = ChangeEntry(e.index, None, e.overlays) /\ c.type = "change"
    BY <1>8 DEF EntryOf, ChangeEntry
  <2>2. q = OnOverlayPush(p, i, e.overlays, e.index)
    BY <1>8 DEF Heard
  <2>3. CASE i \notin DOMAIN p.at
    BY <1>4, <2>1, <2>2, <2>3 DEF OnOverlayPush
  <2>4. CASE i \in DOMAIN p.at
    <3> DEFINE m == p.at[i]  d == p.changes[m]
    <3>1. d \in Entry
      BY <1>1, <2>4
    <3>2. q = [p EXCEPT !.changes[m].overlays = e.overlays]
      BY <2>2, <2>4 DEF OnOverlayPush
    <3>3. e.overlays # 0 /\ c.state = None /\ c.overlays = e.overlays
      BY <2>1, NoneIsNoState DEF Tells, ChangeEntry
    <3>4. Merged(d, c.state, c.overlays) = [d EXCEPT !.overlays = e.overlays]
      <4>1. d = [type |-> d.type, index |-> d.index, state |-> d.state,
                 overlays |-> d.overlays]
        BY <3>1 DEF Entry
      <4> HIDE DEF d, c
      <4> QED
        BY <3>3, <4>1 DEF Merged
    <3> HIDE DEF m
    <3>5. q = [changes |-> [p.changes EXCEPT ![m] = [d EXCEPT !.overlays = e.overlays]],
               at |-> p.at, dirty |-> p.dirty]
      BY <1>1, <3>2
    <3>6. q = [changes |-> [p.changes EXCEPT ![p.at[i]] =
                               Merged(p.changes[p.at[i]], c.state, c.overlays)],
               at |-> p.at, dirty |-> p.dirty]
      BY <3>4, <3>5 DEF m
    <3> QED
      BY <1>6, <2>1, <2>4, <3>6
  <2> QED
    BY <2>3, <2>4
<1>9. CASE e.on = "remove"
  <2>1. c = [type |-> "remove", index |-> e.index, state |-> None, overlays |-> 0]
    BY <1>9 DEF EntryOf
  <2>2. q = OnRemove(p, i, e.index)
    BY <1>9 DEF Heard
  <2>3. /\ q = [changes |-> Append(p.changes, c), at |-> q.at, dirty |-> TRUE]
        /\ q.at = [j \in DOMAIN p.at \ {i} |-> p.at[j]]
    BY <1>1, <2>1, <2>2 DEF OnRemove
  <2>4. \A j \in DOMAIN q.at : j # i /\ j \in DOMAIN p.at /\ q.at[j] = p.at[j]
    BY <2>3
  <2>5. \A j \in DOMAIN q.at :
           \/ j = Subject(w, c) /\ c.type # "remove" /\ q.at[j] = Len(p.changes) + 1
           \/ j # Subject(w, c) /\ j \in DOMAIN p.at /\ q.at[j] = p.at[j]
    BY <1>3, <2>4
  <2>6. q = [changes |-> Append(p.changes, c), at |-> q.at, dirty |-> TRUE]
    BY <2>3
  <2> HIDE DEF c, q, i
  <2>7. Pending(q, rows, v)
    BY <1>2, <1>3, <2>5, <2>6, PushKeeps
  <2> QED
    BY <2>7 DEF q
<1> QED
  BY <1>5, <1>7, <1>8, <1>9 DEF Tells

\* Events one after the other: u are the worlds between them.
LEMMA HeardAllKeeps ==
    ASSUME NEW p, NEW rows, NEW events, NEW u, Pending(p, rows, u[0]),
           Len(events) \in Nat,
           \A k \in 1..Len(events) : Tells(u[k - 1], events[k], u[k])
    PROVE  Pending(HeardAll(p, events), rows, u[Len(events)])
<1>1. PICK n \in Nat : n = Len(events)
  OBVIOUS
<1> DEFINE Follows(f, k) == f = [j \in 0..k |-> IF j = 0 THEN p
                                               ELSE Heard(f[j - 1], events[j])]
           S == {k \in 0..n : \E f : Follows(f, k)}
<1>2. 0 \in S
  <2>1. PICK f : f = [j \in 0..0 |-> p]
    OBVIOUS
  <2>2. \A j \in 0..0 : f[j] = IF j = 0 THEN p ELSE Heard(f[j - 1], events[j])
    BY <2>1
  <2>3. Follows(f, 0)
    BY <2>1, <2>2
  <2> QED
    BY <2>3
<1>3. ASSUME NEW k \in 1..n, k - 1 \in S PROVE k \in S
  <2>1. PICK f : Follows(f, k - 1)
    BY <1>3
  <2>2. PICK g : g = [j \in 0..k |-> IF j = k THEN Heard(f[k - 1], events[k]) ELSE f[j]]
    OBVIOUS
  <2>3. \A j \in 0..(k - 1) : g[j] = f[j] /\ j \in 0..k /\ j # k
    BY <2>2
  <2>4. \A j \in 0..(k - 1) : f[j] = IF j = 0 THEN p ELSE Heard(f[j - 1], events[j])
    BY <2>1
  <2>5. \A j \in 1..k : j - 1 \in 0..(k - 1)
    OBVIOUS
  <2>6. \A j \in 0..k : g[j] = IF j = 0 THEN p ELSE Heard(g[j - 1], events[j])
    <3> SUFFICES ASSUME NEW j \in 0..k
                 PROVE  g[j] = IF j = 0 THEN p ELSE Heard(g[j - 1], events[j])
      OBVIOUS
    <3>1. CASE j = k
      <4>1. g[k] = Heard(f[k - 1], events[k]) /\ g[k - 1] = f[k - 1] /\ k # 0
        BY <2>2, <2>3
      <4> QED
        BY <3>1, <4>1
    <3>2. CASE j # k
      <4>1. j \in 0..(k - 1) /\ (j # 0 => j - 1 \in 0..(k - 1))
        BY <3>2
      <4> QED
        BY <2>3, <2>4, <4>1
    <3> QED
      BY <3>1, <3>2
  <2>7. Follows(g, k)
    BY <2>2, <2>6
  <2> QED
    BY SMTT(30), <2>7
<1>4. \E f : Follows(f, n)
  <2> HIDE DEF S
  <2>1. \A k \in 1..n : k - 1 \in S => k \in S
    BY <1>3
  <2>2. \A k \in 0..n : k \in S
    BY <1>2, <2>1, UpTo
  <2>3. n \in S
    BY <2>2
  <2> QED
    BY <2>3 DEF S
<1> DEFINE after == CHOOSE f : Follows(f, n)
<1>5. Follows(after, n)
  BY <1>4
<1>6. HeardAll(p, events) = after[n]
  BY <1>1 DEF HeardAll
<1> DEFINE T == {k \in 0..n : Pending(after[k], rows, u[k])}
<1> HIDE DEF after
<1>7. 0 \in T
  <2>1. after[0] = p
    BY <1>5
  <2> QED
    BY <2>1
<1>8. ASSUME NEW k \in 1..n, k - 1 \in T PROVE k \in T
  <2>1. k \in 0..n /\ after[k] = Heard(after[k - 1], events[k])
    BY <1>5
  <2>2. Pending(after[k - 1], rows, u[k - 1]) /\ Tells(u[k - 1], events[k], u[k])
    BY <1>1, <1>8
  <2>3. Pending(Heard(after[k - 1], events[k]), rows, u[k])
    BY <2>2, HeardKeeps
  <2> QED
    BY <2>1, <2>3
<1>9. n \in T
  <2> HIDE DEF T
  <2>1. \A k \in 1..n : k - 1 \in T => k \in T
    BY <1>8
  <2>2. \A k \in 0..n : k \in T
    BY <1>7, <2>1, UpTo
  <2> QED
    BY <2>2
<1> QED
  BY <1>1, <1>6, <1>9

-----------------------------------------------------------------------------
(* The inductive invariant.                                                *)

\* World w is the list as it is, as far as its items go.
Agrees(w) ==
    /\ w \in World /\ w.ids = items
    /\ \A i \in Range(items) : w.version[i] = state[i] /\ w.overlay[i] = overlay[i]

Typed ==
    /\ items \in Seq(Items) /\ gone \in SUBSET Items
    /\ \A j, k \in DOMAIN items : items[j] = items[k] => j = k
    /\ state \in [Items -> Versions] /\ overlay \in [Items -> Overlays]
    /\ account \in Nat /\ account <= used["change"] + 1 /\ account <= MaxChanges + 1
    /\ viewed \in BOOLEAN
    /\ used \in [{"change", "push"} -> Nat]
    /\ \A i \in Items : state[i].own <= used["change"] + 1 /\ overlay[i] <= used["push"] + 1
    /\ ~viewed => \A i \in Items : state[i].mixed = NoAccount

\* The list that message k starts from, and the one that the last message leads to.
Base(k) == IF k = 1 THEN view ELSE listings[k - 1]
Final   == IF listings = << >> THEN view ELSE listings[Len(listings)]

UnderWay ==
    /\ channel \in Seq(Seq(Entry)) /\ listings \in Seq(Seq(Row)) /\ view \in Seq(Row)
    /\ Len(channel) = Len(listings)
    /\ \A k \in 1..Len(listings) : Stands(Base(k), channel[k], listings[k])

Kept ==
    /\ viewed => \E w : Agrees(w) /\ Pending(proxy, Final, w)
    /\ ~viewed => proxy = Clean /\ listings = << >> /\ view = << >>

IInv == Typed /\ UnderWay /\ Kept

\* The rows of a world that agrees with the list are the listing.
LEMMA AgreesShown ==
    ASSUME NEW w, Agrees(w)
    PROVE  Shown(w) = Listing /\ Listing \in Seq(Row)
<1>1. Shown(w) = Listing
  BY DEF Agrees, Shown, Listing, Range
<1>2. Shown(w) \in Seq(Row)
  BY ShownRows DEF Agrees
<1> QED
  BY <1>1, <1>2

\* With nothing pending, the list is where it is.
LEMMA CleanPending ==
    ASSUME NEW w \in World
    PROVE  Pending(Clean, Shown(w), w)
<1>1. /\ Clean.changes = << >> /\ Clean.at = << >> /\ Clean.dirty = FALSE
      /\ Clean = [changes |-> Clean.changes, at |-> Clean.at, dirty |-> Clean.dirty]
  BY DEF Clean
<1>2. << >> \in Seq(Entry) /\ Len(<< >>) = 0 /\ DOMAIN << >> = {}
  OBVIOUS
<1>3. PICK t : t = [k \in 0..0 |-> w]
  OBVIOUS
<1>4. t \in [0..0 -> World] /\ t[0] = w
  BY <1>3
<1>5. 1..0 = {}
  OBVIOUS
<1>6. Way(t, Shown(w), << >>, w)
  BY <1>2, <1>4, <1>5 DEF Way
<1> QED
  BY <1>1, <1>2, <1>6 DEF Pending

\* The list as it is.
LEMMA NowAgrees ==
    ASSUME Typed
    PROVE  \E w : Agrees(w)
<1>1. Agrees([ids |-> items, version |-> state, overlay |-> overlay])
  BY DEF Typed, Agrees, World
<1> QED
  BY <1>1

\* The invariant implies the types.
LEMMA TypesHold ==
    ASSUME IInv
    PROVE  TypeOK /\ Listing \in Seq(Row)
<1>1. Listing \in Seq(Row)
  BY NowAgrees, AgreesShown DEF IInv
<1>2. /\ proxy.changes \in Seq(Entry) /\ proxy.dirty \in BOOLEAN
      /\ DOMAIN proxy.at \in SUBSET Range(items)
      /\ \A i \in DOMAIN proxy.at : proxy.at[i] \in DOMAIN proxy.changes
  <2>1. CASE viewed
    BY <2>1 DEF IInv, Kept, Agrees, Pending, Owns
  <2>2. CASE ~viewed
    <3>1. proxy = Clean
      BY <2>2 DEF IInv, Kept
    <3>2. DOMAIN Clean.at = {} /\ Clean.changes = << >> /\ Clean.dirty = FALSE
      BY DEF Clean
    <3>3. << >> \in Seq(Entry)
      OBVIOUS
    <3> QED
      BY <3>1, <3>2, <3>3
  <2> QED
    BY <2>1, <2>2
<1>3. account \in 0..(MaxChanges + 1)
  BY EntireListAssumption DEF IInv, Typed
<1> QED
  BY <1>1, <1>2, <1>3 DEF IInv, Typed, UnderWay, TypeOK

\* A list that nobody has asked for.
LEMMA InitHolds == Init => IInv
<1> SUFFICES ASSUME Init PROVE IInv
  OBVIOUS
<1>1. PICK S \in SUBSET Items : items \in SetToSeqs(S)
  BY DEF Init
<1>2. Cardinality(S) \in Nat
  BY EntireListAssumption, FS_Subset, FS_CardinalityType
<1>3. /\ items \in [1..Cardinality(S) -> S]
      /\ \A j, k \in 1..Cardinality(S) : j # k => items[j] # items[k]
  BY <1>1 DEF SetToSeqs
<1>4. items \in Seq(Items) /\ \A j, k \in DOMAIN items : items[j] = items[k] => j = k
  BY <1>2, <1>3
<1>5. Typed
  <2>1. [own |-> 1, mixed |-> NoAccount] \in Versions /\ 1 \in Overlays
    BY EntireListAssumption DEF Versions, Overlays, NoAccount
  <2>2. /\ state \in [Items -> Versions] /\ overlay \in [Items -> Overlays]
        /\ \A i \in Items : state[i].own = 1 /\ state[i].mixed = NoAccount /\ overlay[i] = 1
    BY <2>1 DEF Init
  <2>3. /\ used \in [{"change", "push"} -> Nat] /\ used["change"] = 0 /\ used["push"] = 0
        /\ gone \in SUBSET Items /\ viewed \in BOOLEAN /\ account \in {0, 1} /\ MaxChanges \in Nat
    BY EntireListAssumption DEF Init, NoAccount
  <2> QED
    BY <1>4, <2>2, <2>3 DEF Typed
<1>6. UnderWay /\ Kept
  BY DEF Init, UnderWay, Kept
<1> QED
  BY <1>5, <1>6 DEF IInv

-----------------------------------------------------------------------------
(* The steps.                                                              *)

\* What is told of is pending, if the events lead to the list as it is then.
LEMMA TellKeeps ==
    ASSUME Kept, NEW events, Tell(events), Len(events) \in Nat,
           UNCHANGED <<viewed, channel, listings, view>>,
           \A w : Agrees(w) =>
              \E u : /\ u[0] = w /\ Agrees(u[Len(events)])'
                     /\ \A k \in 1..Len(events) : Tells(u[k - 1], events[k], u[k])
    PROVE  Kept'
<1>1. CASE ~viewed
  BY <1>1 DEF Kept, Tell
<1>2. CASE viewed
  <2>1. PICK w : Agrees(w) /\ Pending(proxy, Final, w)
    BY <1>2 DEF Kept
  <2>2. PICK u : /\ u[0] = w /\ Agrees(u[Len(events)])'
                 /\ \A k \in 1..Len(events) : Tells(u[k - 1], events[k], u[k])
    BY <2>1
  <2>3. PICK n \in Nat : n = Len(events)
    OBVIOUS
  <2>4. Pending(HeardAll(proxy, events), Final, u[n])
    BY <2>1, <2>2, <2>3, HeardAllKeeps
  <2>5. PICK v : v = u[n]
    OBVIOUS
  <2>6. proxy' = HeardAll(proxy, events) /\ Final' = Final
    BY <1>2 DEF Tell, Final
  <2>7. Agrees(v)'
    BY <2>2, <2>3, <2>5
  <2>8. Pending(proxy', Final', v)
    BY <2>4, <2>5, <2>6
  <2> QED
    BY <1>2, <2>7, <2>8 DEF Kept
<1> QED
  BY <1>1, <1>2

LEMMA OneIsNat == 1 \in Nat
OBVIOUS

\* The same for one event.
LEMMA TellOneKeeps ==
    ASSUME Kept, NEW e, Tell(<<e>>), UNCHANGED <<viewed, channel, listings, view>>,
           \A w : Agrees(w) => \E v : Agrees(v)' /\ Tells(w, e, v)
    PROVE  Kept'
<1>1. PICK events : events = <<e>>
  OBVIOUS
<1>2. Len(events) = 1 /\ events[1] = e /\ Tell(events)
  BY <1>1
<1>3. ASSUME NEW w, Agrees(w)
      PROVE  \E u : /\ u[0] = w /\ Agrees(u[Len(events)])'
                    /\ \A k \in 1..Len(events) : Tells(u[k - 1], events[k], u[k])
  <2>1. PICK v : Agrees(v)' /\ Tells(w, e, v)
    BY <1>3
  <2>2. PICK u : u = [k \in 0..1 |-> IF k = 0 THEN w ELSE v]
    OBVIOUS
  <2>3. u[0] = w /\ u[1] = v
    BY <2>2
  <2>4. Agrees(u[1])'
    BY <2>1, <2>3
  <2>5. \A k \in 1..1 : Tells(u[k - 1], events[k], u[k])
    BY <1>2, <2>1, <2>3
  <2> QED
    BY <1>2, <2>3, <2>4, <2>5
<1>4. \A w : Agrees(w) =>
         \E u : /\ u[0] = w /\ Agrees(u[Len(events)])'
               /\ \A k \in 1..Len(events) : Tells(u[k - 1], events[k], u[k])
  BY <1>3
<1> QED
  BY ZenonT(60), <1>2, <1>4, TellKeeps, OneIsNat

\* A version or an overlay that the bound allows to be counted up.
LEMMA Counts ==
    ASSUME Typed
    PROVE  /\ Spend("change", MaxChanges) =>
                 /\ used' \in [{"change", "push"} -> Nat]
                 /\ used'["change"] = used["change"] + 1 /\ used'["push"] = used["push"]
                 /\ \A i \in Items : [state[i] EXCEPT !.own = @ + 1] \in Versions
                 /\ account + 1 <= used["change"] + 2 /\ account + 1 <= MaxChanges + 1
           /\ Spend("push", MaxPushes) =>
                 /\ used' \in [{"change", "push"} -> Nat]
                 /\ used'["push"] = used["push"] + 1 /\ used'["change"] = used["change"]
                 /\ \A i \in Items : overlay[i] + 1 \in Overlays
<1>1. used["change"] \in Nat /\ used["push"] \in Nat /\ MaxChanges \in Nat /\ MaxPushes \in Nat
  BY EntireListAssumption DEF Typed
<1>2. \A i \in Items : /\ state[i] \in Versions /\ state[i].own \in Nat /\ state[i].own >= 1
                       /\ overlay[i] \in Nat /\ overlay[i] >= 1
  BY <1>1 DEF Typed, Versions, Overlays
<1>3. ASSUME Spend("change", MaxChanges)
      PROVE  /\ used' \in [{"change", "push"} -> Nat]
             /\ used'["change"] = used["change"] + 1 /\ used'["push"] = used["push"]
             /\ \A i \in Items : [state[i] EXCEPT !.own = @ + 1] \in Versions
             /\ account + 1 <= used["change"] + 2 /\ account + 1 <= MaxChanges + 1
  <2>1. used["change"] < MaxChanges
    BY <1>3 DEF Spend
  <2>2. \A i \in Items : [state[i] EXCEPT !.own = @ + 1] \in Versions
    <3>1. \A i \in Items : state[i].own + 1 \in 1..(MaxChanges + 1)
      BY <1>1, <1>2, <2>1 DEF Typed
    <3> QED
      BY <1>2, <3>1 DEF Versions
  <2>3. account + 1 <= used["change"] + 2 /\ account + 1 <= MaxChanges + 1
    BY <1>1, <2>1 DEF Typed
  <2> QED
    BY <1>1, <1>3, <2>2, <2>3 DEF Spend, Typed
<1>4. ASSUME Spend("push", MaxPushes)
      PROVE  /\ used' \in [{"change", "push"} -> Nat]
             /\ used'["push"] = used["push"] + 1 /\ used'["change"] = used["change"]
             /\ \A i \in Items : overlay[i] + 1 \in Overlays
  <2>1. used["push"] < MaxPushes
    BY <1>4 DEF Spend
  <2>2. \A i \in Items : overlay[i] + 1 \in Overlays
    BY <1>1, <1>2, <2>1 DEF Typed, Overlays
  <2> QED
    BY <1>1, <1>4, <2>2 DEF Spend, Typed
<1> QED
  BY <1>3, <1>4

\* What the wire form adds to versions.
LEMMA WireRepIs ==
    ASSUME NEW ids, NEW versions \in [Items -> Versions], account' \in 0..(MaxChanges + 1)
    PROVE  /\ WireRep(ids, versions) \in [Items -> Versions]
           /\ \A i \in Items : /\ WireRep(ids, versions)[i].own = versions[i].own
                               /\ i \notin ids => WireRep(ids, versions)[i] = versions[i]
                               /\ ~viewed => WireRep(ids, versions)[i] = versions[i]
<1>1. ASSUME NEW i \in Items
      PROVE  /\ [versions[i] EXCEPT !.mixed = account'] \in Versions
             /\ [versions[i] EXCEPT !.mixed = account'].own = versions[i].own
  BY DEF Versions
<1> QED
  BY <1>1 DEF WireRep

\* What an event says is what the items are.
LEMMA EventSays ==
    ASSUME NEW list \in Seq(Items), NEW states \in [Items -> Versions],
           NEW overlays \in [Items -> Overlays], NEW k \in 1..Len(list), NEW on
    PROVE  LET e == Event(on, k, list, states, overlays)
           IN /\ e.on = on /\ e.index = k /\ e.index \in Nat \ {0}
              /\ e.item \in State /\ e.overlays \in Overlays
              /\ e.item.id = list[k] /\ e.item.version = states[list[k]]
              /\ e.overlays = overlays[list[k]] /\ list[k] \in Items
BY DEF Event, State

\* __addAccount, _addFolder.
LEMMA AddItemKeeps ==
    ASSUME IInv, NEW i \in Items, NEW k \in 1..(Len(items) + 1), AddItem(i, k)
    PROVE  Typed' /\ Kept'
<1>1. items \in Seq(Items) /\ \A j, l \in DOMAIN items : items[j] = items[l] => j = l
  BY DEF IInv, Typed
<1>2. PICK list : list = items'
  OBVIOUS
<1>3. /\ list = InsertAt(items, k, i) /\ list \in Seq(Items) /\ Len(list) = Len(items) + 1
      /\ \A j \in 1..(Len(items) + 1) :
            list[j] = IF j < k THEN items[j] ELSE IF j = k THEN i ELSE items[j - 1]
  <2>1. list = InsertAt(items, k, i)
    BY <1>2 DEF AddItem
  <2>2. items \in Seq(Items)
    BY <1>1
  <2>3. /\ InsertAt(items, k, i) \in Seq(Items)
        /\ Len(InsertAt(items, k, i)) = Len(items) + 1
        /\ \A j \in 1..(Len(items) + 1) :
              InsertAt(items, k, i)[j] = IF j < k THEN items[j]
                                         ELSE IF j = k THEN i ELSE items[j - 1]
    <3>1. i \in Items /\ k \in 1..(Len(items) + 1)
      OBVIOUS
    <3>2. InsertAt(items, k, i) \in Seq(Items) /\ Inserted(InsertAt(items, k, i), items, k, i)
      BY ONLY <2>2, <3>1, InsertionHolds
    <3> QED
      BY ONLY <3>2 DEF Inserted
  <2> QED
    BY <2>1, <2>3
<1>4. \A j \in DOMAIN items : items[j] # i
  BY DEF AddItem, Range
<1>5. \A j, l \in DOMAIN list : list[j] = list[l] => j = l
  <2> DEFINE was(j) == IF j < k THEN j ELSE j - 1
  <2>0. k \in Nat /\ Len(items) \in Nat /\ DOMAIN items = 1..Len(items)
        /\ DOMAIN list = 1..(Len(items) + 1) /\ k \in 1..(Len(items) + 1)
    BY <1>1, <1>3
  <2>1. \A j \in 1..(Len(items) + 1) : j # k => was(j) \in DOMAIN items /\ list[j] = items[was(j)]
    BY <1>3, <2>0
  <2>2. list[k] = i
    BY <1>3, <2>0
  <2>3. \A j, l \in 1..(Len(items) + 1) : j # k /\ l # k /\ was(j) = was(l) => j = l
    BY <2>0
  <2> HIDE DEF was
  <2> QED
    BY <1>1, <1>4, <2>0, <2>1, <2>2, <2>3
<1>6. \A x \in Range(list) : x = i \/ x \in Range(items)
  BY <1>1, <1>3 DEF Range
<1>s. PICK states : states = state'
  OBVIOUS
<1>t. /\ states \in [Items -> Versions] /\ account' = account
      /\ \A x \in Items : /\ states[x].own = state[x].own
                          /\ x # i => states[x] = state[x]
                          /\ ~viewed => states[x] = state[x]
  <2>1. states = WireRep({i}, state) /\ account' = account
    BY <1>s DEF AddItem
  <2>2. state \in [Items -> Versions] /\ account' \in 0..(MaxChanges + 1)
    BY <2>1, EntireListAssumption DEF IInv, Typed
  <2> QED
    BY <2>1, <2>2, WireRepIs
<1>7. Typed'
  <2>1. /\ items' = list /\ state' = states /\ account' = account
        /\ UNCHANGED <<gone, overlay, viewed, used>>
    BY <1>2, <1>s, <1>t DEF AddItem
  <2>2. /\ list \in Seq(Items) /\ gone' \in SUBSET Items
        /\ \A j, l \in DOMAIN list : list[j] = list[l] => j = l
        /\ states \in [Items -> Versions] /\ overlay' \in [Items -> Overlays]
    BY <1>3, <1>5, <1>t, <2>1 DEF IInv, Typed
  <2>3. /\ \A x \in Items : states[x].own <= used'["change"] + 1 /\ overlay'[x] <= used'["push"] + 1
        /\ ~viewed' => \A x \in Items : states[x].mixed = NoAccount
    <3>1. /\ \A x \in Items : state[x].own <= used["change"] + 1 /\ overlay[x] <= used["push"] + 1
          /\ ~viewed => \A x \in Items : state[x].mixed = NoAccount
      BY DEF IInv, Typed
    <3>2. used' = used /\ overlay' = overlay /\ viewed' = viewed
      BY <2>1
    <3>3. \A x \in Items : states[x].own = state[x].own /\ (~viewed => states[x].mixed = state[x].mixed)
      BY <1>t
    <3> QED
      BY ONLY <3>1, <3>2, <3>3
  <2>4. /\ account' \in Nat /\ account' <= used'["change"] + 1 /\ account' <= MaxChanges + 1
        /\ viewed' \in BOOLEAN /\ used' \in [{"change", "push"} -> Nat]
    BY <2>1 DEF IInv, Typed
  <2> QED
    BY <2>1, <2>2, <2>3, <2>4 DEF Typed
<1> DEFINE e == Event("add", k, list, states, overlay)
<1>8. k \in 1..Len(list) /\ list[k] = i
  BY <1>1, <1>3
<1>9. /\ e.on = "add" /\ e.index = k /\ e.index \in Nat \ {0}
      /\ e.item \in State /\ e.overlays \in Overlays
      /\ e.item.id = i /\ e.item.version = states[i] /\ e.overlays = overlay[i]
  <2>1. list \in Seq(Items) /\ states \in [Items -> Versions] /\ overlay \in [Items -> Overlays]
    BY <1>3, <1>t DEF IInv, Typed
  <2> QED
    BY <1>8, <2>1, EventSays
<1>10. Tell(<<e>>)
  BY <1>2, <1>s DEF AddItem
<1> HIDE DEF e
<1>11. ASSUME NEW w, Agrees(w) PROVE \E v : Agrees(v)' /\ Tells(w, e, v)
  <2> DEFINE v == [ids |-> list, version |-> [w.version EXCEPT ![i] = states[i]],
                   overlay |-> [w.overlay EXCEPT ![i] = overlay[i]]]
  <2>1. /\ w \in World /\ w.ids = items
        /\ w.version \in [Items -> Versions] /\ w.overlay \in [Items -> Overlays]
        /\ states \in [Items -> Versions] /\ overlay \in [Items -> Overlays]
    BY <1>11, <1>t DEF Agrees, World, IInv, Typed
  <2>2. v \in World
    BY <1>3, <1>5, <2>1 DEF World
  <2>3. \A x \in Range(list) : v.version[x] = states[x] /\ v.overlay[x] = overlay[x]
    <3>1. i \in Items /\ \A x \in Range(items) : x \in Items
      BY <1>1 DEF Range
    <3>2. \A x \in Range(items) : w.version[x] = state[x] /\ w.overlay[x] = overlay[x]
      BY <1>11 DEF Agrees
    <3>3. v.version[i] = states[i] /\ v.overlay[i] = overlay[i]
      BY <2>1, <3>1
    <3>4. ASSUME NEW x \in Range(items), x # i
          PROVE  v.version[x] = states[x] /\ v.overlay[x] = overlay[x]
      <4>1. x \in Items /\ states[x] = state[x]
        BY <1>t, <3>1, <3>4
      <4>2. v.version[x] = w.version[x] /\ v.overlay[x] = w.overlay[x]
        BY <2>1, <3>4, <4>1
      <4> QED
        BY <3>2, <4>1, <4>2
    <3> HIDE DEF v
    <3> QED
      BY <1>6, <3>3, <3>4
  <2>4. /\ EntryOf(e).type = "add" /\ EntryOf(e).index = k
        /\ EntryOf(e).state = e.item /\ EntryOf(e).overlays = e.overlays
    BY <1>9 DEF EntryOf
  <2>5. Adds(w, EntryOf(e), v)
    BY <1>3, <1>9, <2>1, <2>4, NoneIsNoState DEF Adds
  <2>6. Tells(w, e, v)
    BY <1>9, <2>2, <2>4, <2>5 DEF Tells, Turns, Subject
  <2>7. state' = states /\ overlay' = overlay /\ v.ids = list
    BY <1>s DEF AddItem
  <2> HIDE DEF v
  <2>8. PICK z : z = v
    OBVIOUS
  <2>9. Agrees(z)'
    BY <1>2, <2>2, <2>3, <2>7, <2>8 DEF Agrees
  <2> QED
    BY <2>6, <2>8, <2>9
<1>12. Kept'
  BY <1>10, <1>11, TellOneKeeps DEF IInv, AddItem
<1> QED
  BY <1>7, <1>12

\* _removeFolderById, __removeAccountById.
LEMMA RemoveItemKeeps ==
    ASSUME IInv, NEW k \in DOMAIN items, RemoveItem(k)
    PROVE  Typed' /\ Kept'
<1>1. items \in Seq(Items) /\ \A j, l \in DOMAIN items : items[j] = items[l] => j = l
  BY DEF IInv, Typed
<1>2. PICK list : list = items'
  OBVIOUS
<1>3. /\ list = RemoveAt(items, k) /\ list \in Seq(Items) /\ Len(list) = Len(items) - 1
      /\ \A j \in 1..(Len(items) - 1) :
            list[j] = IF j < k THEN items[j] ELSE items[j + 1]
  <2>1. list = RemoveAt(items, k)
    BY <1>2 DEF RemoveItem
  <2>2. items \in Seq(Items)
    BY <1>1
  <2>3. /\ RemoveAt(items, k) \in Seq(Items)
        /\ Len(RemoveAt(items, k)) = Len(items) - 1
        /\ \A j \in 1..(Len(items) - 1) :
              RemoveAt(items, k)[j] = IF j < k THEN items[j] ELSE items[j + 1]
    BY <2>2, Removal
  <2> QED
    BY <2>1, <2>3
<1> DEFINE was(j) == IF j < k THEN j ELSE j + 1
<1>a. k \in Nat /\ Len(items) \in Nat /\ DOMAIN items = 1..Len(items)
      /\ DOMAIN list = 1..(Len(items) - 1) /\ k \in 1..Len(items)
  <2>1. items \in Seq(Items) /\ list \in Seq(Items) /\ Len(list) = Len(items) - 1
    BY <1>1, <1>3
  <2> QED
    BY <2>1
<1>b. \A j \in 1..(Len(items) - 1) : was(j) \in DOMAIN items /\ list[j] = items[was(j)]
  BY <1>3, <1>a
<1>4. \A j, l \in DOMAIN list : list[j] = list[l] => j = l
  <2>1. \A j, l \in 1..(Len(items) - 1) : was(j) = was(l) => j = l
    BY <1>a
  <2> HIDE DEF was
  <2> QED
    BY <1>1, <1>a, <1>b, <2>1
<1>5. \A x \in Range(list) : x \in Range(items)
  <2> HIDE DEF was
  <2> QED
    BY <1>a, <1>b DEF Range
<1>6. k \in 1..Len(items) /\ items[k] \in Items
  BY <1>1
<1>7. Typed'
  BY <1>2, <1>3, <1>4, <1>6 DEF IInv, Typed, RemoveItem
<1> DEFINE e == Event("remove", k, items, state, overlay)
<1>8. /\ e.on = "remove" /\ e.index = k /\ e.index \in Nat \ {0}
      /\ e.item \in State /\ e.overlays \in Overlays /\ e.item.id = items[k]
  <2>1. items \in Seq(Items) /\ state \in [Items -> Versions] /\ overlay \in [Items -> Overlays]
    BY DEF IInv, Typed
  <2> QED
    BY <1>6, <2>1, EventSays
<1>9. Tell(<<e>>)
  BY DEF RemoveItem
<1> HIDE DEF e
<1>10. ASSUME NEW w, Agrees(w) PROVE \E v : Agrees(v)' /\ Tells(w, e, v)
  <2> DEFINE v == [ids |-> list, version |-> w.version, overlay |-> w.overlay]
  <2>1. /\ w \in World /\ w.ids = items
        /\ w.version \in [Items -> Versions] /\ w.overlay \in [Items -> Overlays]
    BY <1>10 DEF Agrees, World
  <2>2. v \in World
    BY <1>3, <1>4, <2>1 DEF World
  <2>3. \A x \in Range(list) : v.version[x] = state[x] /\ v.overlay[x] = overlay[x]
    BY <1>5, <1>10 DEF Agrees
  <2>4. EntryOf(e).type = "remove" /\ EntryOf(e).index = k
    BY <1>8 DEF EntryOf
  <2>5. Removes(w, EntryOf(e), v)
    BY <1>3, <2>1, <2>4 DEF Removes
  <2>6. Tells(w, e, v)
    BY <1>8, <2>1, <2>2, <2>4, <2>5 DEF Tells, Turns, Subject
  <2>7. state' = state /\ overlay' = overlay /\ v.ids = list
    BY DEF RemoveItem
  <2> HIDE DEF v
  <2>8. Agrees(v)'
    BY <1>2, <2>2, <2>3, <2>7 DEF Agrees
  <2> QED
    BY <2>6, <2>8
<1>11. Kept'
  BY <1>9, <1>10, TellOneKeeps DEF IInv, RemoveItem
<1> QED
  BY <1>7, <1>11

\* _onTOCChange, __accountModified.
LEMMA ChangeItemKeeps ==
    ASSUME IInv, NEW k \in DOMAIN items, ChangeItem(k)
    PROVE  Typed' /\ Kept'
<1>1. /\ items \in Seq(Items) /\ state \in [Items -> Versions]
      /\ overlay \in [Items -> Overlays]
  BY DEF IInv, Typed
<1>2. k \in 1..Len(items) /\ items[k] \in Items
  BY <1>1
<1>3. PICK states : states = state'
  OBVIOUS
<1>4. /\ used' \in [{"change", "push"} -> Nat]
      /\ used'["change"] = used["change"] + 1 /\ used'["push"] = used["push"]
      /\ \A i \in Items : [state[i] EXCEPT !.own = @ + 1] \in Versions
  BY Counts DEF IInv, ChangeItem
<1>5. /\ states \in [Items -> Versions] /\ account' = account
      /\ \A i \in Items : /\ i # items[k] => states[i] = state[i]
                          /\ states[i].own = IF i = items[k] THEN state[i].own + 1 ELSE state[i].own
                          /\ ~viewed => states[i].mixed = state[i].mixed
  <2>1. PICK versions : versions = [state EXCEPT ![items[k]].own = @ + 1]
    OBVIOUS
  <2>2. /\ versions \in [Items -> Versions]
        /\ \A i \in Items : /\ i # items[k] => versions[i] = state[i]
                            /\ versions[i].own = IF i = items[k] THEN state[i].own + 1 ELSE state[i].own
                            /\ versions[i].mixed = state[i].mixed
    <3>1. \A i \in Items : versions[i] = IF i = items[k] THEN [state[i] EXCEPT !.own = @ + 1] ELSE state[i]
      BY <1>1, <2>1
    <3>2. versions \in [Items -> Versions]
      <4>1. DOMAIN versions = Items /\ versions = [i \in Items |-> versions[i]]
        BY <1>1, <2>1
      <4>2. \A i \in Items : versions[i] \in Versions
        BY <1>1, <1>4, <3>1
      <4> QED
        BY <4>1, <4>2
    <3>3. \A i \in Items : state[i] \in Versions
      BY <1>1
    <3> QED
      BY <3>1, <3>2, <3>3 DEF Versions
  <2>3. states = WireRep({items[k]}, versions) /\ account' = account
    BY <1>3, <2>1 DEF ChangeItem
  <2>4. account' \in 0..(MaxChanges + 1)
    BY <2>3, EntireListAssumption DEF IInv, Typed
  <2> QED
    BY <2>2, <2>3, <2>4, WireRepIs
<1>6. Typed'
  <2>1. \A i \in Items : state[i].own \in Nat
    BY <1>1, EntireListAssumption DEF Versions
  <2>2. used["change"] \in Nat /\ account \in Nat
    BY DEF IInv, Typed
  <2>a. /\ \A i \in Items : state[i].own <= used["change"] + 1 /\ overlay[i] <= used["push"] + 1
        /\ account <= used["change"] + 1
    BY DEF IInv, Typed
  <2>b. ASSUME NEW i \in Items PROVE states[i].own <= used'["change"] + 1
    <3>1. PICK a \in Nat, b \in Nat : a = state[i].own /\ b = used["change"] /\ a <= b + 1
      BY <2>1, <2>2, <2>a
    <3>2. used'["change"] = b + 1 /\ (states[i].own = a \/ states[i].own = a + 1)
      BY <1>4, <1>5, <3>1
    <3> QED
      BY <3>1, <3>2
  <2>c. account' \in Nat /\ account' <= used'["change"] + 1 /\ account' <= MaxChanges + 1
    BY <1>4, <1>5, <2>2, <2>a DEF IInv, Typed
  <2>3. \A i \in Items : /\ states[i].own <= used'["change"] + 1
                         /\ overlay[i] <= used'["push"] + 1
    BY <1>4, <2>a, <2>b
  <2>4. ~viewed => \A i \in Items : states[i].mixed = NoAccount
    BY <1>5 DEF IInv, Typed
  <2> QED
    BY <1>3, <1>4, <1>5, <2>3, <2>4, <2>c DEF IInv, Typed, ChangeItem
<1> DEFINE e == Event("change", k, items, states, overlay)
<1>7. /\ e.on = "change" /\ e.index = k /\ e.index \in Nat \ {0}
      /\ e.item \in State /\ e.overlays \in Overlays
      /\ e.item.id = items[k] /\ e.item.version = states[items[k]]
  <2>1. states \in [Items -> Versions]
    BY <1>5
  <2> QED
    BY <1>1, <1>2, <2>1, EventSays
<1>8. Tell(<<e>>)
  BY <1>3 DEF ChangeItem
<1> HIDE DEF e
<1>9. ASSUME NEW w, Agrees(w) PROVE \E v : Agrees(v)' /\ Tells(w, e, v)
  <2>1. PICK v : v = Amended(w, items[k], e.item, 0)
    OBVIOUS
  <2>2. /\ w \in World /\ w.ids = items
        /\ w.version \in [Items -> Versions] /\ w.overlay \in [Items -> Overlays]
    BY <1>9 DEF Agrees, World
  <2>3. v \in World
    BY <1>2, <1>7, <2>1, <2>2, AmendedWorld
  <2>4. e.item # None
    BY <1>7, NoneIsNoState
  <2>5. v.ids = items /\ v.version = [w.version EXCEPT ![items[k]] = e.item.version]
        /\ v.overlay = w.overlay
    BY <2>1, <2>2, <2>4 DEF Amended
  <2>6. \A x \in Range(items) : v.version[x] = states[x] /\ v.overlay[x] = overlay[x]
    <3>1. \A x \in Range(items) : x \in Items
      BY <1>1 DEF Range
    <3> QED
      BY <1>5, <1>7, <1>9, <2>2, <2>5, <3>1 DEF Agrees
  <2>7. /\ EntryOf(e).type = "change" /\ EntryOf(e).index = k
        /\ EntryOf(e).state = e.item /\ EntryOf(e).overlays = 0
    BY <1>7 DEF EntryOf
  <2>8. Changes(w, EntryOf(e), v)
    BY <1>7, <2>1, <2>2, <2>7 DEF Changes
  <2>9. Tells(w, e, v)
    BY <1>7, <2>2, <2>3, <2>7, <2>8 DEF Tells, Turns, Subject
  <2>10. items' = items /\ overlay' = overlay
    BY DEF ChangeItem
  <2>11. Agrees(v)'
    BY <1>3, <2>3, <2>5, <2>6, <2>10 DEF Agrees
  <2> QED
    BY <2>9, <2>11
<1>10. Kept'
  BY <1>8, <1>9, TellOneKeeps DEF IInv, ChangeItem
<1> QED
  BY <1>6, <1>10

\* announceUpdatedOverlayData, of an item that is listed or not.
LEMMA PushOverlayKeeps ==
    ASSUME IInv, NEW i \in Items, PushOverlay(i)
    PROVE  Typed' /\ Kept'
<1>1. /\ items \in Seq(Items) /\ state \in [Items -> Versions]
      /\ overlay \in [Items -> Overlays]
  BY DEF IInv, Typed
<1>3. PICK overlays : overlays = overlay'
  OBVIOUS
<1>4. /\ used' \in [{"change", "push"} -> Nat]
      /\ used'["push"] = used["push"] + 1 /\ used'["change"] = used["change"]
      /\ \A j \in Items : overlay[j] + 1 \in Overlays
  BY Counts DEF IInv, PushOverlay
<1>5. /\ overlays \in [Items -> Overlays]
      /\ \A j \in Items : overlays[j] = IF j = i THEN overlay[j] + 1 ELSE overlay[j]
  BY <1>1, <1>3, <1>4 DEF PushOverlay
<1>6. Typed'
  <2>1. \A j \in Items : overlay[j] \in Nat
    BY <1>1, EntireListAssumption DEF Overlays
  <2>2. used["push"] \in Nat
    BY DEF IInv, Typed
  <2>a. \A j \in Items : state[j].own <= used["change"] + 1 /\ overlay[j] <= used["push"] + 1
    BY DEF IInv, Typed
  <2>b. ASSUME NEW j \in Items PROVE overlays[j] <= used'["push"] + 1
    <3>1. PICK a \in Nat, b \in Nat : a = overlay[j] /\ b = used["push"] /\ a <= b + 1
      BY <2>1, <2>2, <2>a
    <3>2. used'["push"] = b + 1 /\ (overlays[j] = a \/ overlays[j] = a + 1)
      BY <1>4, <1>5, <3>1
    <3> QED
      BY <3>1, <3>2
  <2>3. \A j \in Items : /\ state[j].own <= used'["change"] + 1
                         /\ overlays[j] <= used'["push"] + 1
    BY <1>4, <2>a, <2>b
  <2> QED
    BY <1>3, <1>4, <1>5, <2>3 DEF IInv, Typed, PushOverlay
<1>7. /\ items' = items /\ state' = state
      /\ UNCHANGED <<viewed, channel, listings, view>>
  BY DEF PushOverlay
<1>8. CASE i \notin Range(items)
  <2>1. proxy' = proxy /\ Final' = Final
    BY <1>7, <1>8 DEF PushOverlay, Final
  <2>2. ASSUME NEW w, Agrees(w) PROVE Agrees(w)'
    <3>1. \A x \in Range(items) : x \in Items /\ x # i
      BY <1>1, <1>8 DEF Range
    <3>2. \A x \in Range(items) : w.version[x] = state[x] /\ w.overlay[x] = overlays[x]
      BY <1>5, <2>2, <3>1 DEF Agrees
    <3> QED
      BY <1>3, <1>7, <2>2, <3>2 DEF Agrees
  <2>3. ASSUME viewed PROVE \E w : Agrees(w)' /\ Pending(proxy', Final', w)
    <3>1. PICK w : Agrees(w) /\ Pending(proxy, Final, w)
      BY <2>3 DEF IInv, Kept
    <3>2. Agrees(w)' /\ Pending(proxy', Final', w)
      BY <2>1, <2>2, <3>1
    <3> QED
      BY <3>2
  <2>4. ASSUME ~viewed PROVE proxy' = Clean /\ listings = << >> /\ view = << >>
    BY <2>1, <2>4 DEF IInv, Kept
  <2> QED
    BY <1>6, <1>7, <2>3, <2>4 DEF Kept
<1>9. CASE i \in Range(items)
  <2>1. PICK k \in DOMAIN items :
           items[k] = i /\ Tell(<<Event("push", k, items, state, overlay')>>)
    BY <1>9 DEF PushOverlay
  <2> DEFINE e == Event("push", k, items, state, overlays)
  <2>2. k \in 1..Len(items)
    BY <1>1
  <2>3. /\ e.on = "push" /\ e.index = k /\ e.index \in Nat \ {0}
        /\ e.item \in State /\ e.overlays \in Overlays
        /\ e.item.id = i /\ e.overlays = overlays[i]
    BY <1>1, <1>5, <2>1, <2>2, EventSays
  <2>4. Tell(<<e>>)
    BY <1>3, <2>1
  <2> HIDE DEF e
  <2>5. ASSUME NEW w, Agrees(w) PROVE \E v : Agrees(v)' /\ Tells(w, e, v)
    <3>1. PICK v : v = Amended(w, i, None, e.overlays)
      OBVIOUS
    <3>2. /\ w \in World /\ w.ids = items
          /\ w.version \in [Items -> Versions] /\ w.overlay \in [Items -> Overlays]
      BY <2>5 DEF Agrees, World
    <3>3. v \in World
      BY <2>3, <3>1, <3>2, AmendedWorld
    <3>4. e.overlays # 0
      BY <2>3, NoneIsNoState
    <3>5. v.ids = items /\ v.overlay = [w.overlay EXCEPT ![i] = e.overlays]
          /\ v.version = w.version
      BY <3>1, <3>2, <3>4 DEF Amended
    <3>6. \A x \in Range(items) : v.version[x] = state[x] /\ v.overlay[x] = overlays[x]
      <4>1. \A x \in Range(items) : x \in Items
        BY <1>1 DEF Range
      <4> QED
        BY <1>5, <2>3, <2>5, <3>2, <3>5, <4>1 DEF Agrees
    <3>7. /\ EntryOf(e).type = "change" /\ EntryOf(e).index = k
          /\ EntryOf(e).state = None /\ EntryOf(e).overlays = e.overlays
      BY <2>3 DEF EntryOf
    <3>8. Changes(w, EntryOf(e), v)
      BY <2>1, <3>1, <3>2, <3>7 DEF Changes
    <3>9. Tells(w, e, v)
      BY <2>1, <2>3, <3>2, <3>3, <3>7, <3>8 DEF Tells, Turns, Subject
    <3>10. Agrees(v)'
      BY <1>3, <1>7, <3>3, <3>5, <3>6 DEF Agrees
    <3> QED
      BY <3>9, <3>10
  <2>6. Kept'
    BY <1>7, <2>4, <2>5, TellOneKeeps DEF IInv
  <2> QED
    BY <1>6, <2>6
<1> QED
  BY <1>8, <1>9

\* The events that tell of something new of every item.
OfAll(on, states, overlays, events) ==
    /\ on \in {"change", "push"}
    /\ states \in [Items -> Versions] /\ overlays \in [Items -> Overlays]
    /\ on = "change" => overlays = overlay
    /\ on = "push" => states = state
    /\ Len(events) = Len(items)
    /\ \A k \in 1..Len(items) : events[k] = Event(on, k, items, states, overlays)

\* u leads from world w to one that has what is new.
Leads(u, w, states, overlays, events) ==
    /\ u[0] = w
    /\ \A k \in 1..Len(events) : Tells(u[k - 1], events[k], u[k])
    /\ u[Len(events)] \in World /\ u[Len(events)].ids = items
    /\ \A i \in Range(items) : /\ u[Len(events)].version[i] = states[i]
                               /\ u[Len(events)].overlay[i] = overlays[i]

\* When something of every item is new: in world k, it is of the first k.
LEMMA AllTell ==
    ASSUME Typed, NEW on, NEW states, NEW overlays, NEW events,
           OfAll(on, states, overlays, events), NEW w, Agrees(w)
    PROVE  \E u : Leads(u, w, states, overlays, events)
<1>0. /\ on \in {"change", "push"}
      /\ states \in [Items -> Versions] /\ overlays \in [Items -> Overlays]
      /\ on = "change" => overlays = overlay
      /\ on = "push" => states = state
  BY DEF OfAll
<1>1. PICK n \in Nat : /\ n = Len(items) /\ DOMAIN items = 1..n
                       /\ \A k \in 1..n : items[k] \in Items
  BY DEF Typed
<1>2. Len(events) = n /\ \A k \in 1..n : events[k] = Event(on, k, items, states, overlays)
  BY <1>1 DEF OfAll
<1>3. /\ w = [ids |-> items, version |-> w.version, overlay |-> w.overlay]
      /\ w.version \in [Items -> Versions] /\ w.overlay \in [Items -> Overlays]
      /\ \A j, k \in 1..n : items[j] = items[k] => j = k
      /\ items \in Seq(Items)
  BY <1>1 DEF Agrees, World, Typed
<1>4. \A k \in 1..n : w.version[items[k]] = state[items[k]] /\ w.overlay[items[k]] = overlay[items[k]]
  BY <1>1 DEF Agrees, Range
<1> DEFINE Of(i, k) == \E j \in 1..k : items[j] = i
           ver(k) == [i \in Items |-> IF Of(i, k) THEN states[i] ELSE w.version[i]]
           ovr(k) == [i \in Items |-> IF Of(i, k) THEN overlays[i] ELSE w.overlay[i]]
           world(k) == [ids |-> items, version |-> ver(k), overlay |-> ovr(k)]
<1>5. PICK u : u = [k \in 0..n |-> world(k)]
  OBVIOUS
<1>6. \A k \in 0..n : world(k) \in World
  BY <1>0, <1>1, <1>3 DEF World
<1>7. world(0) = w
  <2>1. ver(0) = w.version /\ ovr(0) = w.overlay
    BY <1>3
  <2> HIDE DEF ver, ovr
  <2> QED
    BY <1>3, <2>1
<1>8. ASSUME NEW k \in 1..n PROVE Tells(world(k - 1), events[k], world(k))
  <2> DEFINE e == events[k]  i == items[k]
  <2>1. e = Event(on, k, items, states, overlays) /\ k \in 1..Len(items)
    BY <1>1, <1>2
  <2>2. /\ e.on = on /\ e.index = k /\ e.index \in Nat \ {0}
        /\ e.item \in State /\ e.overlays \in Overlays
        /\ e.item.id = i /\ e.item.version = states[i] /\ e.overlays = overlays[i]
        /\ i \in Items
    <3>1. items \in Seq(Items)
      BY <1>3
    <3> DEFINE x == Event(on, k, items, states, overlays)
    <3>2. /\ x.on = on /\ x.index = k /\ x.index \in Nat \ {0}
          /\ x.item \in State /\ x.overlays \in Overlays
          /\ x.item.id = items[k] /\ x.item.version = states[items[k]]
          /\ x.overlays = overlays[items[k]] /\ items[k] \in Items
      BY <1>0, <2>1, <3>1, EventSays
    <3> HIDE DEF x
    <3>3. e = x
      BY <2>1 DEF x
    <3> HIDE DEF e
    <3> QED
      BY <3>2, <3>3
  <2>3. e.item # None /\ e.overlays # 0
    BY <2>2, NoneIsNoState
  <2>4. /\ EntryOf(e).type = "change" /\ EntryOf(e).index = k
        /\ EntryOf(e).state = (IF on = "change" THEN e.item ELSE None)
        /\ EntryOf(e).overlays = (IF on = "push" THEN e.overlays ELSE 0)
    BY <1>0, <2>2 DEF EntryOf
  <2> HIDE DEF e
  <2>5. Of(i, k) /\ ~Of(i, k - 1) /\ \A x \in Items : x # i => (Of(x, k) <=> Of(x, k - 1))
    <3>1. \A j \in 1..k : j = k \/ j \in 1..(k - 1)
      OBVIOUS
    <3>2. \A j \in 1..(k - 1) : j \in 1..k /\ j \in 1..n /\ j # k
      BY <1>1
    <3>3. k \in 1..k
      OBVIOUS
    <3> QED
      BY <1>3, <3>1, <3>2, <3>3
  <2>6. ver(k) = IF on = "change" THEN [ver(k - 1) EXCEPT ![i] = states[i]] ELSE ver(k - 1)
    <3>1. on # "change" => states[i] = w.version[i]
      BY <1>0, <1>4
    <3> HIDE DEF Of
    <3> QED
      BY <1>0, <1>3, <2>2, <2>5, <3>1
  <2>7. ovr(k) = IF on = "push" THEN [ovr(k - 1) EXCEPT ![i] = overlays[i]] ELSE ovr(k - 1)
    <3>1. on # "push" => overlays[i] = w.overlay[i]
      BY <1>0, <1>4
    <3> HIDE DEF Of
    <3> QED
      BY <1>0, <1>3, <2>2, <2>5, <3>1
  <2>8. k - 1 \in 0..n /\ k \in 0..n
    OBVIOUS
  <2>9. world(k) \in World
    BY <1>6, <2>8
  <2> HIDE DEF ver, ovr
  <2>10. world(k) = Amended(world(k - 1), i, EntryOf(e).state, EntryOf(e).overlays)
    BY <1>0, <2>2, <2>3, <2>4, <2>6, <2>7 DEF Amended
  <2>11. world(k - 1).ids = items
    OBVIOUS
  <2> HIDE DEF world
  <2>12. Changes(world(k - 1), EntryOf(e), world(k))
    BY <1>1, <2>2, <2>4, <2>10, <2>11 DEF Changes
  <2> QED
    BY <1>0, <2>2, <2>4, <2>9, <2>11, <2>12 DEF Tells, Turns, Subject, e
<1>9. /\ world(n) \in World /\ world(n).ids = items
      /\ \A i \in Range(items) : /\ world(n).version[i] = states[i]
                                 /\ world(n).overlay[i] = overlays[i]
  <2>1. \A i \in Range(items) : i \in Items /\ Of(i, n)
    BY <1>1 DEF Range
  <2> HIDE DEF Of
  <2> QED
    BY <1>6, <2>1
<1> HIDE DEF world
<1>10. \A k \in 0..n : u[k] = world(k)
  BY <1>5
<1>11. \A k \in 1..n : k \in 0..n /\ k - 1 \in 0..n
  OBVIOUS
<1>12. u[0] = w /\ \A k \in 1..n : Tells(u[k - 1], events[k], u[k])
  BY <1>7, <1>8, <1>10, <1>11
<1>13. u[n] = world(n)
  BY <1>10
<1> QED
  BY <1>2, <1>9, <1>12, <1>13 DEF Leads

\* After a change or a push of every item.
LEMMA RenewedBounds ==
    ASSUME NEW values \in [Items -> Nat], NEW bound \in Nat,
           \A i \in Items : values[i] <= bound
    PROVE  /\ Renewed(values) \in [Items -> Nat]
           /\ \A i \in Items : /\ Renewed(values)[i] <= bound + 1
                               /\ Renewed(values)[i] \in {values[i], values[i] + 1}
<1>1. \A i \in Items : /\ Renewed(values)[i] \in {values[i], values[i] + 1}
                       /\ Renewed(values) \in [Items -> Nat]
  BY DEF Renewed
<1>2. ASSUME NEW i \in Items PROVE Renewed(values)[i] <= bound + 1
  BY <1>1
<1>3. Renewed(values) \in [Items -> Nat]
  BY DEF Renewed
<1> QED
  BY <1>1, <1>2, <1>3

\* _onAccountChange.
LEMMA ChangeAllKeeps ==
    ASSUME IInv, ChangeAll
    PROVE  Typed' /\ Kept'
<1>1. /\ items \in Seq(Items) /\ state \in [Items -> Versions]
      /\ overlay \in [Items -> Overlays] /\ Typed /\ Kept
      /\ \A i \in Items : state[i].own <= used["change"] + 1 /\ overlay[i] <= used["push"] + 1
  BY DEF IInv, Typed
<1>3. PICK states : states = state'
  OBVIOUS
<1>4. /\ used' \in [{"change", "push"} -> Nat]
      /\ used'["change"] = used["change"] + 1 /\ used'["push"] = used["push"]
      /\ account + 1 <= used["change"] + 2 /\ account + 1 <= MaxChanges + 1
  BY Counts DEF IInv, ChangeAll
<1>5. account \in Nat /\ used["change"] \in Nat /\ MaxChanges \in Nat /\ account' = account + 1
  BY EntireListAssumption DEF IInv, Typed, ChangeAll
<1>8. /\ states \in [Items -> Versions]
      /\ \A i \in Items : states[i].own = state[i].own /\ (~viewed => states[i] = state[i])
  <2>1. account' \in 0..(MaxChanges + 1)
    BY <1>4, <1>5
  <2>2. states = WireRep(Range(items), state)
    BY <1>3 DEF ChangeAll
  <2> QED
    BY <1>1, <2>1, <2>2, WireRepIs
<1>9. Typed'
  <2>1. \A i \in Items : /\ states[i].own <= used'["change"] + 1
                         /\ overlay[i] <= used'["push"] + 1
    <3>1. \A i \in Items : state[i].own \in Nat
      BY <1>1, <1>5 DEF Versions
    <3> QED
      BY <1>1, <1>4, <1>5, <1>8, <3>1
  <2>2. account' \in Nat /\ account' <= used'["change"] + 1 /\ account' <= MaxChanges + 1
    BY <1>4, <1>5
  <2>3. ~viewed => \A i \in Items : states[i].mixed = NoAccount
    BY <1>8 DEF IInv, Typed
  <2> QED
    BY <1>3, <1>4, <1>8, <2>1, <2>2, <2>3 DEF IInv, Typed, ChangeAll
<1>10. PICK events : events = [k \in DOMAIN items |->
                                  Event("change", k, items, states, overlay)]
  OBVIOUS
<1>11. /\ Tell(events) /\ Len(events) \in Nat /\ Len(events) = Len(items)
       /\ \A k \in 1..Len(items) : events[k] = Event("change", k, items, states, overlay)
  <2>1. PICK n \in Nat : DOMAIN items = 1..n /\ Len(items) = n
    BY <1>1
  <2>2. events = [k \in 1..n |-> Event("change", k, items, states, overlay)]
    BY <1>10, <2>1
  <2>3. Len(events) = n /\ \A k \in 1..n : events[k] = Event("change", k, items, states, overlay)
    BY <2>2
  <2>4. Tell(events)
    BY <1>3, <1>10 DEF ChangeAll
  <2> QED
    BY <2>1, <2>3, <2>4
<1>12. /\ items' = items /\ overlay' = overlay
       /\ UNCHANGED <<viewed, channel, listings, view>>
  BY DEF ChangeAll
<1>13. ASSUME NEW w, Agrees(w)
       PROVE  \E u : /\ u[0] = w /\ Agrees(u[Len(events)])'
                     /\ \A k \in 1..Len(events) : Tells(u[k - 1], events[k], u[k])
  <2>1. PICK u : Leads(u, w, states, overlay, events)
    <3>1. OfAll("change", states, overlay, events)
      BY <1>1, <1>8, <1>11 DEF OfAll
    <3> QED
      BY <1>1, <1>13, <3>1, AllTell
  <2>2. PICK v : v = u[Len(events)]
    OBVIOUS
  <2>3. Agrees(v)'
    BY <1>3, <1>12, <2>1, <2>2 DEF Agrees, Leads
  <2>4. Agrees(u[Len(events)])'
    BY <2>2, <2>3
  <2> QED
    BY <2>1, <2>4 DEF Leads
<1>14. Kept'
  BY <1>1, <1>11, <1>12, <1>13, TellKeeps
<1> QED
  BY <1>9, <1>14

\* _onAccountOverlayCascade.
LEMMA PushAllKeeps ==
    ASSUME IInv, PushAll
    PROVE  Typed' /\ Kept'
<1>1. /\ items \in Seq(Items) /\ state \in [Items -> Versions]
      /\ overlay \in [Items -> Overlays] /\ Typed /\ Kept
      /\ \A i \in Items : state[i].own <= used["change"] + 1 /\ overlay[i] <= used["push"] + 1
  BY DEF IInv, Typed
<1>2. PICK overlays : overlays = Renewed(overlay)
  OBVIOUS
<1>3. overlays = overlay'
  BY <1>2 DEF PushAll
<1>4. /\ used' \in [{"change", "push"} -> Nat]
      /\ used'["push"] = used["push"] + 1 /\ used'["change"] = used["change"]
      /\ \A i \in Items : overlay[i] + 1 \in Overlays
  BY Counts DEF IInv, PushAll
<1>5. PICK bound \in Nat : bound = used["push"] + 1
  BY DEF IInv, Typed
<1>6. overlay \in [Items -> Nat] /\ \A i \in Items : overlay[i] <= bound
  BY <1>1, <1>5 DEF Overlays
<1>7. /\ overlays \in [Items -> Nat]
      /\ \A i \in Items : /\ overlays[i] <= bound + 1
                          /\ overlays[i] \in {overlay[i], overlay[i] + 1}
  BY <1>2, <1>6, RenewedBounds
<1>8. overlays \in [Items -> Overlays]
  BY <1>1, <1>4, <1>7
<1>9. Typed'
  <2>1. \A i \in Items : /\ state[i].own <= used'["change"] + 1
                         /\ overlays[i] <= used'["push"] + 1
    BY <1>1, <1>4, <1>5, <1>7
  <2> QED
    BY <1>3, <1>4, <1>8, <2>1 DEF IInv, Typed, PushAll
<1>10. PICK events : events = [k \in DOMAIN items |->
                                  Event("push", k, items, state, overlays)]
  OBVIOUS
<1>11. /\ Tell(events) /\ Len(events) \in Nat /\ Len(events) = Len(items)
       /\ \A k \in 1..Len(items) : events[k] = Event("push", k, items, state, overlays)
  <2>1. PICK n \in Nat : DOMAIN items = 1..n /\ Len(items) = n
    BY <1>1
  <2>2. events = [k \in 1..n |-> Event("push", k, items, state, overlays)]
    BY <1>10, <2>1
  <2>3. Len(events) = n /\ \A k \in 1..n : events[k] = Event("push", k, items, state, overlays)
    BY <2>2
  <2>4. Tell(events)
    BY <1>3, <1>10 DEF PushAll
  <2> QED
    BY <2>1, <2>3, <2>4
<1>12. /\ items' = items /\ state' = state
       /\ UNCHANGED <<viewed, channel, listings, view>>
  BY DEF PushAll
<1>13. ASSUME NEW w, Agrees(w)
       PROVE  \E u : /\ u[0] = w /\ Agrees(u[Len(events)])'
                     /\ \A k \in 1..Len(events) : Tells(u[k - 1], events[k], u[k])
  <2>1. PICK u : Leads(u, w, state, overlays, events)
    <3>1. OfAll("push", state, overlays, events)
      BY <1>1, <1>8, <1>11 DEF OfAll
    <3> QED
      BY <1>1, <1>13, <3>1, AllTell
  <2>2. PICK v : v = u[Len(events)]
    OBVIOUS
  <2>3. Agrees(v)'
    BY <1>3, <1>12, <2>1, <2>2 DEF Agrees, Leads
  <2>4. Agrees(u[Len(events)])'
    BY <2>2, <2>3
  <2> QED
    BY <2>1, <2>4 DEF Leads
<1>14. Kept'
  BY <1>1, <1>11, <1>12, <1>13, TellKeeps
<1> QED
  BY <1>9, <1>14

\* An update that leads from the last list sent to the list as it is may be sent.
LEMMA SentStands ==
    ASSUME UnderWay, NEW changes, NEW list \in Seq(Row), Stands(Final, changes, list),
           channel' = Append(channel, changes), listings' = Append(listings, list),
           UNCHANGED view
    PROVE  UnderWay' /\ Final' = list
<1>1. changes \in Seq(Entry)
  BY DEF Stands
<1>2. PICK n \in Nat : n = Len(listings) /\ n = Len(channel)
  BY DEF UnderWay
<1>3. channel \in Seq(Seq(Entry)) /\ listings \in Seq(Seq(Row)) /\ view \in Seq(Row)
  BY DEF UnderWay
<1>4. /\ channel' \in Seq(Seq(Entry)) /\ Len(channel') = n + 1
      /\ channel'[n + 1] = changes /\ \A k \in 1..n : channel'[k] = channel[k]
  BY <1>1, <1>2, <1>3, Appending
<1>5. /\ listings' \in Seq(Seq(Row)) /\ Len(listings') = n + 1
      /\ listings'[n + 1] = list /\ \A k \in 1..n : listings'[k] = listings[k]
  <2>1. PICK rows : rows = Seq(Row)
    OBVIOUS
  <2>2. listings \in Seq(rows) /\ list \in rows
    BY <1>3, <2>1
  <2> DEFINE sent == Append(listings, list)
  <2>3. /\ sent \in Seq(rows) /\ Len(sent) = Len(listings) + 1
        /\ sent[Len(listings) + 1] = list
        /\ \A k \in 1..Len(listings) : sent[k] = listings[k]
    BY <2>2, Appending
  <2>4. sent = listings'
    OBVIOUS
  <2> HIDE DEF sent
  <2> QED
    BY <1>2, <2>1, <2>3, <2>4
<1>6. \A k \in 1..n : Base(k)' = Base(k)
  <2>1. \A k \in 1..n : k # 1 => k - 1 \in 1..n
    OBVIOUS
  <2> QED
    BY <1>5, <2>1 DEF Base
<1>7. Base(n + 1)' = Final
  <2>1. (n + 1) - 1 = n
    OBVIOUS
  <2>2. CASE n = 0
    <3>1. listings = << >>
      BY <1>2, <1>3, <2>2, Emptiness
    <3> QED
      BY <2>2, <3>1 DEF Base, Final
  <2>3. CASE n # 0
    <3>1. listings # << >> /\ n \in 1..n /\ n + 1 # 1
      <4>1. listings # << >>
        BY <1>2, <1>3, <2>3, Emptiness
      <4> QED
        BY <2>3, <4>1
    <3> QED
      BY <1>2, <1>5, <2>1, <3>1 DEF Base, Final
  <2> QED
    BY <2>2, <2>3
<1>8. \A k \in 1..(n + 1) : Stands(Base(k)', channel'[k], listings'[k])
  <2>1. ASSUME NEW k \in 1..n PROVE Stands(Base(k)', channel'[k], listings'[k])
    BY <1>2, <1>4, <1>5, <1>6 DEF UnderWay
  <2>2. Stands(Base(n + 1)', channel'[n + 1], listings'[n + 1])
    BY <1>4, <1>5, <1>7
  <2>3. \A k \in 1..(n + 1) : k = n + 1 \/ k \in 1..n
    OBVIOUS
  <2> QED
    BY <2>1, <2>2, <2>3
<1>9. UnderWay'
  BY <1>3, <1>4, <1>5, <1>8 DEF UnderWay
<1>10. Final' = list
  <2>1. listings' # << >>
    <3>1. Append(listings, list) # << >>
      BY <1>2, AppendNonempty
    <3> QED
      BY <3>1
  <2> QED
    BY <1>5, <2>1 DEF Final
<1> QED
  BY <1>9, <1>10

\* With what is pending sent, nothing is.
LEMMA SentKeeps ==
    ASSUME Typed, UNCHANGED <<items, state, overlay>>, viewed', proxy' = Clean,
           Final' = Listing
    PROVE  Kept'
<1>1. PICK w : Agrees(w)
  BY NowAgrees
<1>2. Pending(Clean, Listing, w)
  <2>1. w \in World /\ Shown(w) = Listing
    BY <1>1, AgreesShown DEF Agrees
  <2> QED
    BY <2>1, CleanPending
<1>3. Agrees(w)'
  BY <1>1 DEF Agrees
<1> QED
  BY <1>2, <1>3 DEF Kept

\* populateFromList: the additions of everything stand for the list.
LEMMA ViewKeeps ==
    ASSUME IInv, View
    PROVE  UnderWay' /\ Kept'
<1>1. /\ Typed /\ UnderWay /\ proxy = Clean /\ listings = << >> /\ view = << >>
      /\ items \in Seq(Items)
      /\ \A j, l \in DOMAIN items : items[j] = items[l] => j = l
      /\ state \in [Items -> Versions] /\ overlay \in [Items -> Overlays]
  BY DEF IInv, Kept, View, Typed
<1>2. PICK n \in Nat : /\ n = Len(items) /\ DOMAIN items = 1..n
                       /\ \A k \in 1..n : items[k] \in Items
  BY <1>1
<1>3. PICK events : events = [k \in DOMAIN items |->
                                 Event("add", k, items, state, overlay)]
  OBVIOUS
<1>4. Len(events) = n /\ \A k \in 1..n : events[k] = Event("add", k, items, state, overlay)
  <2>1. events = [k \in 1..n |-> Event("add", k, items, state, overlay)]
    BY <1>2, <1>3
  <2> QED
    BY <1>2, <2>1
<1> DEFINE first(k) == [j \in 1..k |-> items[j]]
           world(k) == [ids |-> first(k), version |-> state, overlay |-> overlay]
<1>5. \A k \in 0..n : first(k) \in Seq(Items) /\ Len(first(k)) = k
  <2> SUFFICES ASSUME NEW k \in 0..n PROVE first(k) \in Seq(Items) /\ Len(first(k)) = k
    OBVIOUS
  <2>1. \A j \in 1..k : items[j] \in Items
    BY <1>2
  <2>2. PICK f : f = first(k)
    OBVIOUS
  <2>3. f \in [1..k -> Items]
    BY <2>1, <2>2
  <2>4. f \in Seq(Items) /\ Len(f) = k
    BY <2>3
  <2> QED
    BY <2>2, <2>4
<1>6. \A k \in 0..n : world(k) \in World
  <2> SUFFICES ASSUME NEW k \in 0..n PROVE world(k) \in World
    OBVIOUS
  <2>1. \A j, l \in DOMAIN first(k) : first(k)[j] = first(k)[l] => j = l
    BY <1>1, <1>2
  <2> HIDE DEF first
  <2> QED
    BY <1>1, <1>5, <2>1 DEF World
<1>7. ASSUME NEW k \in 1..n PROVE Tells(world(k - 1), events[k], world(k))
  <2>0. k - 1 \in 0..n /\ k \in 0..n /\ k \in 1..Len(items)
    BY <1>2
  <2> DEFINE x == Event("add", k, items, state, overlay)
  <2>1. /\ x.on = "add" /\ x.index = k /\ x.index \in Nat \ {0}
        /\ x.item \in State /\ x.overlays \in Overlays
        /\ x.item.id = items[k] /\ x.item.version = state[items[k]]
        /\ x.overlays = overlay[items[k]] /\ items[k] \in Items
    <3>1. /\ items \in Seq(Items) /\ state \in [Items -> Versions]
          /\ overlay \in [Items -> Overlays]
      BY <1>1
    <3> QED
      BY <2>0, <3>1, EventSays
  <2>2. events[k] = x
    BY <1>4
  <2> HIDE DEF x
  <2>3. /\ EntryOf(x).type = "add" /\ EntryOf(x).index = k
        /\ EntryOf(x).state = x.item /\ EntryOf(x).overlays = x.overlays
    BY <2>1 DEF EntryOf
  <2>4. first(k) = InsertAt(first(k - 1), k, items[k])
    <3>1. \A j \in 1..(k - 1) : first(k - 1)[j] = items[j] /\ first(k)[j] = items[j]
      OBVIOUS
    <3>2. first(k)[k] = items[k]
      OBVIOUS
    <3>3. PICK f \in Seq(Items), g \in Seq(Items) :
             /\ f = first(k - 1) /\ g = first(k) /\ Len(f) = k - 1 /\ Len(g) = k
      BY <1>5, <2>0
    <3> HIDE DEF first
    <3>4. k \in 1..(Len(f) + 1) /\ items[k] \in Items
      BY <2>1, <3>3
    <3>5. PICK y \in Items, m \in 1..(Len(f) + 1) : y = items[k] /\ m = k
      BY <3>4
    <3>6. PICK h : h = InsertAt(f, m, y)
      OBVIOUS
    <3>7. /\ h \in Seq(Items) /\ Len(h) = Len(f) + 1
          /\ \A j \in 1..(Len(f) + 1) :
                h[j] = IF j < m THEN f[j] ELSE IF j = m THEN y ELSE f[j - 1]
      <4>1. /\ InsertAt(f, m, y) \in Seq(Items) /\ Len(InsertAt(f, m, y)) = Len(f) + 1
            /\ \A j \in 1..(Len(f) + 1) :
                  InsertAt(f, m, y)[j] = IF j < m THEN f[j]
                                         ELSE IF j = m THEN y ELSE f[j - 1]
        BY Insertion
      <4> QED
        BY <3>6, <4>1
    <3>8. \A j \in 1..k : h[j] = g[j]
      BY <3>1, <3>2, <3>3, <3>5, <3>7
    <3>9. h = g
      BY <3>3, <3>7, <3>8
    <3> QED
      BY <3>3, <3>5, <3>6, <3>9
  <2>5. /\ [state EXCEPT ![items[k]] = state[items[k]]] = state
        /\ [overlay EXCEPT ![items[k]] = overlay[items[k]]] = overlay
    BY <1>1
  <2>6. Len(first(k - 1)) = k - 1 /\ world(k) \in World
    BY <1>5, <1>6, <2>0
  <2> HIDE DEF first
  <2>7. Adds(world(k - 1), EntryOf(x), world(k))
    BY <2>1, <2>3, <2>4, <2>5, <2>6, NoneIsNoState DEF Adds
  <2> HIDE DEF world
  <2> QED
    BY <2>1, <2>2, <2>3, <2>6, <2>7 DEF Tells, Turns, Subject
<1>8. Agrees(world(n))
  <2>1. first(n) = items
    <3>0. n \in 0..n
      OBVIOUS
    <3>1. PICK f \in Seq(Items) : f = first(n) /\ Len(f) = n
      BY <1>5, <3>0
    <3>2. \A j \in 1..n : f[j] = items[j]
      BY <3>1
    <3> HIDE DEF first
    <3>3. f = items
      BY <1>1, <1>2, <3>1, <3>2
    <3> QED
      BY <3>1, <3>3
  <2>2. world(n) \in World
    BY <1>6
  <2> HIDE DEF first
  <2> QED
    BY <2>1, <2>2 DEF Agrees
<1>9. Shown(world(0)) = << >>
  <2>1. DOMAIN first(0) = {}
    OBVIOUS
  <2> HIDE DEF first
  <2>2. DOMAIN world(0).ids = {}
    BY <2>1
  <2> HIDE DEF world
  <2> QED
    BY <2>2 DEF Shown
<1>10. PICK u : u = [k \in 0..n |-> world(k)]
  OBVIOUS
<1> HIDE DEF world
<1>11. u[0] = world(0) /\ u[n] = world(n)
       /\ \A k \in 1..n : Tells(u[k - 1], events[k], u[k])
  <2>1. \A k \in 0..n : u[k] = world(k)
    BY <1>10
  <2>2. \A k \in 1..n : k \in 0..n /\ k - 1 \in 0..n
    OBVIOUS
  <2> QED
    BY <1>7, <2>1, <2>2
<1>12. Pending(Clean, << >>, u[0])
  <2>1. world(0) \in World
    BY <1>6
  <2> QED
    BY <1>9, <1>11, <2>1, CleanPending
<1>13. PICK p : p = HeardAll(Clean, events)
  OBVIOUS
<1>14. Pending(p, << >>, world(n))
  BY <1>4, <1>11, <1>12, <1>13, HeardAllKeeps
<1>15. Shown(world(n)) = Listing /\ Listing \in Seq(Row)
  BY <1>8, AgreesShown
<1>16. Final = << >>
  BY <1>1 DEF Final
<1>17. Stands(Final, p.changes, Listing)
  BY <1>14, <1>15, <1>16 DEF Stands, Pending
<1>18. /\ channel' = Append(channel, p.changes) /\ listings' = Append(listings, Listing)
       /\ view' = view /\ UNCHANGED <<items, state, overlay>> /\ viewed' /\ proxy' = Clean
  <2>1. RawRep = state
    <3>1. \A i \in Items : state[i] \in Versions /\ state[i].mixed = NoAccount
      BY <1>1 DEF Typed, View
    <3>2. \A i \in Items : [state[i] EXCEPT !.mixed = NoAccount] = state[i]
      BY <3>1 DEF Versions
    <3> QED
      BY <1>1, <3>2 DEF RawRep
  <2> QED
    BY <1>1, <1>3, <1>13, <2>1 DEF View
<1>19. UnderWay' /\ Final' = Listing
  BY <1>1, <1>15, <1>17, <1>18, SentStands
<1> QED
  BY <1>1, <1>18, <1>19, SentKeeps

\* flush: what is pending stands for the list.
LEMMA FlushKeeps ==
    ASSUME IInv, Flush
    PROVE  UnderWay' /\ Kept'
<1>1. Typed /\ UnderWay /\ viewed
  BY DEF IInv, Kept, Flush, Clean, Typed
<1>2. PICK w : Agrees(w) /\ Pending(proxy, Final, w)
  BY <1>1 DEF IInv, Kept
<1>3. Shown(w) = Listing /\ Listing \in Seq(Row)
  BY <1>2, AgreesShown
<1>4. Stands(Final, proxy.changes, Listing)
  BY <1>2, <1>3 DEF Stands, Pending
<1>5. /\ channel' = Append(channel, proxy.changes) /\ listings' = Append(listings, Listing)
      /\ view' = view /\ UNCHANGED <<items, state, overlay>> /\ viewed' /\ proxy' = Clean
  BY <1>1 DEF Flush
<1>6. UnderWay' /\ Final' = Listing
  BY <1>1, <1>3, <1>4, <1>5, SentStands
<1> QED
  BY <1>1, <1>5, <1>6, SentKeeps

\* What the view shows after an update is the list that the update stands for.
LEMMA DeliverKeeps ==
    ASSUME IInv, Deliver
    PROVE  /\ UnderWay' /\ Kept'
           /\ listings # << >> /\ view' = Head(listings) /\ listings' = Tail(listings)
<1>1. /\ channel \in Seq(Seq(Entry)) /\ listings \in Seq(Seq(Row)) /\ view \in Seq(Row)
      /\ channel # << >> /\ Len(channel) = Len(listings)
  BY SMTT(30) DEF IInv, UnderWay, Deliver
<1>2. PICK n \in Nat : n + 1 = Len(listings)
  <2>1. Len(channel) \in Nat /\ Len(channel) # 0
    BY <1>1, Emptiness
  <2>2. Len(listings) \in Nat /\ Len(listings) # 0
    BY <1>1, <2>1
  <2>3. Len(listings) - 1 \in Nat /\ (Len(listings) - 1) + 1 = Len(listings)
    BY <2>2
  <2> QED
    BY <2>3
<1>3. listings # << >> /\ Head(listings) = listings[1] /\ Head(channel) = channel[1]
      /\ 1 \in 1..Len(listings) /\ listings[1] \in Seq(Row)
  <2>1. listings # << >>
    BY <1>1, <1>2, Emptiness
  <2> QED
    BY <1>1, <1>2, <2>1, TailOf
<1>4. view' = listings[1]
  <2>1. Stands(view, channel[1], listings[1])
    BY <1>3 DEF IInv, UnderWay, Base
  <2>2. Update(view, channel[1]) = listings[1]
    BY <2>1, StandsReplayed
  <2> QED
    BY <1>3, <2>2 DEF Deliver
<1>5. listings' = Tail(listings) /\ channel' = Tail(channel)
  BY DEF Deliver
<1>6. /\ listings' \in Seq(Seq(Row)) /\ Len(listings') = n
      /\ \A k \in 1..n : listings'[k] = listings[k + 1]
  BY <1>1, <1>2, <1>3, <1>5, TailOf
<1>7. /\ channel' \in Seq(Seq(Entry)) /\ Len(channel') = n
      /\ \A k \in 1..n : channel'[k] = channel[k + 1]
  BY <1>1, <1>2, <1>5, TailOf
<1>8. ASSUME NEW k \in 1..n PROVE Stands(Base(k)', channel'[k], listings'[k])
  <2>1. Base(k)' = Base(k + 1)
    <3>1. k + 1 # 1 /\ (k + 1) - 1 = k
      OBVIOUS
    <3>2. k # 1 => k - 1 \in 1..n /\ (k - 1) + 1 = k
      OBVIOUS
    <3> QED
      BY <1>4, <1>6, <3>1, <3>2 DEF Base
  <2>2. k + 1 \in 1..Len(listings)
    BY <1>2
  <2>3. Stands(Base(k + 1), channel[k + 1], listings[k + 1])
    BY <2>2 DEF IInv, UnderWay
  <2> QED
    BY <1>6, <1>7, <2>1, <2>3
<1>9. UnderWay'
  BY <1>3, <1>4, <1>6, <1>7, <1>8 DEF UnderWay
<1>10. Final' = Final
  <2>1. CASE n = 0
    <3>1. listings' = << >> /\ Len(listings) = 1
      BY <1>2, <1>6, <2>1
    <3> QED
      BY <1>3, <1>4, <3>1 DEF Final
  <2>2. CASE n # 0
    <3>1. listings' # << >> /\ n \in 1..n
      BY <1>6, <2>2
    <3> QED
      BY <1>2, <1>3, <1>6, <3>1 DEF Final
  <2> QED
    BY <2>1, <2>2
<1>11. UNCHANGED <<items, state, overlay, viewed, proxy>>
  BY DEF Deliver
<1>12. Kept'
  <2>1. viewed
    BY <1>3 DEF IInv, Kept, Typed
  <2>2. PICK w : Agrees(w) /\ Pending(proxy, Final, w)
    BY <2>1 DEF IInv, Kept
  <2>3. Agrees(w)'
    BY <1>11, <2>2 DEF Agrees
  <2>4. Pending(proxy', Final', w)
    BY <1>10, <1>11, <2>2
  <2> QED
    BY <1>11, <2>1, <2>3, <2>4 DEF Kept
<1> QED
  BY <1>3, <1>4, <1>5, <1>9, <1>12

-----------------------------------------------------------------------------
(* The theorem.                                                            *)

\* Every step keeps the invariant.
LEMMA NextKeeps == IInv /\ [Next]_vars => IInv'
<1> SUFFICES ASSUME IInv, [Next]_vars PROVE IInv'
  OBVIOUS
<1> DEFINE Quiet == UNCHANGED <<channel, view, listings>>
           Still == UNCHANGED <<items, gone, state, account, overlay, used>> /\ viewed' \in BOOLEAN /\ (viewed => viewed')
<1>1. Quiet => UnderWay'
  <2> SUFFICES ASSUME Quiet PROVE UnderWay'
    OBVIOUS
  <2>1. \A k \in 1..Len(listings) : Base(k)' = Base(k)
    BY DEF Base
  <2> QED
    BY <2>1 DEF IInv, UnderWay
<1>2. Still => Typed'
  BY DEF IInv, Typed
<1>3. ASSUME NEW i \in Items, NEW k \in 1..(Len(items) + 1), AddItem(i, k) PROVE IInv'
  BY <1>1, <1>3, AddItemKeeps DEF AddItem, IInv
<1>4. ASSUME NEW k \in DOMAIN items, RemoveItem(k) PROVE IInv'
  BY <1>1, <1>4, RemoveItemKeeps DEF RemoveItem, IInv
<1>5. ASSUME NEW k \in DOMAIN items, ChangeItem(k) PROVE IInv'
  BY <1>1, <1>5, ChangeItemKeeps DEF ChangeItem, IInv
<1>6. ASSUME NEW i \in Items, PushOverlay(i) PROVE IInv'
  BY <1>1, <1>6, PushOverlayKeeps DEF PushOverlay, IInv
<1>7. CASE ChangeAll
  BY <1>1, <1>7, ChangeAllKeeps DEF ChangeAll, IInv
<1>8. CASE PushAll
  BY <1>1, <1>8, PushAllKeeps DEF PushAll, IInv
<1>9. CASE View
  BY <1>2, <1>9, ViewKeeps DEF View, IInv
<1>10. CASE Flush
  <2>1. viewed' \in BOOLEAN /\ (viewed => viewed')
    BY <1>10 DEF IInv, Typed, Flush
  <2> QED
    BY <1>2, <1>10, <2>1, FlushKeeps DEF Flush, IInv
<1>11. CASE Deliver
  <2>1. viewed' \in BOOLEAN /\ (viewed => viewed')
    BY <1>11 DEF IInv, Typed, Deliver
  <2> QED
    BY <1>2, <1>11, <2>1, DeliverKeeps DEF Deliver, IInv
<1>12. CASE UNCHANGED vars
  <2>1. Kept'
    <3>1. Final' = Final /\ viewed' = viewed /\ proxy' = proxy /\ UNCHANGED <<items, state, overlay>>
      BY <1>12 DEF vars, Final
    <3>2. ASSUME viewed PROVE \E w : Agrees(w)' /\ Pending(proxy', Final', w)
      <4>1. PICK w : Agrees(w) /\ Pending(proxy, Final, w)
        BY <3>2 DEF IInv, Kept
      <4>2. Agrees(w)' /\ Pending(proxy', Final', w)
        BY <3>1, <4>1 DEF Agrees
      <4> QED
        BY <4>2
    <3>3. ASSUME ~viewed PROVE proxy' = Clean /\ listings' = << >> /\ view' = << >>
      BY <1>12, <3>3 DEF IInv, Kept, vars
    <3> QED
      BY <3>1, <3>2, <3>3 DEF Kept
  <2>2. Typed' /\ UnderWay'
    BY <1>1, <1>12 DEF vars, IInv, Typed
  <2> QED
    BY <2>1, <2>2 DEF IInv
<1> QED
  BY <1>3, <1>4, <1>5, <1>6, <1>7, <1>8, <1>9, <1>10, <1>11, <1>12 DEF Next

\* Each step is one of the promise, or none.
LEMMA StepRefines ==
    ASSUME IInv, IInv', [Next]_vars
    PROVE  [Mirror!Next]_(Mirror!vars)
<1>1. Listing' \in Seq(Row)
  <2>0. PICK n \in Nat : n = Len(items')
    BY DEF IInv, Typed
  <2>1. PICK list, states, overlays :
           /\ list = items' /\ states = state' /\ overlays = overlay' /\ n = Len(list)
           /\ list \in Seq(Items)
           /\ states \in [Items -> Versions] /\ overlays \in [Items -> Overlays]
    BY <2>0 DEF IInv, Typed
  <2>2. PICK rows : rows = [k \in 1..n |->
                              [id |-> list[k], version |-> states[list[k]],
                               overlay |-> overlays[list[k]]]]
    OBVIOUS
  <2>3. rows \in [1..n -> Row]
    BY <2>1, <2>2 DEF Row
  <2>4. rows \in Seq(Row)
    BY <2>3
  <2>5. rows = Listing'
    BY <2>1, <2>2 DEF Listing
  <2> QED
    BY <2>4, <2>5
<1>2. UNCHANGED <<listings, view>> => Mirror!Change
  BY <1>1 DEF Mirror!Change
<1>3. ASSUME UNCHANGED <<items, state, overlay, view>>, listings' = Append(listings, Listing)
      PROVE  Mirror!Send
  BY <1>3 DEF Mirror!Send, Listing
<1>4. CASE Deliver
  <2>1. listings # << >> /\ view' = Head(listings) /\ listings' = Tail(listings)
    BY <1>4, DeliverKeeps
  <2>2. Listing' = Listing
    BY <1>4 DEF Deliver, Listing
  <2> QED
    BY <2>1, <2>2 DEF Mirror!Deliver, Mirror!Next
<1>5. CASE View \/ Flush
  BY <1>3, <1>5 DEF View, Flush, Mirror!Next
<1>6. CASE UNCHANGED vars
  BY <1>2, <1>6 DEF vars, Mirror!Next
<1>7. ASSUME Next, ~Deliver, ~View, ~Flush PROVE UNCHANGED <<listings, view>>
  BY <1>7 DEF Next, AddItem, RemoveItem, ChangeItem, PushOverlay, ChangeAll, PushAll
<1> QED
  BY <1>2, <1>4, <1>5, <1>6, <1>7 DEF Mirror!Next

\* Whatever the proxy merges (onChange, onOverlayPush), whenever it is flushed and
\* however far behind the view is, replaying the changes (EntireListView.__update)
\* takes the view through the lists as they were when each update was sent, in
\* order; and the types hold.  The promise without its fairness.
THEOREM ImplementsMirror == Spec => Mirror!Spec /\ []TypeOK
<1>1. Init => IInv
  BY InitHolds
<1>2. IInv /\ [Next]_vars => IInv'
  BY NextKeeps
<1>3. Init => Mirror!Init
  <2> SUFFICES ASSUME Init PROVE Mirror!Init
    OBVIOUS
  <2>1. Listing \in Seq(Row)
    BY InitHolds, TypesHold
  <2> QED
    BY <2>1 DEF Init, Mirror!Init
<1>4. IInv /\ IInv' /\ [Next]_vars => [Mirror!Next]_(Mirror!vars)
  BY StepRefines
<1>5. IInv => TypeOK
  BY TypesHold
<1> QED
  BY <1>1, <1>2, <1>3, <1>4, <1>5, PTL DEF Spec, Mirror!Spec

=============================================================================
