------------------------ MODULE WindowedListProofs --------------------------
(***************************************************************************)
(* What the proxy believes the view to have, the view has: a proof for any *)
(* conversations, dates, window and bounds.                                *)
(*                                                                         *)
(* validDataSet is about a view that is several messages behind, so the    *)
(* invariant speaks of the messages under way: for each conversation in    *)
(* the set, the view has its object or some message brings it, and every   *)
(* message after that one lists the conversation, so none of them makes    *)
(* the view release it.                                                    *)
(***************************************************************************)
EXTENDS WindowedList, FiniteSetTheorems, WellFoundedInduction, TLAPS

\* Position 0 is the view as it is, position k the k-th message under way.
Brings(k, c) == IF k = 0 THEN c \in DOMAIN view.objects
                         ELSE c \in DOMAIN channel[k].values

Carries(k, c, f, v) == IF k = 0 THEN view.objects[c][f] = v
                                ELSE channel[k].values[c][f] = v

Lists(k, c) == c \in Range(channel[k].ids)

UnderWay(c) == \E k \in 0..Len(channel) :
                  /\ Brings(k, c)
                  /\ \A j \in 1..Len(channel) : k <= j => Lists(j, c)

\* Value v of field f of c's state is the last that is said of it.
Says(c, f, v) == \E k \in 0..Len(channel) :
                    /\ Brings(k, c) /\ Carries(k, c, f, v)
                    /\ \A j \in 1..Len(channel) :
                          /\ k <= j => Lists(j, c)
                          /\ k < j => ~Brings(j, c)

\* The inductive invariant.
Told ==
    /\ \E S : channel \in Seq(S)
    /\ \A c \in validDataSet : UnderWay(c)

-----------------------------------------------------------------------------

\* An update lists whatever it brings a state for.
LEMMA UpdateListsStates ==
    ASSUME NEW ids
    PROVE  /\ Update(ids).ids = ids
           /\ DOMAIN Update(ids).values = OverlayOnly(ids) \cup Whole(ids)
           /\ DOMAIN Update(ids).values \subseteq Range(ids)
BY DEF Update, OverlayOnly, Whole

\* A flush adds an update at the end.
LEMMA FlushSends ==
    ASSUME Told, NEW sk, NEW queue, Flush(sk, queue)
    PROVE  LET ids == Window(sk, idsWithDates)
           IN /\ \E S : channel' \in Seq(S)
              /\ Len(channel) \in Nat /\ Len(channel') = Len(channel) + 1
              /\ channel'[Len(channel')] = Update(ids)
              /\ \A j \in 1..Len(channel) : channel'[j] = channel[j]
<1> DEFINE ids == Window(sk, idsWithDates)
           msg == Update(ids)
<1> HIDE DEF ids
<1>1. channel' = Append(channel, msg)
  BY DEF Flush, ids
<1>2. PICK S : channel \in Seq(S)
  BY DEF Told
<1>3. channel' \in Seq(S \cup {msg})
  <2>1. channel \in Seq(S \cup {msg})
    BY <1>2
  <2> QED
    BY <2>1, <1>1
<1>4. /\ Len(channel) \in Nat /\ Len(channel') = Len(channel) + 1
      /\ channel'[Len(channel')] = msg
      /\ \A j \in 1..Len(channel) : channel'[j] = channel[j]
  BY <1>1, <1>2
<1> QED
  BY <1>3, <1>4 DEF ids

\* What was under way still is, if the update lists it, and so is what it brings;
\* it has the last word on what it brings, and says nothing of the rest.
LEMMA FlushKeeps ==
    ASSUME Told, NEW sk, NEW queue, Flush(sk, queue), UNCHANGED view,
           NEW c \in Range(Window(sk, idsWithDates))
    PROVE  LET msg == Update(Window(sk, idsWithDates))
           IN /\ UnderWay(c) => UnderWay(c)'
              /\ c \in DOMAIN msg.values => UnderWay(c)'
              /\ \A f, v : c \in DOMAIN msg.values /\ v = msg.values[c][f] => Says(c, f, v)'
              /\ \A f, v : c \notin DOMAIN msg.values /\ Says(c, f, v) => Says(c, f, v)'
<1>a. PICK msg : msg = Update(Window(sk, idsWithDates))
  OBVIOUS
<1>1. PICK n \in Nat :
        /\ n = Len(channel) /\ Len(channel') = n + 1
        /\ channel'[n + 1] = msg
        /\ \A j \in 1..n : channel'[j] = channel[j]
        /\ msg = Update(Window(sk, idsWithDates))
  BY <1>a, FlushSends
<1>2. c \in Range(msg.ids)
  BY <1>1, UpdateListsStates
<1>3. \A k \in 0..n : Brings(k, c) <=> Brings(k, c)'
  BY <1>1 DEF Brings
<1>4. \A j \in 1..n : Lists(j, c) <=> Lists(j, c)'
  BY <1>1 DEF Lists
<1>5. Lists(n + 1, c)' /\ (Brings(n + 1, c)' <=> c \in DOMAIN msg.values)
  BY <1>1, <1>2 DEF Lists, Brings
<1>6. ASSUME UnderWay(c) PROVE UnderWay(c)'
  <2>1. PICK k \in 0..n : Brings(k, c) /\ \A j \in 1..n : k <= j => Lists(j, c)
    BY <1>1, <1>6 DEF UnderWay
  <2>2. \A j \in 1..(n + 1) : k <= j => Lists(j, c)'
    BY <1>4, <1>5, <2>1
  <2> QED
    BY <1>1, <1>3, <2>1, <2>2 DEF UnderWay
<1>7. ASSUME c \in DOMAIN msg.values PROVE UnderWay(c)'
  BY <1>1, <1>5, <1>7 DEF UnderWay
<1>8. ASSUME c \in DOMAIN msg.values, NEW f, NEW v, v = msg.values[c][f]
      PROVE  Says(c, f, v)'
  <2>1. Carries(n + 1, c, f, v)'
    BY <1>1, <1>8 DEF Carries
  <2> QED
    BY <1>1, <1>5, <1>8, <2>1 DEF Says
<1>9. ASSUME c \notin DOMAIN msg.values, NEW f, NEW v, Says(c, f, v) PROVE Says(c, f, v)'
  <2>1. PICK k \in 0..n :
           /\ Brings(k, c) /\ Carries(k, c, f, v)
           /\ \A j \in 1..n : (k <= j => Lists(j, c)) /\ (k < j => ~Brings(j, c))
    BY <1>1, <1>9 DEF Says
  <2>2. Carries(k, c, f, v)'
    BY <1>1, <2>1 DEF Carries
  <2>3. \A j \in 1..(n + 1) : (k <= j => Lists(j, c)') /\ (k < j => ~Brings(j, c)')
    BY <1>3, <1>4, <1>5, <1>9, <2>1
  <2> QED
    BY <1>1, <1>3, <2>1, <2>2, <2>3 DEF Says
<1> QED
  BY <1>1, <1>6, <1>7, <1>8, <1>9

\* So what a flush keeps and what it counts as new is told.
LEMMA FlushTells ==
    ASSUME Told, NEW sk, NEW queue, Flush(sk, queue), UNCHANGED view
    PROVE  Told'
<1> DEFINE ids == Window(sk, idsWithDates)
<1>1. \E S : channel' \in Seq(S)
  BY FlushSends
<1>2. ASSUME NEW c \in validDataSet' PROVE UnderWay(c)'
  <2>1. validDataSet' = Kept(ids) \cup Whole(ids)
    BY DEF Flush
  <2>2. c \in Range(ids)
    BY <1>2, <2>1 DEF Kept, Whole
  <2>3. c \in Whole(ids) => c \in DOMAIN Update(ids).values
    BY UpdateListsStates
  <2>4. c \in Kept(ids) => UnderWay(c)
    BY DEF Kept, Told
  <2> HIDE DEF ids
  <2> QED
    BY <1>2, <2>1, <2>2, <2>3, <2>4, FlushKeeps DEF ids
<1> QED
  BY <1>1, <1>2 DEF Told

\* A delivery takes the first message; the view keeps what the message lists and it
\* had, and gains what the message brings.
LEMMA DeliverTakes ==
    ASSUME Told, Deliver
    PROVE  LET msg == channel[1]
           IN /\ \E S : channel' \in Seq(S)
              /\ Len(channel) \in Nat \ {0} /\ Len(channel') = Len(channel) - 1
              /\ \A j \in 1..Len(channel') : channel'[j] = channel[j + 1]
              /\ view'.items = msg.ids
              /\ DOMAIN view'.objects
                    = Range(msg.ids) \cap (DOMAIN view.objects \cup DOMAIN msg.values)
              /\ \A c \in DOMAIN view'.objects : view'.objects[c] = Shown(view.objects, msg, c)
<1>1. PICK S : channel \in Seq(S)
  BY DEF Told
<1>2. channel # << >> /\ channel' = Tail(channel)
  BY DEF Deliver
<1>3. /\ channel' \in Seq(S)
      /\ Len(channel) \in Nat \ {0} /\ Len(channel') = Len(channel) - 1
      /\ channel[1] = Head(channel)
      /\ \A j \in 1..Len(channel') : channel'[j] = channel[j + 1]
  BY <1>1, <1>2
<1> DEFINE msg == Head(channel)
<1>4. /\ view'.items = msg.ids
      /\ DOMAIN view'.objects
            = Range(msg.ids) \cap (DOMAIN view.objects \cup DOMAIN msg.values)
      /\ \A c \in DOMAIN view'.objects : view'.objects[c] = Shown(view.objects, msg, c)
  BY DEF Deliver
<1> QED
  BY <1>3, <1>4

\* What was under way still is or has arrived, and nothing else is said.
LEMMA DeliverKeeps ==
    ASSUME Told, Deliver, NEW c
    PROVE  /\ UnderWay(c) => UnderWay(c)'
           /\ (Brings(1, c) => channel[1].values[c] \in States) =>
                 /\ \A v : Says(c, "overlay", v) => Says(c, "overlay", v)'
                 /\ \A v : v # None /\ Says(c, "data", v) => Says(c, "data", v)'
<1> DEFINE msg == channel[1]
           n == Len(channel) - 1
<1>1. /\ n \in Nat /\ Len(channel) = n + 1 /\ Len(channel') = n
      /\ \A j \in 1..n : channel'[j] = channel[j + 1]
      /\ DOMAIN view'.objects
            = Range(msg.ids) \cap (DOMAIN view.objects \cup DOMAIN msg.values)
      /\ \A b \in DOMAIN view'.objects : view'.objects[b] = Shown(view.objects, msg, b)
  BY DeliverTakes
<1>2. /\ Lists(1, c) <=> c \in Range(msg.ids)
      /\ Brings(0, c) <=> c \in DOMAIN view.objects
      /\ Brings(1, c) <=> c \in DOMAIN msg.values
  BY DEF Lists, Brings
<1> HIDE DEF msg, n
<1>3. \A j \in 1..n : (Lists(j, c)' <=> Lists(j + 1, c)) /\ (Brings(j, c)' <=> Brings(j + 1, c))
  BY <1>1 DEF Lists, Brings
<1>4. Brings(0, c)' <=> Lists(1, c) /\ (Brings(0, c) \/ Brings(1, c))
  BY <1>1, <1>2 DEF Brings
<1>5. ASSUME UnderWay(c) PROVE UnderWay(c)'
  <2>1. PICK k \in 0..(n + 1) : Brings(k, c) /\ \A j \in 1..(n + 1) : k <= j => Lists(j, c)
    BY <1>1, <1>5 DEF UnderWay
  <2> DEFINE i == IF k = 0 THEN 0 ELSE k - 1
  <2>2. i \in 0..n /\ Brings(i, c)'
    BY <1>1, <1>3, <1>4, <2>1
  <2>3. \A j \in 1..n : i <= j => Lists(j, c)'
    BY <1>1, <1>3, <2>1
  <2> QED
    BY <1>1, <2>2, <2>3 DEF UnderWay
<1>6. ASSUME Brings(1, c) => channel[1].values[c] \in States,
             NEW f \in {"data", "overlay"}, NEW v, f = "data" => v # None, Says(c, f, v)
      PROVE  Says(c, f, v)'
  <2>1. PICK k \in 0..(n + 1) :
           /\ Brings(k, c) /\ Carries(k, c, f, v)
           /\ \A j \in 1..(n + 1) : (k <= j => Lists(j, c)) /\ (k < j => ~Brings(j, c))
    BY <1>1, <1>6 DEF Says
  <2> DEFINE i == IF k = 0 THEN 0 ELSE k - 1
  <2>2. i \in 0..n /\ Brings(i, c)'
    BY <1>1, <1>3, <1>4, <2>1
  <2>3. \A j \in 1..n : (i <= j => Lists(j, c)') /\ (i < j => ~Brings(j, c)')
    BY <1>1, <1>3, <2>1
  <2>4. Carries(i, c, f, v)'
    <3>1. CASE k > 1
      <4>1. i \in 1..n /\ channel'[i] = channel[k]
        BY <1>1, <2>1, <3>1
      <4> QED
        BY <2>1, <3>1, <4>1 DEF Carries
    <3>2. CASE k = 0
      <4>1. ~Brings(1, c)
        BY <1>1, <2>1, <3>2
      <4>2. view'.objects[c] = view.objects[c]
        BY <1>1, <1>2, <2>2, <3>2, <4>1 DEF Shown, Brings
      <4> QED
        BY <2>1, <3>2, <4>2 DEF Carries
    <3>3. CASE k = 1
      <4>1. view'.objects[c] = Shown(view.objects, msg, c) /\ c \in DOMAIN msg.values
        BY <1>1, <1>2, <2>1, <2>2, <3>3 DEF Brings
      <4>2. msg.values[c][f] = v
        BY <2>1, <3>3 DEF Carries, msg
      <4>3. view'.objects[c][f] = v
        BY <1>2, <1>6, <4>1, <4>2 DEF Shown, States, msg
      <4> QED
        BY <3>3, <4>3 DEF Carries
    <3> QED
      BY <1>1, <3>1, <3>2, <3>3
  <2> HIDE DEF i
  <2> QED
    BY <1>1, <2>2, <2>3, <2>4 DEF Says
<1> QED
  BY <1>5, <1>6

LEMMA DeliverTells ==
    ASSUME Told, Deliver
    PROVE  Told'
<1>1. validDataSet' = validDataSet
  BY DEF Deliver
<1> QED
  BY <1>1, DeliverTakes, DeliverKeeps DEF Told

\* Steps that send nothing, deliver nothing and add nothing to the set.
LEMMA QuietStep ==
    ASSUME Told, UNCHANGED <<channel, view>>, validDataSet' \subseteq validDataSet
    PROVE  Told'
BY DEF Told, UnderWay, Brings, Lists

-----------------------------------------------------------------------------

LEMMA InitTold == Init => Told
<1> SUFFICES ASSUME Init PROVE Told
  OBVIOUS
<1>1. channel \in Seq({})
  BY DEF Init
<1> QED
  BY <1>1 DEF Init, Told

LEMMA NextTold == Told /\ [Next]_vars => Told'
<1> SUFFICES ASSUME Told, [Next]_vars PROVE Told'
  OBVIOUS
<1>1. CASE TimerFires
  BY <1>1, FlushTells DEF TimerFires
<1>2. ASSUME NEW sk, SeekTo(sk) PROVE Told'
  BY <1>2, FlushTells DEF SeekTo
<1>3. CASE SeekToTop \/ SeekToBottom \/ SeekFocused
  BY <1>2, <1>3 DEF SeekToTop, SeekToBottom, SeekFocused
<1>4. ASSUME NEW c \in Convs, NEW d \in Dates \cup {None}, WriteConv(c, d)
      PROVE  Told'
  BY <1>4, QuietStep DEF WriteConv, OnChange
<1>5. ASSUME NEW c \in Convs, OverlayPush(c) PROVE Told'
  BY <1>5, QuietStep DEF OverlayPush
<1>6. CASE WriteCommits
  BY <1>6, QuietStep DEF WriteCommits
<1>7. ASSUME NEW i \in 1..Len(txns), NEW c \in Convs, ReadAnswers(i, c)
      PROVE  Told'
  BY <1>7, QuietStep DEF ReadAnswers
<1>8. ASSUME NEW i \in 1..Len(txns), ReadCompletes(i) PROVE Told'
  BY <1>8, FlushTells DEF ReadCompletes
<1>9. CASE EmptyCache
  <2>1. CASE dirty
    BY <1>9, <2>1, FlushTells DEF EmptyCache
  <2>2. CASE ~dirty
    BY <1>9, <2>2, QuietStep DEF EmptyCache
  <2> QED
    BY <2>1, <2>2
<1>10. CASE Deliver
  BY <1>10, DeliverTells
<1>11. CASE UNCHANGED vars
  BY <1>11, QuietStep DEF vars
<1> QED
  BY <1>1, <1>3, <1>4, <1>5, <1>6, <1>7, <1>8, <1>9, <1>10, <1>11
  DEF Next, ReadProgresses

LEMMA ToldIsKnown == Told => BelievedIsKnown
<1> SUFFICES ASSUME Told, channel = << >>, NEW c \in validDataSet
             PROVE  c \in DOMAIN view.objects
  BY DEF BelievedIsKnown
<1>1. Len(channel) = 0
  OBVIOUS
<1> QED
  BY <1>1 DEF Told, UnderWay, Brings

\* Whenever the bridge is drained, WindowedListView holds an object for every
\* id in WindowedListProxy's validDataSet: an update that brings an overlay
\* alone, or nothing, for such an id never finds the row empty.
THEOREM BelievedIsKnownHolds == Spec => []BelievedIsKnown
<1>1. Spec => []Told
  BY InitTold, NextTold, PTL DEF Spec
<1> QED
  BY <1>1, ToldIsKnown, PTL


-----------------------------------------------------------------------------
(* The order of the list. *)

Tocs == [Convs -> Dates \cup {None}]

LEMMA ListedIsFinite ==
    ASSUME NEW toc
    PROVE  IsFiniteSet(Listed(toc)) /\ Cardinality(Listed(toc)) \in Nat
BY WindowedListAssumption, FS_Subset, FS_CardinalityType DEF Listed

LEMMA AheadIsFinite ==
    ASSUME NEW toc, NEW key
    PROVE  /\ IsFiniteSet(Ahead(toc, key)) /\ IndexForKey(toc, key) \in Nat
           /\ IndexForKey(toc, key) <= Cardinality(Listed(toc))
BY ListedIsFinite, FS_Subset, FS_CardinalityType DEF Ahead, IndexForKey

\* A finite set of numbers has a greatest one: the one with the most below it.
Lower(S, d) == {e \in S : e < d}

LEMMA FiniteHasGreatest ==
    ASSUME NEW S \in SUBSET Nat, IsFiniteSet(S), S # {}
    PROVE  \E d \in S : \A e \in S : e <= d
<1> DEFINE short(d) == Cardinality(S) - Cardinality(Lower(S, d))
           T == {short(d) : d \in S}
<1>1. \A d \in S : /\ IsFiniteSet(Lower(S, d)) /\ Cardinality(Lower(S, d)) \in Nat
                   /\ Cardinality(Lower(S, d)) <= Cardinality(S)
  <2> TAKE d \in S
  <2>1. Lower(S, d) \in SUBSET S
    BY DEF Lower
  <2> QED
    BY <2>1, FS_Subset, FS_CardinalityType
<1>2. Cardinality(S) \in Nat
  BY FS_CardinalityType
<1>3. \A d \in S : short(d) \in Nat
  BY <1>1, <1>2
<1>4. T \subseteq Nat /\ T # {}
  BY <1>3
<1> HIDE DEF T
<1>5. PICK n \in T : \A m \in T : ~(<<m, n>> \in OpToRel(<, Nat))
  BY <1>4, NatLessThanWellFounded, WFMin
<1>6. PICK d \in S : n = short(d)
  BY <1>5 DEF T
<1>7. ASSUME NEW e \in S, d < e PROVE FALSE
  <2>1. d \in Lower(S, e) /\ d \notin Lower(S, d)
    BY <1>7 DEF Lower
  <2>2. Lower(S, d) \in SUBSET Lower(S, e)
    <3>1. d \in Nat /\ e \in Nat
      OBVIOUS
    <3>2. \A f \in Nat : f < d => f < e
      BY <1>7, <3>1
    <3> QED
      BY <3>2 DEF Lower
  <2>3. Cardinality(Lower(S, d)) < Cardinality(Lower(S, e))
    <3>1. /\ Cardinality(Lower(S, d)) <= Cardinality(Lower(S, e))
          /\ Cardinality(Lower(S, d)) # Cardinality(Lower(S, e))
      BY <1>1, <2>1, <2>2, FS_Subset
    <3> QED
      BY <1>1, <3>1
  <2>4. short(e) < short(d) /\ short(e) \in T
    BY <1>1, <1>2, <2>3 DEF T
  <2>5. <<short(e), short(d)>> \in OpToRel(<, Nat)
    BY <1>3, <2>4 DEF OpToRel
  <2> QED
    BY <1>5, <1>6, <2>4, <2>5
<1>8. \A e \in S : e <= d
  BY <1>7
<1> QED
  BY <1>8

LEMMA TopIsAboveDates ==
    /\ TopDate \in Nat /\ \A d \in Dates \cup {None} : d < TopDate
    /\ TopKey \in Keys
<1> DEFINE S == Dates \cup {0}
           top == CHOOSE d \in S : \A e \in Dates : e <= d
<1>1. S \in SUBSET Nat /\ S # {} /\ IsFiniteSet(S)
  BY WindowedListAssumption, FS_AddElement
<1>2. \E d \in S : \A e \in S : e <= d
  <2> HIDE DEF S
  <2> QED
    BY <1>1, FiniteHasGreatest
<1>3. \E d \in S : \A e \in Dates : e <= d
  BY <1>2
<1>4. top \in S /\ \A e \in Dates : e <= top
  <2> HIDE DEF S
  <2> QED
    BY <1>3
<1>5. TopDate = 1 + top
  BY DEF TopDate
<1> HIDE DEF top
<1>6. top \in Nat /\ \A d \in Dates : d \in Nat
  BY <1>1, <1>4
<1>7. TopDate \in Nat /\ \A d \in Dates \cup {None} : d < TopDate
  BY <1>4, <1>5, <1>6 DEF None
<1> QED
  BY <1>7 DEF TopKey, Keys

\* Nothing is ahead of the top.
LEMMA NothingAheadOfTop ==
    ASSUME NEW toc \in Tocs
    PROVE  Ahead(toc, TopKey) = {}
<1> SUFFICES ASSUME NEW c \in Listed(toc) PROVE ~Before(KeyOf(toc, c), TopKey)
  BY DEF Ahead
<1>1. toc[c] \in Nat /\ toc[c] < TopDate /\ TopDate \in Nat
  BY TopIsAboveDates, WindowedListAssumption DEF Listed, Tocs, None
<1> QED
  BY <1>1 DEF Before, KeyOf, TopKey

\* Of two listed conversations one is ahead, and what is ahead of the one that
\* is ahead is ahead of the other.
LEMMA ListIsLinear ==
    ASSUME NEW toc \in Tocs, NEW b \in Listed(toc), NEW c \in Listed(toc)
    PROVE  /\ b \in Ahead(toc, KeyOf(toc, c)) <=> Before(KeyOf(toc, b), KeyOf(toc, c))
           /\ b # c => (b \in Ahead(toc, KeyOf(toc, c)) <=> c \notin Ahead(toc, KeyOf(toc, b)))
           /\ b \notin Ahead(toc, KeyOf(toc, b))
           /\ b \in Ahead(toc, KeyOf(toc, c)) =>
                 Ahead(toc, KeyOf(toc, b)) \subseteq Ahead(toc, KeyOf(toc, c))
<1>1. /\ Listed(toc) \subseteq Nat /\ \A a \in Listed(toc) : toc[a] \in Nat
  BY WindowedListAssumption DEF Listed, Tocs, None
<1>2. \A a, d \in Listed(toc) :
        Before(KeyOf(toc, a), KeyOf(toc, d)) <=> (toc[a] > toc[d] \/ (toc[a] = toc[d] /\ a > d))
  BY DEF Before, KeyOf
<1>3. \A a, d \in Listed(toc) :
        a \in Ahead(toc, KeyOf(toc, d)) <=> (toc[a] > toc[d] \/ (toc[a] = toc[d] /\ a > d))
  BY <1>2 DEF Ahead
<1>4. b # c => (b \in Ahead(toc, KeyOf(toc, c)) <=> c \notin Ahead(toc, KeyOf(toc, b)))
  BY <1>1, <1>3
<1>5. b \notin Ahead(toc, KeyOf(toc, b))
  BY <1>1, <1>3
<1>6. ASSUME b \in Ahead(toc, KeyOf(toc, c)), NEW a \in Ahead(toc, KeyOf(toc, b))
      PROVE  a \in Ahead(toc, KeyOf(toc, c))
  <2>1. a \in Listed(toc)
    BY DEF Ahead
  <2> QED
    BY <1>1, <1>3, <1>6, <2>1
<1> QED
  BY <1>2, <1>3, <1>4, <1>5, <1>6

\* Each listed conversation has its place, and each place its conversation.
LEMMA PlacesAreFilled ==
    ASSUME NEW toc \in Tocs, NEW i \in 1..Cardinality(Listed(toc))
    PROVE  \E c \in Listed(toc) : IndexForKey(toc, KeyOf(toc, c)) = i - 1
<1> DEFINE L == Listed(toc)
           n == Cardinality(L)
           rank == [c \in L |-> IndexForKey(toc, KeyOf(toc, c))]
<1>1. IsFiniteSet(L) /\ n \in Nat
  BY ListedIsFinite
<1>2. ASSUME NEW b \in L, NEW c \in L, b \in Ahead(toc, KeyOf(toc, c))
      PROVE  rank[b] < rank[c]
  <2> DEFINE B == Ahead(toc, KeyOf(toc, b))
             C == Ahead(toc, KeyOf(toc, c))
  <2>1. B \in SUBSET C /\ b \in C /\ b \notin B
    BY <1>2, ListIsLinear
  <2>2. IsFiniteSet(B) /\ IsFiniteSet(C)
    BY AheadIsFinite
  <2> HIDE DEF B, C
  <2>3. Cardinality(B) <= Cardinality(C) /\ Cardinality(B) # Cardinality(C)
    BY <2>1, <2>2, FS_Subset
  <2>4. Cardinality(B) \in Nat /\ Cardinality(C) \in Nat
    BY <2>2, FS_CardinalityType
  <2> QED
    BY <2>3, <2>4 DEF IndexForKey, B, C
<1>3. rank \in [L -> 0..(n - 1)]
  <2> SUFFICES ASSUME NEW c \in L PROVE rank[c] \in 0..(n - 1)
    OBVIOUS
  <2> DEFINE C == Ahead(toc, KeyOf(toc, c))
  <2>1. C \in SUBSET L /\ c \notin C
    BY ListIsLinear DEF Ahead
  <2>2. Cardinality(C) \in Nat /\ Cardinality(C) <= n /\ Cardinality(C) # n
    BY <1>1, <2>1, FS_Subset, FS_CardinalityType
  <2> QED
    BY <1>1, <2>2 DEF IndexForKey
<1>4. \A b, c \in L : rank[b] = rank[c] => b = c
  <2> SUFFICES ASSUME NEW b \in L, NEW c \in L, rank[b] = rank[c], b # c PROVE FALSE
    OBVIOUS
  <2>1. rank[b] < rank[c] \/ rank[c] < rank[b]
    BY <1>2, ListIsLinear
  <2> QED
    BY <1>3, <2>1
<1> HIDE DEF rank
<1>5. rank \in Injection(L, 0..(n - 1))
  BY <1>3, <1>4 DEF Injection, IsInjective
<1>6. IsFiniteSet(0..(n - 1)) /\ Cardinality(0..(n - 1)) = n
  <2>1. n - 1 \in Int /\ 0 \in Int /\ (IF 0 > n - 1 THEN 0 ELSE (n - 1) - 0 + 1) = n
    BY <1>1
  <2> HIDE DEF n
  <2> QED
    BY <2>1, FS_Interval
<1>7. rank \in Surjection(L, 0..(n - 1))
  BY <1>1, <1>5, <1>6, FS_Injection
<1>8. i - 1 \in 0..(n - 1)
  BY <1>1
<1>9. \E c \in L : rank[c] = i - 1
  BY <1>7, <1>8 DEF Surjection
<1> QED
  BY <1>9 DEF rank

LEMMA OrderedIsTyped ==
    ASSUME NEW toc \in Tocs
    PROVE  /\ Ordered(toc) \in Seq(Convs) /\ Len(Ordered(toc)) = Cardinality(Listed(toc))
<1>1. Cardinality(Listed(toc)) \in Nat
  BY ListedIsFinite
<1>2. \A i \in 1..Cardinality(Listed(toc)) : Ordered(toc)[i] \in Convs
  BY PlacesAreFilled DEF Ordered, Listed
<1>3. Ordered(toc) \in [1..Cardinality(Listed(toc)) -> Convs]
  BY <1>2 DEF Ordered
<1> QED
  BY <1>1, <1>3
\* Two lists that differ in the date of one conversation, listed in both at
\* the same place, have the same order.
Differ(toc, new, c) ==
    /\ toc \in Tocs /\ new \in Tocs /\ c \in Listed(toc) /\ c \in Listed(new)
    /\ \A b \in Convs \ {c} : new[b] = toc[b]
    /\ IndexForKey(new, KeyOf(new, c)) = IndexForKey(toc, KeyOf(toc, c))

LEMMA SameAhead ==
    ASSUME NEW toc, NEW new, NEW c, Differ(toc, new, c)
    PROVE  /\ Listed(new) = Listed(toc)
           /\ \A b \in Listed(toc) : Ahead(new, KeyOf(new, b)) = Ahead(toc, KeyOf(toc, b))
<1> DEFINE P == Ahead(toc, KeyOf(toc, c))
           Q == Ahead(new, KeyOf(new, c))
<1>1. Listed(new) = Listed(toc)
  BY DEF Listed, Differ
<1>2. toc \in Tocs /\ new \in Tocs /\ c \in Listed(toc) /\ c \in Listed(new)
  BY DEF Differ
<1>3. P \subseteq Listed(toc) \ {c} /\ Q \subseteq Listed(toc) \ {c}
  BY <1>1, <1>2, ListIsLinear DEF Ahead
<1>4. \A b \in Listed(toc) \ {c} : KeyOf(new, b) = KeyOf(toc, b)
  BY DEF Differ, KeyOf, Listed
<1>5. ASSUME NEW a \in Listed(toc) \ {c}, NEW b \in Listed(toc) \ {c}
      PROVE  a \in Ahead(new, KeyOf(new, b)) <=> a \in Ahead(toc, KeyOf(toc, b))
  BY <1>1, <1>4 DEF Ahead
<1>6. P \subseteq Q \/ Q \subseteq P
  <2> SUFFICES ASSUME NEW x \in P, x \notin Q, NEW y \in Q, y \notin P PROVE FALSE
    OBVIOUS
  <2>1. x \in Listed(toc) \ {c} /\ y \in Listed(toc) \ {c}
    BY <1>3
  <2>2. c \in Ahead(toc, KeyOf(toc, y)) /\ c \in Ahead(new, KeyOf(new, x))
    BY <1>1, <1>2, <2>1, ListIsLinear
  <2>3. x \in Ahead(toc, KeyOf(toc, y))
    BY <1>2, <2>1, <2>2, ListIsLinear
  <2>4. y \in Ahead(new, KeyOf(new, x))
    BY <1>1, <1>2, <2>1, <2>2, ListIsLinear
  <2>5. x # y
    OBVIOUS
  <2>6. y \in Ahead(toc, KeyOf(toc, x))
    BY <1>5, <2>1, <2>4
  <2> QED
    BY <1>2, <2>1, <2>3, <2>5, <2>6, ListIsLinear
<1>7. P = Q
  <2>1. IsFiniteSet(P) /\ IsFiniteSet(Q) /\ Cardinality(P) = Cardinality(Q)
    BY AheadIsFinite DEF Differ, IndexForKey
  <2> HIDE DEF P, Q
  <2> QED
    BY <1>6, <2>1, FS_Subset
<1>8. ASSUME NEW b \in Listed(toc) \ {c}
      PROVE  Ahead(new, KeyOf(new, b)) = Ahead(toc, KeyOf(toc, b))
  <2>1. c \in Ahead(toc, KeyOf(toc, b)) <=> b \notin P
    BY <1>2, ListIsLinear
  <2>2. c \in Ahead(new, KeyOf(new, b)) <=> b \notin Q
    BY <1>1, <1>2, ListIsLinear
  <2>3. Ahead(toc, KeyOf(toc, b)) \subseteq Listed(toc) /\ Ahead(new, KeyOf(new, b)) \subseteq Listed(toc)
    BY <1>1 DEF Ahead
  <2> HIDE DEF P, Q
  <2> QED
    BY <1>5, <1>7, <2>1, <2>2, <2>3
<1> QED
  BY <1>1, <1>7, <1>8

LEMMA SameOrder ==
    ASSUME NEW toc, NEW new, NEW c, Differ(toc, new, c)
    PROVE  Ordered(new) = Ordered(toc) /\ Cardinality(Listed(new)) = Cardinality(Listed(toc))
<1>1. Listed(new) = Listed(toc)
  BY SameAhead
<1>2. \A b \in Listed(toc) : IndexForKey(new, KeyOf(new, b)) = IndexForKey(toc, KeyOf(toc, b))
  BY SameAhead DEF IndexForKey
<1>3. ASSUME NEW i \in 1..Cardinality(Listed(toc))
      PROVE  (CHOOSE b \in Listed(new) : IndexForKey(new, KeyOf(new, b)) = i - 1)
             = CHOOSE b \in Listed(toc) : IndexForKey(toc, KeyOf(toc, b)) = i - 1
  BY <1>1, <1>2
<1>4. Ordered(new) = Ordered(toc)
  BY <1>1, <1>3 DEF Ordered
<1> QED
  BY <1>1, <1>4

\* The key of the seek is the top or that of a conversation listed with its date.
Aims(key, toc) == \/ key = TopKey
                  \/ key.id \in Listed(toc) /\ key = KeyOf(toc, key.id)

\* So a window whose anchor stays where it was does not move.
LEMMA SameWindow ==
    ASSUME NEW toc, NEW new, NEW c, Differ(toc, new, c), NEW sk,
           sk.mode = "focus" => Aims(sk.key, toc) /\ Aims(sk.key, new)
    PROVE  Window(sk, new) = Window(sk, toc)
<1>1. ASSUME sk.mode = "focus"
      PROVE  IndexForKey(new, sk.key) = IndexForKey(toc, sk.key)
  <2>1. CASE sk.key = TopKey
    BY <2>1, NothingAheadOfTop DEF IndexForKey, Differ
  <2>2. CASE sk.key # TopKey
    <3>1. /\ sk.key.id \in Listed(toc)
          /\ sk.key = KeyOf(toc, sk.key.id) /\ sk.key = KeyOf(new, sk.key.id)
      BY <1>1, <2>2 DEF Aims
    <3>2. Ahead(new, sk.key) = Ahead(toc, sk.key)
      BY <3>1, SameAhead
    <3> QED
      BY <3>2 DEF IndexForKey
  <2> QED
    BY <2>1, <2>2
<1>2. CASE sk.mode = "focus"
  BY <1>1, <1>2, SameOrder DEF Window
<1>3. CASE sk.mode # "focus"
  BY <1>3, SameOrder DEF Window
<1> QED
  BY <1>2, <1>3

LEMMA WindowIsTyped ==
    ASSUME NEW toc \in Tocs, NEW sk
    PROVE  Window(sk, toc) \in Seq(Convs)
<1> DEFINE len == Cardinality(Listed(toc))
           at  == IndexForKey(toc, sk.key)
           s   == Ordered(toc)
<1>1. len \in Nat /\ at \in Nat /\ at <= len /\ {Above, Below} \subseteq Nat
  BY ListedIsFinite, AheadIsFinite, WindowedListAssumption
<1>2. s \in Seq(Convs) /\ Len(s) = len
  BY OrderedIsTyped
<1> HIDE DEF len, at, s
<1>3. ASSUME NEW m \in Nat \ {0}, NEW k \in Nat, k <= len
      PROVE  SubSeq(s, m, k) \in Seq(Convs)
  BY <1>1, <1>2, <1>3
<1>4. /\ Smaller(len, Below + 1) \in Nat /\ Smaller(len, Below + 1) <= len
      /\ Smaller(len, at + Below + 1) \in Nat /\ Smaller(len, at + Below + 1) <= len
      /\ Less(at, Above) + 1 \in Nat \ {0}
  BY <1>1 DEF Smaller, Less
<1>5. SubSeq(s, 1, Smaller(len, Below + 1)) \in Seq(Convs)
  BY <1>3, <1>4
<1>6. SubSeq(s, Less(at, Above) + 1, Smaller(len, at + Below + 1)) \in Seq(Convs)
  BY <1>3, <1>4
<1>7. << >> \in Seq(Convs)
  OBVIOUS
<1> QED
  BY <1>5, <1>6, <1>7 DEF Window, len, at, s

-----------------------------------------------------------------------------
(* What is shown at rest. *)

\* The ids the view lists once all that was sent has arrived.
LastIds == IF channel = << >> THEN view.items ELSE channel[Len(channel)].ids

Typed == TypeOK /\ \A c \in Convs : overlay[c] <= used["push"]

\* While nothing is dirty, what was sent last is the window as it is, as far as
\* its anchor stayed where it was.
Placed ==
    /\ anchored /\ seek.mode = "focus" => Aims(seek.key, idsWithDates)
    /\ anchored /\ ~dirty => LastIds = Window(seek, idsWithDates)

\* The view has objects for rows only.  Each row has its object, or a read is under
\* way whose end will flush again; and the proxy follows it, or has lost track.
Filled ==
    /\ DOMAIN view.objects \subseteq Range(view.items)
    /\ ~Reading => \A c \in Range(LastIds) : UnderWay(c)
    /\ ~Reading /\ ~dirty =>
          Range(LastIds) \subseteq (validDataSet \cap validOverlaySet) \cup behind

\* What the proxy takes for valid is the latest, unless it has lost track of it.
Fresh ==
    /\ \A c \in validDataSet \ behind : record[c] # None /\ Says(c, "data", record[c])
    /\ \A c \in validOverlaySet \ behind : Says(c, "overlay", overlay[c])

Shows == Typed /\ Told /\ Placed /\ Filled /\ Fresh

\* What a flush leaves behind.
LEMMA FlushLeaves ==
    ASSUME Shows, NEW sk, NEW queue \in Seq(Read \cup Write), Flush(sk, queue),
           UNCHANGED <<record, overlay, idsWithDates, view>>
    PROVE  LET ids == Window(sk, idsWithDates)
           IN /\ LastIds' = ids
              /\ ids \in Seq(Convs) /\ Range(ids) \subseteq Convs
              /\ ~Reading' => Missing(ids) = {}
<1> DEFINE ids == Window(sk, idsWithDates)
<1>1. ids \in Seq(Convs)
  BY WindowIsTyped DEF Shows, Typed, TypeOK, Tocs
<1>2. Range(ids) \subseteq Convs
  BY <1>1 DEF Range
<1>3. LastIds' = ids
  <2>1. Told
    BY DEF Shows
  <2>2. PICK S : channel' \in Seq(S)
    BY <2>1, FlushSends
  <2>3. Len(channel') # 0 /\ channel'[Len(channel')].ids = ids
    BY <2>1, FlushSends, UpdateListsStates
  <2> QED
    BY <2>2, <2>3 DEF LastIds
<1>4. ASSUME Missing(ids) # {} PROVE Reading'
  <2> DEFINE rd == [kind |-> "read", left |-> Missing(ids), got |-> record]
  <2>1. txns' = Append(queue, rd)
    BY <1>4 DEF Flush
  <2>2. rd.kind = "read"
    OBVIOUS
  <2> HIDE DEF rd
  <2>3. Len(txns') \in 1..Len(txns') /\ txns'[Len(txns')] = rd
    BY <2>1
  <2> QED
    BY <2>2, <2>3 DEF Reading
<1> QED
  BY <1>1, <1>2, <1>3, <1>4

LEMMA FlushTyped ==
    ASSUME Shows, NEW sk, NEW queue \in Seq(Read \cup Write), Flush(sk, queue),
           UNCHANGED <<record, overlay, idsWithDates, view>>,
           cache' \in [Convs -> Versions \cup {None}],
           seek' \in [mode : {"unset", "top", "bottom", "focus"}, key : Keys],
           anchored' \in BOOLEAN, used' \in [Used -> Nat], used'["push"] >= used["push"]
    PROVE  Typed'
<1> DEFINE ids == Window(sk, idsWithDates)
           msg == Update(ids)
<1> USE DEF Shows, Typed
<1>1. ids \in Seq(Convs) /\ Range(ids) \subseteq Convs
  BY FlushLeaves
<1> HIDE DEF ids
<1>2. Missing(ids) \subseteq Convs /\ Whole(ids) \subseteq Convs /\ OverlayOnly(ids) \subseteq Convs
  BY <1>1 DEF Missing, Whole, OverlayOnly
<1>3. txns' \in Seq(Read \cup Write)
  <2> DEFINE rd == [kind |-> "read", left |-> Missing(ids), got |-> record]
  <2>1. rd \in Read
    BY <1>2 DEF Read, TypeOK
  <2>2. txns' = queue \/ txns' = Append(queue, rd)
    BY DEF Flush, ids
  <2> HIDE DEF rd
  <2> QED
    BY SMTT(40), <2>1, <2>2
<1>4. StatesOf(msg.ids, msg.values)
  <2>1. msg.ids = ids /\ DOMAIN msg.values = OverlayOnly(ids) \cup Whole(ids)
        /\ DOMAIN msg.values \subseteq Range(ids)
    BY UpdateListsStates
  <2>2. ASSUME NEW c \in DOMAIN msg.values PROVE msg.values[c] \in States
    <3>1. cache[c] \in Versions \cup {None} /\ overlay[c] \in 0..MaxPushes
      BY <1>2, <2>1, <2>2 DEF TypeOK
    <3>2. msg.values[c] = [data |-> IF c \in Whole(ids) THEN cache[c] ELSE None,
                           overlay |-> overlay[c]]
      BY <2>1, <2>2 DEF Update
    <3> QED
      BY <3>1, <3>2 DEF States
  <2> HIDE DEF msg
  <2> QED
    BY <1>1, <2>1, <2>2 DEF StatesOf
<1>5. \A i \in 1..Len(channel') : StatesOf(channel'[i].ids, channel'[i].values)
  <2>1. /\ Len(channel) \in Nat /\ Len(channel') = Len(channel) + 1
        /\ channel'[Len(channel')] = msg
        /\ \A j \in 1..Len(channel) : channel'[j] = channel[j]
    BY FlushSends DEF ids
  <2>2. \A i \in 1..Len(channel) : StatesOf(channel[i].ids, channel[i].values)
    BY DEF TypeOK
  <2> HIDE DEF msg
  <2> QED
    BY <1>4, <2>1, <2>2
<1>6. /\ dirty' \in BOOLEAN /\ behind' \in SUBSET Convs
      /\ validDataSet' \in SUBSET Convs /\ validOverlaySet' \in SUBSET Convs
  BY <1>1, <1>2 DEF Flush, ids, Kept, TypeOK
<1>7. StatesOf(view'.items, view'.objects) /\ \A c \in Convs : overlay'[c] <= used'["push"]
  <2>1. \A c \in Convs : overlay[c] \in Nat /\ overlay[c] <= used["push"]
    <3>1. overlay \in [Convs -> 0..MaxPushes]
      BY DEF TypeOK
    <3>2. \A c \in Convs : overlay[c] <= used["push"]
      OBVIOUS
    <3> QED
      BY <3>1, <3>2
  <2>2. used["push"] \in Nat /\ used'["push"] \in Nat
    BY DEF TypeOK, Used
  <2>3. \A c \in Convs : overlay'[c] <= used'["push"]
    BY <2>1, <2>2
  <2>4. StatesOf(view.items, view.objects)
    BY DEF TypeOK
  <2> QED
    BY <2>3, <2>4
<1> QED
  BY <1>3, <1>5, <1>6, <1>7 DEF TypeOK

LEMMA FlushShows ==
    ASSUME Shows, NEW sk, NEW queue \in Seq(Read \cup Write), Flush(sk, queue),
           UNCHANGED <<record, overlay, idsWithDates, view>>, Typed', seek' = sk,
           anchored' /\ sk.mode = "focus" => Aims(sk.key, idsWithDates)
    PROVE  Shows'
<1> DEFINE ids == Window(sk, idsWithDates)
           msg == Update(ids)
<1>1. Told /\ Told'
  BY FlushTells DEF Shows
<1>2. /\ LastIds' = ids /\ ids \in Seq(Convs)
      /\ ~Reading' => Missing(ids) = {}
  BY FlushLeaves
<1>3. /\ dirty' = FALSE
      /\ validDataSet' = Kept(ids) \cup Whole(ids) /\ validOverlaySet' = Kept(ids) \cup Whole(ids)
      /\ behind' = ((behind \cap Range(ids)) \ Whole(ids)) \cup OverlayOnly(ids)
                        \cup {c \in Whole(ids) : cache[c] # record[c]}
  BY DEF Flush
<1>4. /\ Range(ids) = Kept(ids) \cup OverlayOnly(ids) \cup Whole(ids) \cup Missing(ids)
      /\ Kept(ids) \cup OverlayOnly(ids) \subseteq validDataSet
      /\ Kept(ids) \subseteq validOverlaySet
      /\ Kept(ids) \cap (OverlayOnly(ids) \cup Whole(ids)) = {}
  BY DEF Kept, OverlayOnly, Whole, Missing
<1>5. /\ DOMAIN msg.values = OverlayOnly(ids) \cup Whole(ids)
      /\ \A c \in Whole(ids) :
            msg.values[c].data = cache[c] /\ cache[c] # None /\ msg.values[c].overlay = overlay[c]
  BY DEF Update, Whole
<1>6. \A c \in Range(ids) :
        /\ UnderWay(c) => UnderWay(c)'
        /\ c \in DOMAIN msg.values => UnderWay(c)'
        /\ \A f, v : c \in DOMAIN msg.values /\ v = msg.values[c][f] => Says(c, f, v)'
        /\ \A f, v : c \notin DOMAIN msg.values /\ Says(c, f, v) => Says(c, f, v)'
  BY <1>1, FlushKeeps
<1>7. Window(seek, idsWithDates)' = ids
  OBVIOUS
<1> HIDE DEF ids, msg
<1>8. Placed'
  BY <1>2, <1>7 DEF Placed
<1>9. Filled'
  <2>1. DOMAIN view'.objects \subseteq Range(view'.items)
    BY DEF Shows, Filled
  <2>2. ASSUME ~Reading', NEW c \in Range(ids) PROVE UnderWay(c)'
    BY <1>1, <1>2, <1>4, <1>5, <1>6, <2>2 DEF Told
  <2>3. ASSUME ~Reading' PROVE Range(ids) \subseteq (validDataSet' \cap validOverlaySet') \cup behind'
    BY <1>2, <1>3, <1>4, <2>3
  <2> QED
    BY <1>2, <2>1, <2>2, <2>3 DEF Filled
<1>10. Fresh'
  <2>1. ASSUME NEW c \in validDataSet' \ behind'
        PROVE  record[c] # None /\ \A v : v = record[c] => Says(c, "data", v)'
    <3>1. CASE c \in Kept(ids)
      <4>1. c \in validDataSet \ behind /\ c \in Range(ids) /\ c \notin DOMAIN msg.values
        BY <1>3, <1>4, <1>5, <2>1, <3>1
      <4>2. record[c] # None /\ Says(c, "data", record[c])
        BY <4>1 DEF Shows, Fresh
      <4> QED
        BY <1>6, <4>1, <4>2
    <3>2. CASE c \in Whole(ids)
      <4>1. c \in Range(ids) /\ c \in DOMAIN msg.values
        BY <1>4, <1>5, <3>2
      <4>2. record[c] = msg.values[c].data /\ record[c] # None
        BY <1>3, <1>5, <2>1, <3>2
      <4> QED
        BY <1>6, <4>1, <4>2
    <3> QED
      BY <1>3, <2>1, <3>1, <3>2
  <2>2. ASSUME NEW c \in validOverlaySet' \ behind'
        PROVE  \A v : v = overlay[c] => Says(c, "overlay", v)'
    <3>1. CASE c \in Kept(ids)
      <4>1. c \in validOverlaySet \ behind /\ c \in Range(ids) /\ c \notin DOMAIN msg.values
        BY <1>3, <1>4, <1>5, <2>2, <3>1
      <4>2. Says(c, "overlay", overlay[c])
        BY <4>1 DEF Shows, Fresh
      <4> QED
        BY <1>6, <4>1, <4>2
    <3>2. CASE c \in Whole(ids)
      <4>1. c \in Range(ids) /\ c \in DOMAIN msg.values
        BY <1>4, <1>5, <3>2
      <4>2. overlay[c] = msg.values[c].overlay
        BY <1>5, <3>2
      <4> QED
        BY <1>6, <4>1, <4>2
    <3> QED
      BY <1>3, <2>2, <3>1, <3>2
  <2> QED
    BY <2>1, <2>2 DEF Fresh, Says
<1> QED
  BY <1>1, <1>8, <1>9, <1>10 DEF Shows

\* Steps that send and deliver nothing leave what is shown and said.
LEMMA SilentStep ==
    ASSUME UNCHANGED <<channel, view>>
    PROVE  /\ LastIds' = LastIds
           /\ \A c : UnderWay(c)' <=> UnderWay(c)
           /\ \A c, f, v : Says(c, f, v)' <=> Says(c, f, v)
BY DEF LastIds, UnderWay, Says, Brings, Carries, Lists

LEMMA SpendCounts ==
    ASSUME Typed, NEW what \in Used, NEW bound \in Nat, Spend(what, bound)
    PROVE  /\ used' \in [Used -> Nat] /\ used'[what] = used[what] + 1 /\ used'[what] <= bound
           /\ \A w \in Used \ {what} : used'[w] = used[w]
<1>1. used \in [Used -> Nat] /\ used' = [used EXCEPT ![what] = @ + 1] /\ used[what] < bound
  BY DEF Typed, TypeOK, Spend
<1>2. used[what] \in Nat
  BY <1>1
<1> QED
  BY <1>1, <1>2

LEMMA TimerFiresShows == ASSUME Shows, TimerFires PROVE Shows'
<1>1. /\ Flush(seek, txns)
      /\ UNCHANGED <<record, cache, overlay, idsWithDates, seek, view, anchored, used>>
  BY DEF TimerFires
<1>2. TypeOK /\ Placed
  BY DEF Shows, Typed
<1>3. /\ txns \in Seq(Read \cup Write)
      /\ cache' \in [Convs -> Versions \cup {None}]
      /\ seek' \in [mode : {"unset", "top", "bottom", "focus"}, key : Keys]
      /\ anchored' \in BOOLEAN /\ used' \in [Used -> Nat] /\ used'["push"] >= used["push"]
  BY <1>1, <1>2 DEF TypeOK, Used
<1>4. Typed'
  BY <1>1, <1>3, FlushTyped
<1>5. anchored' /\ seek.mode = "focus" => Aims(seek.key, idsWithDates)
  BY <1>1, <1>2 DEF Placed
<1> QED
  BY <1>1, <1>3, <1>4, <1>5, FlushShows

LEMMA SeekToShows ==
    ASSUME Shows, NEW sk \in [mode : {"unset", "top", "bottom", "focus"}, key : Keys],
           sk.mode = "focus" => Aims(sk.key, idsWithDates), SeekTo(sk)
    PROVE  Shows'
<1>1. /\ Spend("seek", MaxSeeks) /\ seek' = sk /\ anchored' = TRUE /\ Flush(sk, txns)
      /\ UNCHANGED <<record, cache, overlay, idsWithDates, view>>
  BY DEF SeekTo
<1>2. TypeOK /\ Typed
  BY DEF Shows, Typed
<1>3. used' \in [Used -> Nat] /\ used'["push"] = used["push"] /\ used["push"] \in Nat
  <2>1. "seek" \in Used /\ "push" \in Used \ {"seek"} /\ MaxSeeks \in Nat
    BY WindowedListAssumption DEF Used
  <2>2. used["push"] \in Nat
    BY <1>2, <2>1 DEF TypeOK
  <2> QED
    BY <1>1, <1>2, <2>1, <2>2, SpendCounts
<1>4. /\ txns \in Seq(Read \cup Write)
      /\ cache' \in [Convs -> Versions \cup {None}]
      /\ seek' \in [mode : {"unset", "top", "bottom", "focus"}, key : Keys]
      /\ anchored' \in BOOLEAN /\ used'["push"] >= used["push"]
  BY <1>1, <1>2, <1>3 DEF TypeOK
<1>5. Typed'
  BY <1>1, <1>3, <1>4, FlushTyped
<1> QED
  BY <1>1, <1>4, <1>5, FlushShows

LEMMA SeeksShow == ASSUME Shows, SeekToTop \/ SeekToBottom \/ SeekFocused PROVE Shows'
<1>1. TopKey \in Keys
  BY TopIsAboveDates
<1>2. CASE SeekToTop
  BY <1>1, <1>2, SeekToShows DEF SeekToTop
<1>3. CASE SeekToBottom
  BY <1>1, <1>3, SeekToShows DEF SeekToBottom
<1>4. CASE SeekFocused
  <2> DEFINE sk(key) == [mode |-> "focus", key |-> key]
  <2>1. CASE SeekTo(sk(TopKey))
    BY <1>1, <2>1, SeekToShows DEF Aims
  <2>2. ASSUME NEW c \in Listed(idsWithDates), SeekTo(sk(KeyOf(idsWithDates, c)))
        PROVE  Shows'
    <3>1. KeyOf(idsWithDates, c) \in Keys /\ KeyOf(idsWithDates, c).id = c
      BY DEF KeyOf, Keys, Listed, Shows, Typed, TypeOK
    <3>2. Aims(KeyOf(idsWithDates, c), idsWithDates)
      BY <3>1 DEF Aims
    <3> QED
      BY <2>2, <3>1, <3>2, SeekToShows
  <2> QED
    BY <1>4, <2>1, <2>2 DEF SeekFocused
<1> QED
  BY <1>2, <1>3, <1>4

LEMMA ReadCompletesShows ==
    ASSUME Shows, NEW i \in 1..Len(txns), ReadCompletes(i)
    PROVE  Shows'
<1> DEFINE rest == RemoveAt(txns, i)
<1>1. /\ Flush(seek, rest)
      /\ UNCHANGED <<record, cache, overlay, idsWithDates, seek, view, anchored, used>>
  BY DEF ReadCompletes
<1>2. TypeOK /\ Placed
  BY DEF Shows, Typed
<1>3. rest \in Seq(Read \cup Write)
  <2>1. txns \in Seq(Read \cup Write)
    BY <1>2 DEF TypeOK
  <2>2. SubSeq(txns, 1, i - 1) \in Seq(Read \cup Write) /\ SubSeq(txns, i + 1, Len(txns)) \in Seq(Read \cup Write)
    BY <2>1
  <2> QED
    BY <2>2 DEF RemoveAt
<1> HIDE DEF rest
<1>4. /\ cache' \in [Convs -> Versions \cup {None}]
      /\ seek' \in [mode : {"unset", "top", "bottom", "focus"}, key : Keys]
      /\ anchored' \in BOOLEAN /\ used' \in [Used -> Nat] /\ used'["push"] >= used["push"]
  BY <1>1, <1>2 DEF TypeOK, Used
<1>5. Typed'
  BY <1>1, <1>3, <1>4, FlushTyped
<1>6. anchored' /\ seek.mode = "focus" => Aims(seek.key, idsWithDates)
  BY <1>1, <1>2 DEF Placed
<1> QED
  BY <1>1, <1>3, <1>5, <1>6, FlushShows

LEMMA EmptyCacheShows == ASSUME Shows, EmptyCache PROVE Shows'
<1>1. /\ Spend("drop", MaxDrops) /\ cache' = [c \in Convs |-> None]
      /\ UNCHANGED <<record, overlay, idsWithDates, seek, view, anchored>>
  BY DEF EmptyCache
<1>2. TypeOK /\ Typed /\ Placed
  BY DEF Shows, Typed
<1>3. used' \in [Used -> Nat] /\ used'["push"] = used["push"] /\ used["push"] \in Nat
  <2>1. "drop" \in Used /\ "push" \in Used \ {"drop"} /\ MaxDrops \in Nat
    BY WindowedListAssumption DEF Used
  <2>2. used["push"] \in Nat
    BY <1>2, <2>1 DEF TypeOK
  <2> QED
    BY <1>1, <1>2, <2>1, <2>2, SpendCounts
<1>4. /\ txns \in Seq(Read \cup Write)
      /\ cache' \in [Convs -> Versions \cup {None}]
      /\ seek' \in [mode : {"unset", "top", "bottom", "focus"}, key : Keys]
      /\ anchored' \in BOOLEAN /\ used'["push"] >= used["push"]
  BY <1>1, <1>2, <1>3 DEF TypeOK
<1>5. CASE dirty
  <2>1. Flush(seek, txns)
    BY <1>5 DEF EmptyCache
  <2>2. Typed'
    BY <1>1, <1>3, <1>4, <2>1, FlushTyped
  <2>3. anchored' /\ seek.mode = "focus" => Aims(seek.key, idsWithDates)
    BY <1>1, <1>2 DEF Placed
  <2> QED
    BY <1>1, <1>4, <2>1, <2>2, <2>3, FlushShows
<1>6. CASE ~dirty
  <2>1. UNCHANGED <<txns, dirty, validDataSet, validOverlaySet, channel, behind>>
    BY <1>6 DEF EmptyCache
  <2>2. Typed'
    BY <1>1, <1>2, <1>3, <1>4, <2>1 DEF Typed, TypeOK
  <2>3. UNCHANGED <<channel, view>>
    BY <1>1, <2>1
  <2>4. Told' /\ Placed' /\ Filled' /\ Fresh'
    BY <1>1, <2>1, <2>3, SilentStep DEF Shows, Told, Placed, Filled, Fresh, Reading
  <2> QED
    BY <2>2, <2>4 DEF Shows
<1> QED
  BY <1>5, <1>6

\* A write that does not dirty the proxy does not move its window: an item that is
\* in place keeps the order, and the anchor is where it was.
LEMMA WriteConvPlaced ==
    ASSUME Shows, NEW c \in Convs, NEW d \in Dates \cup {None}, WriteConv(c, d)
    PROVE  Placed'
<1> DEFINE toc == idsWithDates
<1>1. /\ idsWithDates' = [idsWithDates EXCEPT ![c] = d]
      /\ anchored' = (anchored /\ (c = seek.key.id => d = seek.key.date))
      /\ OnChange(c, InPlace(c, idsWithDates'))
      /\ UNCHANGED <<seek, channel, view>>
  BY DEF WriteConv
<1>2. toc \in Tocs /\ anchored \in BOOLEAN /\ Placed /\ dirty \in BOOLEAN
  BY DEF Shows, Typed, TypeOK, Tocs
<1>3. PICK new \in Tocs : new = idsWithDates'
  BY <1>1, <1>2 DEF Tocs
<1>4. new[c] = d /\ \A b \in Convs \ {c} : new[b] = toc[b]
  BY <1>1, <1>2, <1>3 DEF Tocs
<1>5. ASSUME anchored', seek.mode = "focus" PROVE Aims(seek.key, toc) /\ Aims(seek.key, new)
  <2>1. anchored /\ (c = seek.key.id => d = seek.key.date)
    BY <1>1, <1>2, <1>5
  <2>2. Aims(seek.key, toc)
    BY <1>2, <1>5, <2>1 DEF Placed
  <2>3. CASE seek.key = TopKey
    BY <2>2, <2>3 DEF Aims
  <2>4. CASE seek.key # TopKey
    <3>1. seek.key.id \in Listed(toc) /\ seek.key = KeyOf(toc, seek.key.id)
      BY <2>2, <2>4 DEF Aims
    <3>2. seek.key.date = toc[seek.key.id] /\ toc[seek.key.id] # None /\ seek.key.id \in Convs
      BY <3>1 DEF KeyOf, Listed
    <3>3. new[seek.key.id] = toc[seek.key.id]
      BY <1>4, <2>1, <3>2
    <3>4. seek.key.id \in Listed(new) /\ KeyOf(new, seek.key.id) = KeyOf(toc, seek.key.id)
      BY <3>2, <3>3 DEF Listed, KeyOf
    <3> QED
      BY <2>2, <3>1, <3>4 DEF Aims
  <2> QED
    BY <2>3, <2>4
<1>6. ASSUME anchored', ~dirty' PROVE LastIds' = Window(seek, new)
  <2>1. ~dirty /\ InPlace(c, new)
    BY <1>1, <1>3, <1>6 DEF OnChange
  <2>2. LastIds' = Window(seek, toc)
    BY <1>1, <1>2, <1>6, <2>1, SilentStep DEF Placed
  <2>3. CASE new[c] = toc[c]
    <3>1. new = toc
      BY <1>2, <1>4, <2>3 DEF Tocs
    <3> QED
      BY <2>2, <3>1
  <2>4. CASE IndexForKey(new, KeyOf(new, c)) = IndexForKey(toc, KeyOf(toc, c))
    <3>1. Differ(toc, new, c)
      BY <1>2, <1>4, <2>1, <2>4 DEF InPlace, Differ, Listed
    <3>2. Window(seek, new) = Window(seek, toc)
      BY <1>5, <1>6, <3>1, SameWindow
    <3> QED
      BY <2>2, <3>2
  <2> QED
    BY <2>1, <2>3, <2>4 DEF InPlace
<1> QED
  BY <1>1, <1>3, <1>5, <1>6 DEF Placed

LEMMA WriteConvShows ==
    ASSUME Shows, NEW c \in Convs, NEW d \in Dates \cup {None}, WriteConv(c, d)
    PROVE  Shows'
<1> DEFINE version == IF d = None THEN None ELSE used'["write"]
<1>1. /\ Spend("write", MaxWrites)
      /\ record' = [record EXCEPT ![c] = version] /\ cache' = [cache EXCEPT ![c] = version]
      /\ idsWithDates' = [idsWithDates EXCEPT ![c] = d]
      /\ anchored' = (anchored /\ (c = seek.key.id => d = seek.key.date))
      /\ OnChange(c, InPlace(c, idsWithDates'))
      /\ txns' = Append(txns, [kind |-> "write"])
      /\ UNCHANGED <<overlay, seek, validOverlaySet, channel, view, behind>>
  BY DEF WriteConv
<1>2. Typed /\ TypeOK
  BY DEF Shows, Typed
<1>3. /\ used' \in [Used -> Nat] /\ used'["push"] = used["push"]
      /\ version \in Versions \cup {None}
  <2>1. "write" \in Used /\ "push" \in Used \ {"write"} /\ MaxWrites \in Nat
    BY WindowedListAssumption DEF Used
  <2>2. used["write"] \in Nat
    BY <1>2, <2>1 DEF TypeOK
  <2>3. /\ used' \in [Used -> Nat] /\ used'["push"] = used["push"]
        /\ used'["write"] = used["write"] + 1 /\ used'["write"] <= MaxWrites
    BY <1>1, <1>2, <2>1, SpendCounts
  <2> QED
    BY <2>1, <2>2, <2>3 DEF Versions
<1> HIDE DEF version
<1>4. validDataSet' = validDataSet \ {c} /\ dirty' \in BOOLEAN /\ (~dirty' => ~dirty)
  BY <1>1, <1>2 DEF OnChange, TypeOK
<1>5. txns' \in Seq(Read \cup Write) /\ (Reading' <=> Reading)
  <2>1. txns \in Seq(Read \cup Write)
    BY <1>2 DEF TypeOK
  <2> DEFINE wr == [kind |-> "write"]
  <2>2. wr \in Write /\ wr.kind # "read"
    BY DEF Write
  <2> HIDE DEF wr
  <2>3. /\ txns' \in Seq(Read \cup Write) /\ Len(txns') = Len(txns) + 1
        /\ txns'[Len(txns) + 1] = wr /\ \A i \in 1..Len(txns) : txns'[i] = txns[i]
    BY <1>1, <2>1, <2>2 DEF wr
  <2> QED
    BY <2>1, <2>2, <2>3 DEF Reading
<1>6. Typed'
  <2>1. /\ record' \in [Convs -> Versions \cup {None}] /\ cache' \in [Convs -> Versions \cup {None}]
        /\ idsWithDates' \in [Convs -> Dates \cup {None}] /\ anchored' \in BOOLEAN
    BY <1>1, <1>2, <1>3 DEF TypeOK
  <2> QED
    BY <1>1, <1>2, <1>3, <1>4, <1>5, <2>1 DEF Typed, TypeOK
<1>7. Placed'
  BY WriteConvPlaced
<1>8. Told'
  BY <1>1, <1>4, QuietStep DEF Shows
<1>9. Filled'
  <2>1. Filled
    BY DEF Shows
  <2>2. ~dirty' => validDataSet' = validDataSet
    BY <1>1 DEF OnChange
  <2> QED
    BY <1>1, <1>4, <1>5, <2>1, <2>2, SilentStep DEF Filled
<1>10. Fresh'
  <2>1. Fresh /\ validDataSet \subseteq Convs
    BY <1>2 DEF Shows, TypeOK
  <2>2. \A b \in validDataSet' : record'[b] = record[b]
    BY <1>1, <1>2, <1>4, <2>1 DEF TypeOK
  <2> QED
    BY <1>1, <1>4, <2>1, <2>2, SilentStep DEF Fresh
<1> QED
  BY <1>6, <1>7, <1>8, <1>9, <1>10 DEF Shows

LEMMA OverlayPushShows ==
    ASSUME Shows, NEW c \in Convs, OverlayPush(c)
    PROVE  Shows'
<1>1. /\ Spend("push", MaxPushes) /\ overlay' = [overlay EXCEPT ![c] = @ + 1]
      /\ validOverlaySet' = validOverlaySet \ {c} /\ (~dirty' => ~dirty)
      /\ ~dirty' => validOverlaySet' = validOverlaySet
      /\ UNCHANGED <<record, cache, txns, idsWithDates, seek, validDataSet, channel,
                     view, behind, anchored>>
  BY DEF OverlayPush
<1>2. Typed /\ TypeOK
  BY DEF Shows, Typed
<1>3. Typed'
  <2>1. "push" \in Used /\ MaxPushes \in Nat
    BY WindowedListAssumption DEF Used
  <2>2. used["push"] \in Nat
    BY <1>2, <2>1 DEF TypeOK
  <2>3. /\ used' \in [Used -> Nat] /\ used'["push"] = used["push"] + 1
        /\ used'["push"] <= MaxPushes
    BY <1>1, <1>2, <2>1, SpendCounts
  <2>4. overlay \in [Convs -> 0..MaxPushes] /\ \A b \in Convs : overlay[b] <= used["push"]
    BY <1>2 DEF Typed, TypeOK
  <2>5. /\ overlay' \in [Convs -> 0..MaxPushes] /\ \A b \in Convs : overlay'[b] <= used'["push"]
    <3>1. \A b \in Convs : overlay'[b] = IF b = c THEN overlay[b] + 1 ELSE overlay[b]
      BY <1>1, <2>4
    <3>2. \A b \in Convs : overlay'[b] \in 0..MaxPushes /\ overlay'[b] <= used'["push"]
      BY <2>1, <2>2, <2>3, <2>4, <3>1
    <3>3. overlay' \in [Convs -> {overlay'[b] : b \in Convs}]
      BY <1>1, <2>4
    <3> QED
      BY <3>2, <3>3
  <2>6. dirty' \in BOOLEAN /\ validOverlaySet' \in SUBSET Convs
    BY <1>1, <1>2 DEF OverlayPush, TypeOK
  <2> QED
    BY <1>1, <1>2, <2>3, <2>5, <2>6 DEF Typed, TypeOK
<1>4. Told' /\ Placed' /\ Filled'
  BY <1>1, SilentStep DEF Shows, Told, Placed, Filled, Reading
<1>5. Fresh'
  <2>1. Fresh /\ validOverlaySet \subseteq Convs
    BY <1>2 DEF Shows, TypeOK
  <2>2. \A b \in validOverlaySet' : overlay'[b] = overlay[b]
    BY <1>1, <1>2, <2>1 DEF TypeOK
  <2> QED
    BY <1>1, <2>1, <2>2, SilentStep DEF Fresh
<1> QED
  BY <1>3, <1>4, <1>5 DEF Shows

\* Steps of the database that the proxy does not hear of.
LEMMA UnheardShows ==
    ASSUME Shows, txns' \in Seq(Read \cup Write), Reading' <=> Reading,
           cache' \in [Convs -> Versions \cup {None}],
           UNCHANGED <<record, overlay, idsWithDates, seek, dirty, validDataSet,
                       validOverlaySet, channel, view, behind, anchored, used>>
    PROVE  Shows'
<1>1. Typed'
  BY DEF Shows, Typed, TypeOK
<1>2. Told' /\ Placed' /\ Filled' /\ Fresh'
  BY SilentStep DEF Shows, Told, Placed, Filled, Fresh
<1> QED
  BY <1>1, <1>2 DEF Shows

LEMMA WriteCommitsShows == ASSUME Shows, WriteCommits PROVE Shows'
<1>1. txns \in Seq(Read \cup Write) /\ cache \in [Convs -> Versions \cup {None}]
  BY DEF Shows, Typed, TypeOK
<1>2. txns # << >> /\ Head(txns).kind = "write" /\ txns' = Tail(txns)
  BY DEF WriteCommits
<1>3. /\ txns' \in Seq(Read \cup Write) /\ Len(txns) \in Nat \ {0} /\ Len(txns') = Len(txns) - 1
      /\ txns[1].kind = "write" /\ \A i \in 1..Len(txns') : txns'[i] = txns[i + 1]
  BY <1>1, <1>2
<1>4. Reading' <=> Reading
  <2>1. ASSUME NEW i \in 1..Len(txns), txns[i].kind = "read" PROVE Reading'
    <3>1. i - 1 \in 1..Len(txns') /\ txns'[i - 1] = txns[i]
      BY <1>3, <2>1
    <3> QED
      BY <2>1, <3>1 DEF Reading
  <2>2. ASSUME NEW i \in 1..Len(txns'), txns'[i].kind = "read" PROVE Reading
    <3>1. i + 1 \in 1..Len(txns) /\ txns'[i] = txns[i + 1]
      BY <1>3, <2>2
    <3> QED
      BY <2>2, <3>1 DEF Reading
  <2> QED
    BY <2>1, <2>2 DEF Reading
<1> QED
  BY <1>1, <1>3, <1>4, UnheardShows DEF WriteCommits

LEMMA ReadAnswersShows ==
    ASSUME Shows, NEW i \in 1..Len(txns), NEW c \in Convs, ReadAnswers(i, c)
    PROVE  Shows'
<1>1. txns \in Seq(Read \cup Write) /\ cache \in [Convs -> Versions \cup {None}]
  BY DEF Shows, Typed, TypeOK
<1>2. /\ txns[i].kind = "read" /\ txns' = [txns EXCEPT ![i].left = @ \ {c}]
      /\ cache' = IF cache[c] # None THEN cache ELSE [cache EXCEPT ![c] = txns[i].got[c]]
  BY DEF ReadAnswers
<1>3. txns[i] \in Read
  <2>1. txns[i] \in Read \cup Write
    BY <1>1
  <2> QED
    BY <1>2, <2>1 DEF Write
<1>4. cache' \in [Convs -> Versions \cup {None}]
  BY <1>1, <1>2, <1>3 DEF Read
<1> DEFINE rd == [txns[i] EXCEPT !.left = @ \ {c}]
<1>5. rd \in Read /\ rd.kind = "read"
  BY <1>3 DEF Read
<1>6. txns' = [txns EXCEPT ![i] = rd]
  BY <1>2
<1> HIDE DEF rd
<1>7. txns' \in Seq(Read \cup Write) /\ Len(txns') = Len(txns) /\ txns'[i] = rd
  BY <1>1, <1>5, <1>6
<1>8. Reading' /\ Reading
  BY <1>2, <1>5, <1>7 DEF Reading
<1> QED
  BY <1>4, <1>7, <1>8, UnheardShows DEF ReadAnswers

LEMMA DeliverShows == ASSUME Shows, Deliver PROVE Shows'
<1>1. /\ channel # << >>
      /\ UNCHANGED <<record, cache, txns, overlay, idsWithDates, seek, dirty,
                     validDataSet, validOverlaySet, behind, anchored, used>>
  BY DEF Deliver
<1>2. Typed /\ TypeOK /\ Told /\ Placed /\ Filled /\ Fresh
  BY DEF Shows, Typed
<1>3. PICK n \in Nat :
        /\ Len(channel) = n + 1 /\ Len(channel') = n
        /\ \A j \in 1..n : channel'[j] = channel[j + 1]
  <2> DEFINE n == Len(channel) - 1
  <2>1. /\ Len(channel) \in Nat \ {0} /\ Len(channel') = n
        /\ \A j \in 1..Len(channel') : channel'[j] = channel[j + 1]
    BY <1>2, DeliverTakes
  <2>2. n \in Nat /\ Len(channel) = n + 1
    BY <2>1
  <2> HIDE DEF n
  <2> QED
    BY <2>1, <2>2
<1> DEFINE msg == channel[1]
<1>4. /\ \E S : channel' \in Seq(S)
      /\ view'.items = msg.ids
      /\ DOMAIN view'.objects = Range(msg.ids) \cap (DOMAIN view.objects \cup DOMAIN msg.values)
      /\ \A c \in DOMAIN view'.objects : view'.objects[c] = Shown(view.objects, msg, c)
  BY <1>2, DeliverTakes
<1>5. /\ StatesOf(msg.ids, msg.values) /\ StatesOf(view.items, view.objects)
      /\ \A i \in 1..(n + 1) : StatesOf(channel[i].ids, channel[i].values)
  BY <1>2, <1>3 DEF TypeOK
<1> HIDE DEF msg
<1>6. StatesOf(view'.items, view'.objects)
  <2>1. \A c \in DOMAIN msg.values : msg.values[c] \in States
    BY <1>5 DEF StatesOf
  <2>2. \A c \in DOMAIN view.objects : view.objects[c] \in States
    BY <1>5 DEF StatesOf
  <2>3. ASSUME NEW c \in DOMAIN view'.objects PROVE view'.objects[c] \in States
    <3>1. c \in DOMAIN view.objects \/ c \in DOMAIN msg.values
      BY <1>4
    <3>2. Shown(view.objects, msg, c) \in States
      BY <2>1, <2>2, <3>1 DEF Shown, States
    <3> QED
      BY <1>4, <3>2
  <2> QED
    BY <1>4, <1>5, <2>3 DEF StatesOf
<1>7. \A i \in 1..Len(channel') : StatesOf(channel'[i].ids, channel'[i].values)
  BY <1>3, <1>5
<1>8. Typed'
  BY <1>1, <1>2, <1>6, <1>7 DEF Typed, TypeOK
<1>9. LastIds' = LastIds
  <2>1. PICK S : channel' \in Seq(S)
    BY <1>4
  <2>2. LastIds = channel[n + 1].ids
    BY <1>1, <1>3 DEF LastIds
  <2>3. CASE n = 0
    <3>1. channel' = << >>
      BY <1>3, <2>1, <2>3
    <3> QED
      BY <1>4, <2>2, <2>3, <3>1 DEF LastIds, msg
  <2>4. CASE n # 0
    <3>1. channel' # << >> /\ channel'[Len(channel')] = channel[n + 1]
      BY <1>3, <2>1, <2>4
    <3> QED
      BY <2>2, <3>1 DEF LastIds
  <2> QED
    BY <2>3, <2>4
<1>10. Told' /\ Placed'
  BY <1>1, <1>2, <1>9, DeliverTells DEF Placed
<1>11. Filled'
  <2>1. DOMAIN view'.objects \subseteq Range(view'.items)
    BY <1>4
  <2>2. \A c : UnderWay(c) => UnderWay(c)'
    BY <1>2, DeliverKeeps
  <2> QED
    BY <1>1, <1>2, <1>9, <2>1, <2>2 DEF Filled, Reading
<1>12. Fresh'
  <2>1. \A c : Brings(1, c) => channel[1].values[c] \in States
    BY <1>5 DEF Brings, StatesOf, msg
  <2>2. \A c : /\ \A v : Says(c, "overlay", v) => Says(c, "overlay", v)'
               /\ \A v : v # None /\ Says(c, "data", v) => Says(c, "data", v)'
    BY <1>2, <2>1, DeliverKeeps
  <2>3. ASSUME NEW c \in validDataSet \ behind
        PROVE  record[c] # None /\ \A v : v = record[c] => Says(c, "data", v)'
    BY <1>2, <2>2 DEF Fresh
  <2>4. ASSUME NEW c \in validOverlaySet \ behind
        PROVE  \A v : v = overlay[c] => Says(c, "overlay", v)'
    BY <1>2, <2>2 DEF Fresh
  <2> QED
    BY <1>1, <2>3, <2>4 DEF Fresh, Says
<1> QED
  BY <1>8, <1>10, <1>11, <1>12 DEF Shows

-----------------------------------------------------------------------------

LEMMA InitShows == Init => Shows
<1> SUFFICES ASSUME Init PROVE Shows
  OBVIOUS
<1>1. TopKey \in Keys
  BY TopIsAboveDates
<1>2. channel = << >> /\ view.items = << >> /\ DOMAIN view.objects = {} /\ Range(view.items) = {}
  BY DEF Init, Range
<1>3. << >> \in Seq(Convs) /\ << >> \in Seq(Read \cup Write) /\ Len(<< >>) = 0
  OBVIOUS
<1>4. TypeOK
  <2>1. /\ record \in [Convs -> Versions \cup {None}] /\ cache \in [Convs -> Versions \cup {None}]
        /\ idsWithDates \in [Convs -> Dates \cup {None}]
    BY DEF Init
  <2>2. overlay \in [Convs -> 0..MaxPushes] /\ used \in [Used -> Nat]
    BY WindowedListAssumption DEF Init
  <2>3. StatesOf(view.items, view.objects) /\ Len(channel) = 0
    BY <1>2, <1>3 DEF Init, StatesOf
  <2>4. seek \in [mode : {"unset", "top", "bottom", "focus"}, key : Keys]
    BY <1>1 DEF Init
  <2>5. txns \in Seq(Read \cup Write)
    BY <1>3 DEF Init
  <2>6. \A i \in 1..Len(channel) : StatesOf(channel[i].ids, channel[i].values)
    BY <2>3
  <2>7. /\ dirty \in BOOLEAN /\ anchored \in BOOLEAN
        /\ {validDataSet, validOverlaySet, behind} \subseteq SUBSET Convs
    BY DEF Init
  <2> QED
    BY <2>1, <2>2, <2>3, <2>4, <2>5, <2>6, <2>7 DEF TypeOK
<1>5. Typed
  BY <1>4, WindowedListAssumption DEF Init, Typed, Used
<1>6. Placed
  BY <1>2 DEF Init, Placed, LastIds, Window
<1>7. Filled /\ Fresh
  BY <1>2 DEF Init, Filled, Fresh, LastIds
<1> QED
  BY <1>5, <1>6, <1>7, InitTold DEF Shows

LEMMA NextShows == Shows /\ [Next]_vars => Shows'
<1> SUFFICES ASSUME Shows, [Next]_vars PROVE Shows'
  OBVIOUS
<1>1. CASE TimerFires
  BY <1>1, TimerFiresShows
<1>2. CASE SeekToTop \/ SeekToBottom \/ SeekFocused
  BY <1>2, SeeksShow
<1>3. ASSUME NEW c \in Convs, NEW d \in Dates \cup {None}, WriteConv(c, d) PROVE Shows'
  BY <1>3, WriteConvShows
<1>4. ASSUME NEW c \in Convs, OverlayPush(c) PROVE Shows'
  BY <1>4, OverlayPushShows
<1>5. CASE WriteCommits
  BY <1>5, WriteCommitsShows
<1>6. ASSUME NEW i \in 1..Len(txns), NEW c \in Convs, ReadAnswers(i, c) PROVE Shows'
  BY <1>6, ReadAnswersShows
<1>7. ASSUME NEW i \in 1..Len(txns), ReadCompletes(i) PROVE Shows'
  BY <1>7, ReadCompletesShows
<1>8. CASE EmptyCache
  BY <1>8, EmptyCacheShows
<1>9. CASE Deliver
  BY <1>9, DeliverShows
<1>10. CASE UNCHANGED vars
  <2>1. UNCHANGED <<channel, view>> /\ (Reading' <=> Reading)
    BY <1>10 DEF vars, Reading
  <2>2. txns' \in Seq(Read \cup Write) /\ cache' \in [Convs -> Versions \cup {None}]
    BY <1>10 DEF vars, Shows, Typed, TypeOK
  <2> QED
    BY <1>10, <2>1, <2>2, UnheardShows DEF vars
<1> QED
  BY <1>1, <1>2, <1>3, <1>4, <1>5, <1>6, <1>7, <1>8, <1>9, <1>10 DEF Next, ReadProgresses

LEMMA ShowsRowsAtRest == Shows => RowsAtRest
<1> SUFFICES ASSUME Shows, AtRest
             PROVE  /\ anchored => view.items = Window(seek, idsWithDates)
                    /\ Range(view.items) = DOMAIN view.objects
                    /\ FreshUnlessBehind
  BY DEF RowsAtRest, Shows, Typed
<1>1. channel = << >> /\ Len(channel) = 0 /\ ~dirty /\ ~Reading /\ LastIds = view.items
  BY DEF AtRest, LastIds
<1>2. anchored => view.items = Window(seek, idsWithDates)
  BY <1>1 DEF Shows, Placed
<1>3. \A c : UnderWay(c) => c \in DOMAIN view.objects
  BY <1>1 DEF UnderWay, Brings
<1>4. Range(view.items) = DOMAIN view.objects
  BY <1>1, <1>3 DEF Shows, Filled
<1>5. \A c, f, v : Says(c, f, v) => view.objects[c][f] = v
  BY <1>1 DEF Says, Carries
<1>6. ASSUME NEW c \in DOMAIN view.objects \ behind
      PROVE  view.objects[c] = [data |-> record[c], overlay |-> overlay[c]]
  <2>1. c \in validDataSet /\ c \in validOverlaySet
    BY <1>1, <1>4, <1>6 DEF Shows, Filled
  <2>2. view.objects[c]["data"] = record[c] /\ view.objects[c]["overlay"] = overlay[c]
    BY <1>5, <1>6, <2>1 DEF Shows, Fresh
  <2>3. view.objects[c] \in States
    BY <1>6 DEF Shows, Typed, TypeOK, StatesOf
  <2> QED
    BY <2>2, <2>3 DEF States
<1> QED
  BY <1>2, <1>4, <1>6 DEF FreshUnlessBehind

\* Whenever no timer, read or message is pending, the rows on screen are the window
\* of the table of contents as it is, unless its anchor has moved since the seek; each row has
\* its object, and shows the record and the overlay as they are, unless the proxy
\* lost track of that conversation.
THEOREM RowsAtRestHolds == Spec => []RowsAtRest
<1>1. Spec => []Shows
  BY InitShows, NextShows, PTL DEF Spec
<1> QED
  BY <1>1, ShowsRowsAtRest, PTL

=============================================================================
