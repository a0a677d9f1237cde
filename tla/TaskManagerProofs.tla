------------------------- MODULE TaskManagerProofs -------------------------
(***************************************************************************)
(* What TaskManager keeps true for any number of tasks, bins, resources,   *)
(* crashes, failures and aborts, in three parts that each rest on the one  *)
(* before.                                                                 *)
(*                                                                         *)
(* Types and sequences.                                                    *)
(*                                                                         *)
(* Homes: the inductive invariant behind OneHome, QueueIsDurable and       *)
(* SortedByNeed.                                                           *)
(*                                                                         *)
(* Upkeep: what others rely on TaskManager for.  At-most-once tasks drop a *)
(* request because its bin has a marker that will run, and the listeners   *)
(* of taskQueueEmpty take it that nothing is left to do.  And its records  *)
(* against its memory: no raw record is forgotten by a process that is up; *)
(* and, as long as the database aborts nothing, jobs run in the order in   *)
(* which their records say they may, and no bin that is owed is lost.      *)
(***************************************************************************)
EXTENDS TaskManager, TLAPS, FiniteSetTheorems

-----------------------------------------------------------------------------
(* Sequences: the plan queue and the queue of transactions. *)

Seen(x, s) == \E i \in 1..Len(s) : s[i] = x

Distinct(s) == \A i, j \in 1..Len(s) : s[i] = s[j] => i = j

\* Positions of the addTasks transactions.
Adds(s) == {i \in 1..Len(s) : s[i].kind = "add"}

\* Taking the head of a sequence (shift) leaves the other elements.
LEMMA SeenTail ==
    ASSUME NEW S, NEW s \in Seq(S), s # << >>, NEW x
    PROVE  Seen(x, s) <=> x = Head(s) \/ Seen(x, Tail(s))
<1>1. /\ Len(s) \in Nat \ {0} /\ Len(Tail(s)) = Len(s) - 1 /\ Head(s) = s[1]
      /\ \A i \in 1..Len(Tail(s)) : Tail(s)[i] = s[i + 1]
  OBVIOUS
<1>2. ASSUME NEW i \in 1..Len(s), i # 1 PROVE i - 1 \in 1..Len(Tail(s)) /\ Tail(s)[i - 1] = s[i]
  BY <1>1, <1>2
<1>3. ASSUME NEW i \in 1..Len(Tail(s)) PROVE i + 1 \in 1..Len(s)
  BY <1>1
<1>4. 1 \in 1..Len(s)
  BY <1>1
<1> QED BY <1>1, <1>2, <1>3, <1>4 DEF Seen

\* If no element repeats, the head is gone once it is taken.
LEMMA DistinctTail ==
    ASSUME NEW S, NEW s \in Seq(S), s # << >>, Distinct(s)
    PROVE  Distinct(Tail(s)) /\ ~Seen(Head(s), Tail(s))
<1>1. /\ Len(s) \in Nat \ {0} /\ Len(Tail(s)) = Len(s) - 1 /\ Head(s) = s[1]
      /\ \A i \in 1..Len(Tail(s)) : Tail(s)[i] = s[i + 1]
  OBVIOUS
<1>2. \A i \in 1..Len(Tail(s)) : i + 1 \in 1..Len(s) /\ i + 1 # 1 /\ i \in Nat
  BY <1>1
<1>3. 1 \in 1..Len(s)
  BY <1>1
<1>4. \A i, j \in 1..Len(Tail(s)) : Tail(s)[i] = Tail(s)[j] => i = j
  BY <1>1, <1>2 DEF Distinct
<1> QED BY <1>1, <1>2, <1>3, <1>4 DEF Seen, Distinct

\* Adding a batch at the end (splice) adds its elements.
LEMMA SeenConcat ==
    ASSUME NEW S, NEW s \in Seq(S), NEW r \in Seq(S), NEW x
    PROVE  Seen(x, s \o r) <=> Seen(x, s) \/ Seen(x, r)
<1>1. /\ Len(s) \in Nat /\ Len(r) \in Nat /\ Len(s \o r) = Len(s) + Len(r)
      /\ \A i \in 1..Len(s \o r) :
            (s \o r)[i] = IF i <= Len(s) THEN s[i] ELSE r[i - Len(s)]
  OBVIOUS
<1>2. ASSUME NEW i \in 1..Len(s \o r), (s \o r)[i] = x PROVE Seen(x, s) \/ Seen(x, r)
  <2>1. CASE i <= Len(s)
    BY <1>1, <1>2, <2>1 DEF Seen
  <2>2. CASE i > Len(s)
    <3>1. i - Len(s) \in 1..Len(r)
      BY <1>1, <2>2
    <3> QED BY <1>1, <1>2, <2>2, <3>1 DEF Seen
  <2> QED BY <1>1, <2>1, <2>2
<1>3. ASSUME NEW i \in 1..Len(s), s[i] = x PROVE Seen(x, s \o r)
  <2>1. i \in 1..Len(s \o r)
    BY <1>1
  <2> QED BY <1>1, <1>3, <2>1 DEF Seen
<1>4. ASSUME NEW i \in 1..Len(r), r[i] = x PROVE Seen(x, s \o r)
  <2>1. Len(s) + i \in 1..Len(s \o r) /\ ~(Len(s) + i <= Len(s)) /\ (Len(s) + i) - Len(s) = i
    BY <1>1
  <2> QED BY <1>1, <1>4, <2>1 DEF Seen
<1> QED BY <1>2, <1>3, <1>4 DEF Seen

\* A batch of new elements leaves a sequence without repetition.
LEMMA DistinctConcat ==
    ASSUME NEW S, NEW s \in Seq(S), NEW r \in Seq(S), Distinct(s), Distinct(r),
           \A x \in S : ~(Seen(x, s) /\ Seen(x, r))
    PROVE  Distinct(s \o r)
<1>1. /\ Len(s) \in Nat /\ Len(r) \in Nat /\ Len(s \o r) = Len(s) + Len(r)
      /\ \A i \in 1..Len(s \o r) :
            (s \o r)[i] = IF i <= Len(s) THEN s[i] ELSE r[i - Len(s)]
      /\ \A i \in 1..Len(s) : s[i] \in S
  OBVIOUS
<1> SUFFICES ASSUME NEW i \in 1..Len(s \o r), NEW j \in 1..Len(s \o r),
                    (s \o r)[i] = (s \o r)[j]
             PROVE  i = j
  BY DEF Distinct
<1>2. ASSUME NEW k \in 1..Len(s \o r), k <= Len(s)
      PROVE  k \in 1..Len(s) /\ (s \o r)[k] = s[k]
  BY <1>1, <1>2
<1>3. ASSUME NEW k \in 1..Len(s \o r), ~(k <= Len(s))
      PROVE  k - Len(s) \in 1..Len(r) /\ (s \o r)[k] = r[k - Len(s)]
  BY <1>1, <1>3
<1>4. CASE i <= Len(s) /\ j <= Len(s)
  BY <1>2, <1>4 DEF Distinct
<1>5. CASE ~(i <= Len(s)) /\ ~(j <= Len(s))
  <2>1. i - Len(s) = j - Len(s)
    BY <1>3, <1>5 DEF Distinct
  <2> QED BY <1>1, <2>1
<1>6. CASE i <= Len(s) /\ ~(j <= Len(s))
  BY <1>1, <1>2, <1>3, <1>6 DEF Seen
<1>7. CASE ~(i <= Len(s)) /\ j <= Len(s)
  BY <1>1, <1>2, <1>3, <1>7 DEF Seen
<1> QED BY <1>4, <1>5, <1>6, <1>7

\* One element at the end (push).
LEMMA SeenAppend ==
    ASSUME NEW S, NEW s \in Seq(S), NEW e \in S, NEW x
    PROVE  Seen(x, Append(s, e)) <=> Seen(x, s) \/ x = e
<1>1. /\ Len(s) \in Nat /\ Len(Append(s, e)) = Len(s) + 1
      /\ Append(s, e)[Len(s) + 1] = e
      /\ \A i \in 1..Len(s) : Append(s, e)[i] = s[i]
  OBVIOUS
<1>2. \A i : i \in 1..(Len(s) + 1) <=> i \in 1..Len(s) \/ i = Len(s) + 1
  BY <1>1
<1> QED BY <1>1, <1>2 DEF Seen

LEMMA DistinctAppend ==
    ASSUME NEW S, NEW s \in Seq(S), NEW e \in S, Distinct(s), ~Seen(e, s)
    PROVE  Distinct(Append(s, e))
<1>1. /\ Len(s) \in Nat /\ Len(Append(s, e)) = Len(s) + 1
      /\ Append(s, e)[Len(s) + 1] = e
      /\ \A i \in 1..Len(s) : Append(s, e)[i] = s[i]
  OBVIOUS
<1>2. \A i : i \in 1..(Len(s) + 1) <=> i \in 1..Len(s) \/ i = Len(s) + 1
  BY <1>1
<1> QED BY <1>1, <1>2 DEF Seen, Distinct

\* The orders in which a set of tasks may be enqueued.
LEMMA OrderFacts ==
    ASSUME NEW S \in SUBSET Tasks, NEW order \in SetToSeqs(S)
    PROVE  /\ order \in Seq(S) /\ order \in Seq(Tasks)
           /\ Distinct(order)
           /\ \A x : Seen(x, order) => x \in S
<1>1. Cardinality(S) \in Nat
  <2>1. IsFiniteSet(S)
    BY FS_Subset, TaskManagerAssumption
  <2> QED BY <2>1, FS_CardinalityType
<1>2. order \in [1..Cardinality(S) -> S]
  BY DEF SetToSeqs
<1>3. order \in Seq(S) /\ Len(order) = Cardinality(S)
  BY <1>1, <1>2
<1> QED BY <1>2, <1>3 DEF SetToSeqs, Distinct, Seen

-----------------------------------------------------------------------------
(* Counting the addTasks transactions. *)

LEMMA AddsFinite ==
    ASSUME NEW s \in Seq(Txn)
    PROVE  IsFiniteSet(Adds(s)) /\ Cardinality(Adds(s)) \in Nat
<1>1. IsFiniteSet(1..Len(s))
  BY FS_Interval
<1>2. Adds(s) \subseteq 1..Len(s)
  BY DEF Adds
<1> QED BY <1>1, <1>2, FS_Subset, FS_CardinalityType

LEMMA AddsAppend ==
    ASSUME NEW s \in Seq(Txn), NEW x \in Txn
    PROVE  Cardinality(Adds(Append(s, x))) =
             Cardinality(Adds(s)) + (IF x.kind = "add" THEN 1 ELSE 0)
<1>1. /\ Len(s) \in Nat /\ Len(Append(s, x)) = Len(s) + 1
      /\ Append(s, x)[Len(s) + 1] = x
      /\ \A i \in 1..Len(s) : Append(s, x)[i] = s[i]
  OBVIOUS
<1>2. \A i : i \in 1..(Len(s) + 1) <=> i \in 1..Len(s) \/ i = Len(s) + 1
  BY <1>1
<1>3. IsFiniteSet(Adds(s)) /\ Cardinality(Adds(s)) \in Nat
  BY AddsFinite
<1>4. CASE x.kind = "add"
  <2>1. Adds(Append(s, x)) = Adds(s) \cup {Len(s) + 1}
    BY <1>1, <1>2, <1>4 DEF Adds
  <2>2. Len(s) + 1 \notin Adds(s)
    BY <1>1 DEF Adds
  <2> QED BY <1>3, <1>4, <2>1, <2>2, FS_AddElement
<1>5. CASE x.kind # "add"
  <2>1. Adds(Append(s, x)) = Adds(s)
    BY <1>1, <1>2, <1>5 DEF Adds
  <2> QED BY <1>3, <1>5, <2>1
<1> QED BY <1>4, <1>5

LEMMA AddsTail ==
    ASSUME NEW s \in Seq(Txn), s # << >>
    PROVE  Cardinality(Adds(Tail(s))) =
             Cardinality(Adds(s)) - (IF Head(s).kind = "add" THEN 1 ELSE 0)
<1>1. /\ Len(s) \in Nat \ {0} /\ Len(Tail(s)) = Len(s) - 1 /\ Head(s) = s[1]
      /\ \A i \in 1..Len(Tail(s)) : Tail(s)[i] = s[i + 1]
  OBVIOUS
<1> DEFINE A == Adds(Tail(s))
           B == Adds(s) \ {1}
           f == [i \in A |-> i + 1]
<1>2. IsFiniteSet(Adds(s)) /\ Cardinality(Adds(s)) \in Nat
  BY AddsFinite
<1>3. Tail(s) \in Seq(Txn)
  OBVIOUS
<1>4. IsFiniteSet(A)
  BY <1>3, AddsFinite
<1>5. f \in Bijection(A, B)
  <2>1. f \in [A -> B]
    BY <1>1 DEF Adds
  <2>2. \A i, j \in A : f[i] = f[j] => i = j
    BY DEF Adds
  <2>3. ASSUME NEW k \in B PROVE k - 1 \in A /\ f[k - 1] = k
    <3>1. k \in 2..Len(s) /\ s[k].kind = "add"
      BY <1>1 DEF Adds
    <3>2. k - 1 \in 1..Len(Tail(s)) /\ Tail(s)[k - 1] = s[k]
      BY <1>1, <3>1
    <3>3. k - 1 \in A
      BY <3>1, <3>2 DEF Adds
    <3> QED BY <3>1, <3>3
  <2> QED BY <2>1, <2>2, <2>3 DEF Bijection, Injection, Surjection, IsInjective
<1>6. Cardinality(A) = Cardinality(B)
  BY <1>4, <1>5, FS_Bijection DEF ExistsBijection
<1>7. CASE Head(s).kind = "add"
  <2>1. 1 \in Adds(s)
    BY <1>1, <1>7 DEF Adds
  <2>2. Cardinality(B) = Cardinality(Adds(s)) - 1
    BY <1>2, <2>1, FS_RemoveElement
  <2> QED BY <1>6, <1>7, <2>2
<1>8. CASE Head(s).kind # "add"
  <2>1. B = Adds(s)
    BY <1>1, <1>8 DEF Adds
  <2>2. Cardinality(B) = Cardinality(Adds(s))
    BY <2>1, Zenon
  <2> QED BY <1>2, <1>6, <1>8, <2>2
<1> QED BY <1>7, <1>8

\* A database that has an addTasks at its head was asked for at least one.
LEMMA AddIsCounted ==
    ASSUME NEW s \in Seq(Txn), s # << >>, Head(s).kind = "add"
    PROVE  Cardinality(Adds(s)) > 0
<1>1. Cardinality(Adds(Tail(s))) = Cardinality(Adds(s)) - 1
  BY AddsTail
<1>2. Tail(s) \in Seq(Txn)
  OBVIOUS
<1>3. Cardinality(Adds(Tail(s))) \in Nat /\ Cardinality(Adds(s)) \in Nat
  BY <1>2, AddsFinite
<1> QED BY <1>1, <1>3

-----------------------------------------------------------------------------
(* Types. *)

\* The manager counts every addTasks in flight (an aborted one stays counted).
WritesCounted == Cardinality(Adds(txns)) <= pendingPlanWrites

TypeInv == TypeOK /\ WritesCounted

\* The types of what _maybeDoStuff assigns.
StuffTyped ==
    /\ tasksToPlan \in Seq(Tasks)
    /\ active \in Job \cup {NoJob}
    /\ prioritized \in SUBSET Things
    /\ inProgressBins \in SUBSET Bins
    /\ wakeLock \in BOOLEAN /\ timer \in BOOLEAN
    /\ signal \in {"none", "taskQueueEmpty"}

LEMMA DoStuffTyped ==
    ASSUME TypeOK, NEW q \in Seq(Tasks), NEW ready \in SUBSET Things, NEW pending,
           NEW lock \in BOOLEAN, NEW again \in BOOLEAN,
           DoStuff(q, ready, pending, lock, again)
    PROVE  StuffTyped'
<1>1. CASE PlanNext(q, ready, lock, again)
  <2>1. Head(q) \in Tasks /\ Tail(q) \in Seq(Tasks)
    BY <1>1 DEF PlanNext
  <2>2. active' \in Job
    BY <1>1, <2>1 DEF PlanNext, Job
  <2>3. active' \in Job \cup {NoJob}
    BY <2>2
  <2>4. /\ tasksToPlan' \in Seq(Tasks) /\ prioritized' \in SUBSET Things
        /\ inProgressBins' \in SUBSET Bins
        /\ wakeLock' \in BOOLEAN /\ timer' \in BOOLEAN
        /\ signal' \in {"none", "taskQueueEmpty"}
    BY <1>1, <2>1 DEF PlanNext, TypeOK
  <2> QED BY <2>3, <2>4 DEF StuffTyped
<1>2. CASE PlanMoot(q, ready, lock, again)
  BY <1>2 DEF PlanMoot, TypeOK, StuffTyped
<1>3. CASE ExecuteNext(q, ready, lock, again)
  <2>1. PICK th \in ready :
          /\ active' = [mode |-> "exec", thing |-> th, stage |-> "run"]
          /\ prioritized' = ready \ {th}
          /\ inProgressBins' = inProgressBins \cup ({th} \cap Bins)
    BY <1>3 DEF ExecuteNext
  <2>2. active' \in Job \cup {NoJob}
    BY <2>1 DEF Job, Things, Tasks
  <2>3. prioritized' \in SUBSET Things /\ inProgressBins' \in SUBSET Bins
    BY <2>1 DEF TypeOK
  <2>4. /\ tasksToPlan' \in Seq(Tasks)
        /\ wakeLock' \in BOOLEAN /\ timer' \in BOOLEAN
        /\ signal' \in {"none", "taskQueueEmpty"}
    BY <1>3 DEF ExecuteNext
  <2> QED BY <2>2, <2>3, <2>4 DEF StuffTyped
<1>4. CASE NothingToDo(q, ready, pending, again)
  BY <1>4 DEF NothingToDo, TypeOK, StuffTyped
<1> QED BY <1>1, <1>2, <1>3, <1>4 DEF DoStuff

LEMMA MaybeDoStuffTyped ==
    ASSUME TypeOK, NEW q \in Seq(Tasks), NEW ready \in SUBSET Things, NEW pending,
           NEW lock \in BOOLEAN, NEW again \in BOOLEAN,
           MaybeDoStuff(q, ready, pending, lock, again)
    PROVE  StuffTyped'
<1>1. CASE Busy
  BY <1>1 DEF MaybeDoStuff, TypeOK, StuffTyped
<1>2. CASE ~Busy
  BY <1>2, DoStuffTyped DEF MaybeDoStuff
<1> QED BY <1>1, <1>2

LEMMA RelayTyped ==
    ASSUME TypeOK, NEW things \in SUBSET Things, NEW avail \in SUBSET Resources
    PROVE  /\ Relayed(things, avail) \in SUBSET Things
           /\ Filed(things, avail) \in [Bins -> Resources \cup {NoResource}]
<1>1. ASSUME NEW b \in Bins PROVE Missing(b, avail) \in Resources \cup {NoResource}
  <2>1. Needs[b] \subseteq Resources
    BY TaskManagerAssumption
  <2>2. CASE Needs[b] \subseteq avail
    BY <2>2 DEF Missing
  <2>3. CASE ~(Needs[b] \subseteq avail)
    <3>1. \E r : r \in Needs[b] \ avail
      BY <2>3
    <3>2. (CHOOSE r \in Needs[b] \ avail : TRUE) \in Needs[b] \ avail
      BY <3>1
    <3> QED BY <2>1, <2>3, <3>2 DEF Missing
  <2> QED BY <2>2, <2>3
<1> QED BY <1>1 DEF TypeOK, Relayed, Filed

LEMMA SubmitTyped ==
    ASSUME TypeOK, NEW kind \in {"add", "finish", "failsafe"},
           NEW thing \in Tasks \cup Bins \cup {NoThing},
           NEW result \in {"planned", "covered", "done", "dropped"},
           NEW saves \in BOOLEAN, NEW new \in SUBSET Tasks,
           result = "covered" => thing \in Complex,
           binToMarker' \in SUBSET Bins,
           Submit(kind, thing, result, saves, new)
    PROVE  /\ txns' \in Seq(Txn)
           /\ Cardinality(Adds(txns')) =
                Cardinality(Adds(txns)) + (IF kind = "add" THEN 1 ELSE 0)
<1> DEFINE x == [kind |-> kind, thing |-> thing, result |-> result, saves |-> saves,
                 new |-> new, bins |-> IF saves THEN binToMarker' ELSE {}]
<1>1. x \in Txn
  BY DEF Txn
<1>2. txns' = Append(txns, x)
  BY DEF Submit
<1>3. txns \in Seq(Txn)
  BY DEF TypeOK
<1>4. txns' \in Seq(Txn)
  BY <1>1, <1>2, <1>3
<1>5. x.kind = kind
  OBVIOUS
<1> HIDE DEF x
<1>6. Cardinality(Adds(Append(txns, x))) =
        Cardinality(Adds(txns)) + (IF x.kind = "add" THEN 1 ELSE 0)
  BY <1>1, <1>3, AddsAppend
<1> QED BY <1>2, <1>4, <1>5, <1>6

LEMMA ApplyTyped ==
    ASSUME TypeOK, NEW x \in Txn, Apply(x)
    PROVE  /\ diskTasks' \in [Tasks -> {"absent", "raw", "planned"}]
           /\ diskBins' \in SUBSET Bins
           /\ fate' \in [Tasks -> Fates]
           /\ owed' \in SUBSET Bins
<1>1. diskTasks' \in [Tasks -> {"absent", "raw", "planned"}]
  BY DEF Apply, TypeOK
<1>2. diskBins' \in SUBSET Bins
  BY DEF Apply, TypeOK, Txn
<1>3. fate' \in [Tasks -> Fates]
  BY DEF Apply, TypeOK, Txn, Fates
<1>4. owed' \in SUBSET Bins
  BY TaskManagerAssumption DEF Apply, TypeOK, Txn
<1> QED BY <1>1, <1>2, <1>3, <1>4

\* The oldest transaction and the ones behind it.
LEMMA NextTxnTyped ==
    ASSUME TypeOK, txns # << >>, txns' = Tail(txns)
    PROVE  /\ Head(txns) \in Txn /\ txns' \in Seq(Txn)
           /\ Cardinality(Adds(txns')) =
                Cardinality(Adds(txns)) - (IF Head(txns).kind = "add" THEN 1 ELSE 0)
<1>1. txns \in Seq(Txn)
  BY DEF TypeOK
<1>2. Head(txns) \in Txn /\ Tail(txns) \in Seq(Txn)
  BY <1>1
<1>3. Cardinality(Adds(Tail(txns))) =
        Cardinality(Adds(txns)) - (IF Head(txns).kind = "add" THEN 1 ELSE 0)
  BY <1>1, AddsTail
<1> QED BY <1>2, <1>3

LEMMA CountTyped == ASSUME TypeOK PROVE Cardinality(Adds(txns)) \in Nat
BY AddsFinite DEF TypeOK

LEMMA BatchTyped ==
    ASSUME NEW new \in Batches PROVE new \in SUBSET Tasks
BY DEF Batches

LEMMA IssueTyped ==
    ASSUME TypeOK, NEW new, Issue(new) PROVE fate' \in [Tasks -> Fates]
BY DEF TypeOK, Issue, Fates

LEMMA SpendTyped ==
    ASSUME TypeOK, NEW what \in {"crash", "fail", "abort", "flip"}, Spend(what)
    PROVE  used' \in [{"crash", "fail", "abort", "flip"} -> Nat]
<1>1. used[what] + 1 \in Nat
  BY DEF TypeOK
<1> QED BY <1>1 DEF TypeOK, Spend

\* TypeInv in three parts.
TxnsTyped == txns \in Seq(Txn) /\ pendingPlanWrites \in Nat /\ WritesCounted

RestTyped ==
    /\ diskTasks \in [Tasks -> {"absent", "raw", "planned"}]
    /\ diskBins \in SUBSET Bins
    /\ phase \in {"off", "loading", "restoring", "up"}
    /\ blockedOn \in [Bins -> Resources \cup {NoResource}]
    /\ available \in SUBSET Resources
    /\ binToMarker \in SUBSET Bins
    /\ fate \in [Tasks -> Fates]
    /\ owed \in SUBSET Bins
    /\ parked \in SUBSET Tasks
    /\ used \in [{"crash", "fail", "abort", "flip"} -> Nat]

LEMMA TypeParts == TypeInv <=> StuffTyped /\ TxnsTyped /\ RestTyped
BY DEF TypeInv, TypeOK, StuffTyped, TxnsTyped, RestTyped

LEMMA TypePartsNext == TypeInv' <=> StuffTyped' /\ TxnsTyped' /\ RestTyped'
BY DEF TypeInv, TypeOK, StuffTyped, TxnsTyped, RestTyped

\* A new transaction that is not an addTasks, or one that is counted.
LEMMA TxnsSubmitted ==
    ASSUME TypeInv, NEW kind \in {"add", "finish", "failsafe"},
           NEW thing \in Tasks \cup Bins \cup {NoThing},
           NEW result \in {"planned", "covered", "done", "dropped"},
           NEW saves \in BOOLEAN, NEW new \in SUBSET Tasks,
           result = "covered" => thing \in Complex,
           binToMarker' \in SUBSET Bins,
           Submit(kind, thing, result, saves, new),
           pendingPlanWrites' = pendingPlanWrites + (IF kind = "add" THEN 1 ELSE 0)
    PROVE  TxnsTyped'
<1>1. /\ txns' \in Seq(Txn)
      /\ Cardinality(Adds(txns')) =
            Cardinality(Adds(txns)) + (IF kind = "add" THEN 1 ELSE 0)
  BY SubmitTyped DEF TypeInv
<1>2. pendingPlanWrites \in Nat /\ Cardinality(Adds(txns)) \in Nat
      /\ Cardinality(Adds(txns)) <= pendingPlanWrites
  BY CountTyped DEF TypeInv, TypeOK, WritesCounted
<1>3. CASE kind = "add"
  BY <1>1, <1>2, <1>3 DEF TxnsTyped, WritesCounted
<1>4. CASE kind # "add"
  BY <1>1, <1>2, <1>4 DEF TxnsTyped, WritesCounted
<1> QED BY <1>3, <1>4

\* The oldest transaction is gone; an addTasks that committed is not counted.
LEMMA TxnsAnswered ==
    ASSUME TypeInv, txns # << >>, txns' = Tail(txns),
           \/ pendingPlanWrites' = pendingPlanWrites
           \/ /\ Head(txns).kind = "add"
              /\ pendingPlanWrites' = pendingPlanWrites - 1
    PROVE  TxnsTyped'
<1>1. /\ txns' \in Seq(Txn)
      /\ Cardinality(Adds(txns')) =
            Cardinality(Adds(txns)) - (IF Head(txns).kind = "add" THEN 1 ELSE 0)
  BY NextTxnTyped DEF TypeInv
<1>2. pendingPlanWrites \in Nat /\ Cardinality(Adds(txns)) \in Nat
      /\ Cardinality(Adds(txns)) <= pendingPlanWrites
  BY CountTyped DEF TypeInv, TypeOK, WritesCounted
<1>3. CASE Head(txns).kind = "add"
  <2>1. Cardinality(Adds(txns)) > 0
    BY <1>3, AddIsCounted DEF TypeInv, TypeOK
  <2>2. pendingPlanWrites' \in Nat /\ Cardinality(Adds(txns')) <= pendingPlanWrites'
    BY <1>1, <1>2, <1>3, <2>1
  <2> QED BY <1>1, <2>2 DEF TxnsTyped, WritesCounted
<1>4. CASE Head(txns).kind # "add"
  BY <1>1, <1>2, <1>4 DEF TxnsTyped, WritesCounted
<1> QED BY <1>3, <1>4

LEMMA TypeInit == Init => TypeInv
<1> SUFFICES ASSUME Init PROVE TypeInv
  OBVIOUS
<1>1. StuffTyped
  <2>1. tasksToPlan \in Seq(Tasks)
    BY DEF Init
  <2>2. /\ active = NoJob /\ prioritized = {} /\ inProgressBins = {}
        /\ signal = "none"
    BY DEF Init
  <2>3. wakeLock \in BOOLEAN /\ timer \in BOOLEAN
    BY DEF Init
  <2> QED BY <2>1, <2>2, <2>3 DEF StuffTyped
<1>2. Adds(txns) = {}
  BY DEF Init, Adds
<1>3. Cardinality(Adds(txns)) = 0
  BY <1>2, FS_EmptySet
<1>4. txns \in Seq(Txn) /\ pendingPlanWrites = 0
  BY DEF Init
<1>5. TxnsTyped
  BY <1>3, <1>4 DEF TxnsTyped, WritesCounted
<1>6. fate \in [Tasks -> Fates]
  BY DEF Init, Fates
<1>7. used \in [{"crash", "fail", "abort", "flip"} -> Nat]
  BY DEF Init
<1>8. /\ diskTasks \in [Tasks -> {"absent", "raw", "planned"}]
      /\ blockedOn \in [Bins -> Resources \cup {NoResource}]
  BY DEF Init
<1>9. RestTyped
  BY <1>6, <1>7, <1>8 DEF Init, RestTyped
<1> QED BY <1>1, <1>5, <1>9, TypeParts

\* A job that calls finishTask.
LEMMA FinishTaskTyped ==
    ASSUME TypeInv, NEW th \in Tasks \cup Bins,
           NEW result \in {"planned", "covered", "done"}, NEW saves \in BOOLEAN, NEW new,
           result = "covered" => th \in Complex,
           active # NoJob,
           FinishTask(th, result, saves, new),
           prioritized' \in SUBSET Things,
           blockedOn' \in [Bins -> Resources \cup {NoResource}],
           binToMarker' \in SUBSET Bins, inProgressBins' \in SUBSET Bins
    PROVE  TypeInv'
<1> USE DEF TypeInv
<1>1. new \in SUBSET Tasks
  BY BatchTyped DEF FinishTask
<1>2. Submit("finish", th, result, saves, new)
  BY DEF FinishTask
<1>3. TxnsTyped'
  <2>1. pendingPlanWrites' = pendingPlanWrites + (IF "finish" = "add" THEN 1 ELSE 0)
    BY DEF FinishTask, TypeOK
  <2> QED BY <1>1, <1>2, <2>1, TxnsSubmitted
<1>4. active' \in Job \cup {NoJob}
  <2>1. active \in Job
    BY DEF TypeOK
  <2> QED BY <2>1 DEF FinishTask, Job
<1>5. StuffTyped'
  <2>1. /\ tasksToPlan' \in Seq(Tasks) /\ wakeLock' \in BOOLEAN /\ timer' \in BOOLEAN
        /\ signal' \in {"none", "taskQueueEmpty"}
    BY DEF FinishTask, TypeOK
  <2> QED BY <1>4, <2>1 DEF StuffTyped
<1>6. fate' \in [Tasks -> Fates]
  BY IssueTyped DEF FinishTask
<1>7. RestTyped'
  BY <1>6 DEF FinishTask, TypeOK, RestTyped, disk
<1> QED BY <1>3, <1>5, <1>7, TypePartsNext

LEMMA RunningJob ==
    ASSUME NEW mode \in {"plan", "exec"}, NEW th \in Tasks \cup Bins, Running(mode, th)
    PROVE  /\ active \in Job /\ active # NoJob
           /\ active.mode = mode /\ active.thing = th /\ active.stage = "run"
<1>1. active = [mode |-> mode, thing |-> th, stage |-> "run"]
  BY DEF Running
<1>2. [mode |-> mode, thing |-> th, stage |-> "run"] \in Job
  BY DEF Job
<1> QED BY <1>1, <1>2, TaskManagerAssumption

LEMMA JobFinishesTyped == ASSUME TypeInv, JobFinishes PROVE TypeInv'
<1>1. ASSUME NEW t \in Tasks, NEW new \in Batches, PlanSimple(t, new) PROVE TypeInv'
  <2>1. {t} \in SUBSET Things /\ available \in SUBSET Resources
    BY <1>1 DEF PlanSimple, Things, TypeInv, TypeOK
  <2>2. /\ prioritized' \in SUBSET Things
        /\ blockedOn' \in [Bins -> Resources \cup {NoResource}]
    BY <1>1, <2>1, RelayTyped DEF PlanSimple, OwnOrRelay, TypeInv
  <2>3. binToMarker' \in SUBSET Bins /\ inProgressBins' \in SUBSET Bins
    BY <1>1 DEF PlanSimple, bins, TypeInv, TypeOK
  <2>4. active # NoJob /\ FinishTask(t, "planned", FALSE, new)
    BY <1>1, RunningJob DEF PlanSimple
  <2> QED BY <2>2, <2>3, <2>4, FinishTaskTyped
<1>2. ASSUME NEW t \in Tasks, NEW new \in Batches, PlanConcludes(t, new) PROVE TypeInv'
  <2>1. /\ prioritized' \in SUBSET Things
        /\ blockedOn' \in [Bins -> Resources \cup {NoResource}]
        /\ binToMarker' \in SUBSET Bins /\ inProgressBins' \in SUBSET Bins
    BY <1>2 DEF PlanConcludes, bins, TypeInv, TypeOK
  <2>2. active # NoJob /\ FinishTask(t, "done", FALSE, new)
    BY <1>2, RunningJob DEF PlanConcludes
  <2> QED BY <2>1, <2>2, FinishTaskTyped
<1>3. ASSUME NEW t \in Tasks, NEW new \in Batches, PlanMarker(t, new) PROVE TypeInv'
  <2>1. t \in Complex /\ BinOf[t] \in Bins
    BY <1>3, TaskManagerAssumption DEF PlanMarker
  <2>2. {BinOf[t]} \in SUBSET Things /\ available \in SUBSET Resources
    BY <2>1 DEF Things, TypeInv, TypeOK
  <2>3. /\ prioritized' \in SUBSET Things
        /\ blockedOn' \in [Bins -> Resources \cup {NoResource}]
    BY <1>3, <2>2, RelayTyped DEF PlanMarker, OwnOrRelay, TypeInv
  <2>4. binToMarker' \in SUBSET Bins /\ inProgressBins' \in SUBSET Bins
    BY <1>3, <2>1 DEF PlanMarker, TypeInv, TypeOK
  <2>5. active # NoJob /\ FinishTask(t, "covered", TRUE, new)
    BY <1>3, RunningJob DEF PlanMarker
  <2> QED BY <2>1, <2>3, <2>4, <2>5, FinishTaskTyped
<1>4. ASSUME NEW t \in Tasks, NEW new \in Batches, ExecuteSimple(t, new) PROVE TypeInv'
  <2>1. /\ prioritized' \in SUBSET Things
        /\ blockedOn' \in [Bins -> Resources \cup {NoResource}]
        /\ binToMarker' \in SUBSET Bins /\ inProgressBins' \in SUBSET Bins
    BY <1>4 DEF ExecuteSimple, bins, TypeInv, TypeOK
  <2>2. active # NoJob /\ FinishTask(t, "done", FALSE, new)
    BY <1>4, RunningJob DEF ExecuteSimple
  <2> QED BY <2>1, <2>2, FinishTaskTyped
<1>5. ASSUME NEW b \in Bins, NEW new \in Batches, ExecuteMarker(b, new) PROVE TypeInv'
  <2>1. /\ prioritized' \in SUBSET Things
        /\ blockedOn' \in [Bins -> Resources \cup {NoResource}]
        /\ binToMarker' \in SUBSET Bins /\ inProgressBins' \in SUBSET Bins
    BY <1>5 DEF ExecuteMarker, TypeInv, TypeOK
  <2>2. active # NoJob /\ FinishTask(b, "done", TRUE, new)
    BY <1>5, RunningJob DEF ExecuteMarker
  <2> QED BY <2>1, <2>2, FinishTaskTyped
<1>6. ASSUME NEW t \in Complex, PlanAbsorbed(t) PROVE TypeInv'
  <2>1. /\ prioritized' \in SUBSET Things
        /\ blockedOn' \in [Bins -> Resources \cup {NoResource}]
        /\ binToMarker' \in SUBSET Bins /\ inProgressBins' \in SUBSET Bins
    BY <1>6 DEF PlanAbsorbed, bins, TypeInv, TypeOK
  <2>2. active # NoJob /\ FinishTask(t, "covered", FALSE, {}) /\ t \in Tasks
    BY <1>6, RunningJob DEF PlanAbsorbed, Tasks
  <2> QED BY <2>1, <2>2, FinishTaskTyped
<1> QED BY <1>1, <1>2, <1>3, <1>4, <1>5, <1>6 DEF JobFinishes

\* A job that ends, on an extension q of the plan queue.
LEMMA JobEndsTyped ==
    ASSUME TypeInv, NEW q \in Seq(Tasks), NEW lock \in BOOLEAN, JobEnds(q, lock)
    PROVE  StuffTyped'
<1>1. prioritized \in SUBSET Things /\ timer \in BOOLEAN
  BY DEF TypeInv, TypeOK
<1> QED BY <1>1, DoStuffTyped DEF JobEnds, TypeInv

LEMMA JobFailsTyped == ASSUME TypeInv, JobFails PROVE TypeInv'
<1> USE DEF TypeInv
<1>1. tasksToPlan \in Seq(Tasks) /\ wakeLock \in BOOLEAN
  BY DEF TypeOK
<1>2. ASSUME NEW t \in Simple, PlanSimpleFails(t) PROVE TypeInv'
  <2>1. StuffTyped'
    BY <1>1, <1>2, JobEndsTyped DEF PlanSimpleFails
  <2>2. TxnsTyped'
    BY <1>2 DEF PlanSimpleFails, TxnsTyped, TypeOK, WritesCounted
  <2>3. used' \in [{"crash", "fail", "abort", "flip"} -> Nat]
    BY <1>2, SpendTyped DEF PlanSimpleFails, Failing
  <2>4. parked' \in SUBSET Tasks
    BY <1>2 DEF PlanSimpleFails, TypeOK, Tasks
  <2>5. RestTyped'
    BY <1>2, <2>3, <2>4 DEF PlanSimpleFails, RestTyped, TypeOK, disk
  <2> QED BY <2>1, <2>2, <2>5, TypePartsNext
<1>3. ASSUME NEW th \in Tasks \cup Bins, FailsafeFinalize(th) PROVE TypeInv'
  <2>1. StuffTyped'
    BY <1>1, <1>3, JobEndsTyped DEF FailsafeFinalize
  <2>2. Submit("failsafe", th, "dropped", FALSE, {}) /\ binToMarker' \in SUBSET Bins
        /\ {} \in SUBSET Tasks /\ FALSE \in BOOLEAN /\ "dropped" # "covered"
    BY <1>3 DEF FailsafeFinalize, TypeOK
  <2>3. TxnsTyped'
    <3>1. pendingPlanWrites' = pendingPlanWrites + (IF "failsafe" = "add" THEN 1 ELSE 0)
      BY <1>3 DEF FailsafeFinalize, TypeOK
    <3> QED BY <2>2, <3>1, TxnsSubmitted
  <2>4. used' \in [{"crash", "fail", "abort", "flip"} -> Nat]
    BY <1>3, SpendTyped DEF FailsafeFinalize, Failing
  <2>5. RestTyped'
    BY <1>3, <2>4 DEF FailsafeFinalize, RestTyped, TypeOK, disk
  <2> QED BY <2>1, <2>3, <2>5, TypePartsNext
<1> QED BY <1>2, <1>3 DEF JobFails

LEMMA ProcessTyped ==
    ASSUME TypeInv, Boot \/ LoadTasks \/ RestoreComplex \/ Crash PROVE TypeInv'
<1> USE DEF TypeInv
<1>1. CASE Boot
  <2>1. StuffTyped'
    BY <1>1 DEF Boot, StuffTyped, TypeOK, bins
  <2>2. TxnsTyped'
    BY <1>1 DEF Boot, TxnsTyped, TypeOK, WritesCounted
  <2>3. RestTyped'
    BY <1>1 DEF Boot, RestTyped, TypeOK, disk, bins, hist
  <2> QED BY <2>1, <2>2, <2>3, TypePartsNext
<1>2. CASE LoadTasks
  <2>1. tasksToPlan' \in Seq(Tasks)
    BY <1>2, OrderFacts DEF LoadTasks
  <2>2. {t \in Simple : diskTasks[t] = "planned"} \in SUBSET Things
    BY DEF Things
  <2>3. /\ prioritized' \in SUBSET Things
        /\ blockedOn' \in [Bins -> Resources \cup {NoResource}]
    BY <1>2, <2>2, RelayTyped DEF LoadTasks, OwnOrRelay, TypeOK
  <2>4. StuffTyped'
    BY <1>2, <2>1, <2>3 DEF LoadTasks, StuffTyped, TypeOK, bins
  <2>5. TxnsTyped'
    BY <1>2 DEF LoadTasks, TxnsTyped, TypeOK, WritesCounted
  <2>6. RestTyped'
    BY <1>2, <2>3 DEF LoadTasks, RestTyped, TypeOK, disk, bins, hist
  <2> QED BY <2>4, <2>5, <2>6, TypePartsNext
<1>3. CASE RestoreComplex
  <2>1. StoredMarkers \in SUBSET Things /\ StoredMarkers \in SUBSET Bins
    BY DEF StoredMarkers, TypeOK, Things
  <2>2. /\ Relayed(StoredMarkers, available) \in SUBSET Things
        /\ blockedOn' \in [Bins -> Resources \cup {NoResource}]
    BY <1>3, <2>1, RelayTyped DEF RestoreComplex, TypeOK
  <2>3. /\ tasksToPlan \in Seq(Tasks) /\ wakeLock \in BOOLEAN /\ timer \in BOOLEAN
        /\ DoStuff(tasksToPlan, Relayed(StoredMarkers, available), pendingPlanWrites,
                   wakeLock, timer)
    BY <1>3 DEF RestoreComplex, TypeOK
  <2>4. StuffTyped'
    BY <2>2, <2>3, DoStuffTyped
  <2>5. TxnsTyped'
    BY <1>3 DEF RestoreComplex, TxnsTyped, TypeOK, WritesCounted
  <2>6. RestTyped'
    BY <1>3, <2>1, <2>2 DEF RestoreComplex, RestTyped, TypeOK, disk, hist
  <2> QED BY <2>4, <2>5, <2>6, TypePartsNext
<1>4. CASE Crash
  <2>1. tasksToPlan' \in Seq(Tasks) /\ txns' = << >> /\ txns' \in Seq(Txn)
    BY <1>4 DEF Crash
  <2>2. /\ active' = NoJob /\ prioritized' = {} /\ inProgressBins' = {}
        /\ signal' = "none" /\ wakeLock' = FALSE /\ timer' = FALSE
    BY <1>4 DEF Crash
  <2>3. StuffTyped'
    BY <2>1, <2>2 DEF StuffTyped
  <2>4. Cardinality(Adds(txns')) = 0 /\ pendingPlanWrites' = 0
    <3>1. Adds(txns') = {}
      BY <2>1 DEF Adds
    <3> QED BY <1>4, <3>1, FS_EmptySet DEF Crash
  <2>5. TxnsTyped'
    BY <2>1, <2>4 DEF TxnsTyped, WritesCounted
  <2>6. used' \in [{"crash", "fail", "abort", "flip"} -> Nat]
    BY <1>4, SpendTyped DEF Crash
  <2>7. blockedOn' \in [Bins -> Resources \cup {NoResource}]
    BY <1>4 DEF Crash
  <2>8. RestTyped'
    BY <1>4, <2>6, <2>7 DEF Crash, RestTyped, TypeOK, disk
  <2> QED BY <2>3, <2>5, <2>8, TypePartsNext
<1> QED BY <1>1, <1>2, <1>3, <1>4

LEMMA ScheduleTyped == ASSUME TypeInv, NEW new \in Batches, Schedule(new) PROVE TypeInv'
<1> USE DEF TypeInv
<1>1. new \in SUBSET Tasks /\ binToMarker' \in SUBSET Bins /\ NoThing \in {NoThing}
      /\ FALSE \in BOOLEAN /\ "done" # "covered"
  BY BatchTyped DEF Schedule, TypeOK, bins
<1>2. TxnsTyped'
  <2>1. /\ Submit("add", NoThing, "done", FALSE, new)
        /\ pendingPlanWrites' = pendingPlanWrites + (IF "add" = "add" THEN 1 ELSE 0)
    BY DEF Schedule
  <2> QED BY <1>1, <2>1, TxnsSubmitted
<1>3. StuffTyped'
  BY DEF Schedule, StuffTyped, TypeOK, bins
<1>4. RestTyped'
  BY IssueTyped DEF Schedule, RestTyped, TypeOK, disk, bins
<1> QED BY <1>2, <1>3, <1>4, TypePartsNext

LEMMA ScheduleNonPersistentTyped ==
    ASSUME TypeInv, NEW t \in NonPersistent, ScheduleNonPersistent(t) PROVE TypeInv'
<1> USE DEF TypeInv
<1>1. t \in Tasks /\ Append(tasksToPlan, t) \in Seq(Tasks)
  BY TaskManagerAssumption DEF TypeOK, Tasks
<1>2. StuffTyped'
  <2>1. MaybeDoStuff(Append(tasksToPlan, t), prioritized, pendingPlanWrites, TRUE, timer)
    BY DEF ScheduleNonPersistent
  <2>2. prioritized \in SUBSET Things /\ timer \in BOOLEAN /\ TRUE \in BOOLEAN
    BY DEF TypeOK
  <2> QED BY <1>1, <2>1, <2>2, MaybeDoStuffTyped
<1>3. TxnsTyped'
  BY DEF ScheduleNonPersistent, TxnsTyped, TypeOK, WritesCounted
<1>4. RestTyped'
  BY IssueTyped DEF ScheduleNonPersistent, RestTyped, TypeOK, disk
<1> QED BY <1>2, <1>3, <1>4, TypePartsNext

LEMMA CommitsTyped ==
    ASSUME TypeInv, AddCommits \/ FinishCommits \/ FailsafeCommits PROVE TypeInv'
<1> USE DEF TypeInv
<1>1. txns # << >> /\ txns' = Tail(txns) /\ Apply(Head(txns))
  BY DEF AddCommits, FinishCommits, FailsafeCommits, NextTxn
<1>2. Head(txns) \in Txn
  BY <1>1, NextTxnTyped
<1>3. Head(txns).new \in SUBSET Tasks
  BY <1>2 DEF Txn
<1>4. ASSUME NEW order \in SetToSeqs(Head(txns).new)
      PROVE  tasksToPlan \o order \in Seq(Tasks)
  BY <1>3, OrderFacts DEF TypeOK
<1>5. /\ diskTasks' \in [Tasks -> {"absent", "raw", "planned"}]
      /\ diskBins' \in SUBSET Bins /\ fate' \in [Tasks -> Fates] /\ owed' \in SUBSET Bins
  BY <1>1, <1>2, ApplyTyped
<1>6. RestTyped'
  BY <1>5 DEF AddCommits, FinishCommits, FailsafeCommits, RestTyped, TypeOK, bins
<1>7. TxnsTyped'
  <2>1. \/ pendingPlanWrites' = pendingPlanWrites
        \/ Head(txns).kind = "add" /\ pendingPlanWrites' = pendingPlanWrites - 1
    BY DEF AddCommits, FinishCommits, FailsafeCommits, NextTxn
  <2> QED BY <1>1, <2>1, TxnsAnswered
<1>8. prioritized \in SUBSET Things /\ timer \in BOOLEAN /\ TRUE \in BOOLEAN
  BY DEF TypeOK
<1>9. CASE AddCommits
  <2>1. PICK order \in SetToSeqs(Head(txns).new) :
          MaybeDoStuff(tasksToPlan \o order, prioritized, pendingPlanWrites - 1, TRUE, timer)
    BY <1>9 DEF AddCommits
  <2>2. StuffTyped'
    BY <1>4, <1>8, <2>1, MaybeDoStuffTyped
  <2> QED BY <1>6, <1>7, <2>2, TypePartsNext
<1>10. CASE FinishCommits
  <2>1. PICK order \in SetToSeqs(Head(txns).new) :
          JobEnds(tasksToPlan \o order, wakeLock \/ Head(txns).new # {})
    BY <1>10 DEF FinishCommits
  <2>2. (wakeLock \/ Head(txns).new # {}) \in BOOLEAN
    OBVIOUS
  <2>3. StuffTyped'
    BY <1>4, <2>1, <2>2, JobEndsTyped
  <2> QED BY <1>6, <1>7, <2>3, TypePartsNext
<1>11. CASE FailsafeCommits
  <2>1. StuffTyped'
    BY <1>11 DEF FailsafeCommits, StuffTyped, TypeOK, bins
  <2> QED BY <1>6, <1>7, <2>1, TypePartsNext
<1> QED BY <1>9, <1>10, <1>11

LEMMA AbortsTyped ==
    ASSUME TypeInv, NEW announced \in BOOLEAN, Aborts(announced) PROVE TypeInv'
<1> USE DEF TypeInv
<1>1. TxnsTyped'
  <2>1. txns # << >> /\ txns' = Tail(txns) /\ pendingPlanWrites' = pendingPlanWrites
    BY DEF Aborts
  <2> QED BY <2>1, TxnsAnswered
<1>2. parked' \in SUBSET Tasks
  BY DEF Aborts, TypeOK
<1>3. used' \in [{"crash", "fail", "abort", "flip"} -> Nat]
  BY SpendTyped DEF Aborts
<1>4. RestTyped'
  BY <1>2, <1>3 DEF Aborts, RestTyped, TypeOK, disk
<1>5. CASE Head(txns).kind = "finish" /\ announced
  <2>1. JobEnds(tasksToPlan, wakeLock)
    BY <1>5 DEF Aborts
  <2>2. tasksToPlan \in Seq(Tasks) /\ wakeLock \in BOOLEAN
    BY DEF TypeOK
  <2>3. StuffTyped'
    BY <2>1, <2>2, JobEndsTyped
  <2> QED BY <1>1, <1>4, <2>3, TypePartsNext
<1>6. CASE ~(Head(txns).kind = "finish" /\ announced)
  <2>1. StuffTyped'
    BY <1>6 DEF Aborts, StuffTyped, TypeOK
  <2> QED BY <1>1, <1>4, <2>1, TypePartsNext
<1> QED BY <1>5, <1>6

LEMMA ResourcesTyped ==
    ASSUME TypeInv, NEW r \in Resources,
           ResourceAvailable(r) \/ ResourceNoLongerAvailable(r)
    PROVE  TypeInv'
<1> USE DEF TypeInv
<1>1. available' \in SUBSET Resources
  BY DEF ResourceAvailable, ResourceNoLongerAvailable, TypeOK
<1>2. PICK things \in SUBSET Bins :
        prioritized' = Relayed(things, available') /\ blockedOn' = Filed(things, available')
  <2>1. CASE ResourceAvailable(r)
    BY <2>1 DEF ResourceAvailable
  <2>2. CASE ResourceNoLongerAvailable(r)
    BY <2>2 DEF ResourceNoLongerAvailable
  <2> QED BY <2>1, <2>2
<1>3. things \in SUBSET Things
  BY DEF Things
<1>4. prioritized' \in SUBSET Things /\ blockedOn' \in [Bins -> Resources \cup {NoResource}]
  BY <1>1, <1>2, <1>3, RelayTyped
<1>5. used' \in [{"crash", "fail", "abort", "flip"} -> Nat]
  BY SpendTyped DEF ResourceAvailable, ResourceNoLongerAvailable
<1>6. StuffTyped'
  BY <1>4 DEF ResourceAvailable, ResourceNoLongerAvailable, StuffTyped, TypeOK, bins
<1>7. TxnsTyped'
  BY DEF ResourceAvailable, ResourceNoLongerAvailable, TxnsTyped, TypeOK, WritesCounted
<1>8. RestTyped'
  BY <1>1, <1>4, <1>5
     DEF ResourceAvailable, ResourceNoLongerAvailable, RestTyped, TypeOK, disk, bins, hist
<1> QED BY <1>6, <1>7, <1>8, TypePartsNext

LEMMA TimerTyped == ASSUME TypeInv, TimerFires PROVE TypeInv'
<1> USE DEF TypeInv
<1>1. /\ tasksToPlan \in Seq(Tasks) /\ prioritized \in SUBSET Things
      /\ wakeLock \in BOOLEAN /\ FALSE \in BOOLEAN
      /\ MaybeDoStuff(tasksToPlan, prioritized, pendingPlanWrites, wakeLock, FALSE)
  BY DEF TimerFires, TypeOK
<1>2. StuffTyped'
  BY <1>1, MaybeDoStuffTyped
<1>3. TxnsTyped'
  BY DEF TimerFires, TxnsTyped, TypeOK, WritesCounted
<1>4. RestTyped'
  BY DEF TimerFires, RestTyped, TypeOK, disk, hist
<1> QED BY <1>2, <1>3, <1>4, TypePartsNext

LEMMA TypeStep == TypeInv /\ [Next]_vars => TypeInv'
<1> SUFFICES ASSUME TypeInv, [Next]_vars PROVE TypeInv'
  OBVIOUS
<1>1. CASE UNCHANGED vars
  BY <1>1 DEF vars, disk, bins, hist, TypeInv, TypeOK, WritesCounted
<1>2. CASE Next
  BY <1>2, ProcessTyped, ScheduleTyped, ScheduleNonPersistentTyped, JobFinishesTyped,
     JobFailsTyped, CommitsTyped, AbortsTyped, ResourcesTyped, TimerTyped DEF Next
<1> QED BY <1>1, <1>2

\* Every variable keeps its type, whatever fails: in particular the counter of
\* plan writes in flight never goes below zero.
THEOREM TypeCorrect == Spec => []TypeOK
<1>1. TypeInv => TypeOK
  BY DEF TypeInv
<1> QED BY <1>1, TypeInit, TypeStep, PTL DEF Spec

-----------------------------------------------------------------------------
(* The queue of transactions. *)

Bringing(t, s) == \E i \in 1..Len(s) : t \in s[i].new
Ending(th, s) == \E i \in 1..Len(s) : s[i].thing = th
NoFinish(s) == \A i \in 1..Len(s) : s[i].kind # "finish"
OneFinish(s) ==
    \A i, j \in 1..Len(s) : s[i].kind = "finish" /\ s[j].kind = "finish" => i = j
BringOnce(s) == \A i, j \in 1..Len(s) : s[i].new \cap s[j].new # {} => i = j

\* What is left of these facts when the oldest transaction is answered.
LEMMA TxnsTail ==
    ASSUME NEW s \in Seq(Txn), s # << >>
    PROVE  /\ \A t : Bringing(t, s) <=> t \in Head(s).new \/ Bringing(t, Tail(s))
           /\ \A th : Ending(th, s) <=> Head(s).thing = th \/ Ending(th, Tail(s))
           /\ NoFinish(s) => NoFinish(Tail(s)) /\ Head(s).kind # "finish"
           /\ OneFinish(s) => /\ OneFinish(Tail(s))
                              /\ Head(s).kind = "finish" => NoFinish(Tail(s))
           /\ BringOnce(s) => /\ BringOnce(Tail(s))
                              /\ \A t \in Head(s).new : ~Bringing(t, Tail(s))
<1>1. /\ Len(s) \in Nat \ {0} /\ Len(Tail(s)) = Len(s) - 1 /\ Head(s) = s[1]
      /\ \A i \in 1..Len(Tail(s)) : Tail(s)[i] = s[i + 1]
  OBVIOUS
<1>2. \A i \in 1..Len(Tail(s)) : i + 1 \in 1..Len(s) /\ i + 1 # 1 /\ i \in Nat
  BY <1>1
<1>3. 1 \in 1..Len(s)
  BY <1>1
<1>4. ASSUME NEW i \in 1..Len(s), i # 1
      PROVE  i - 1 \in 1..Len(Tail(s)) /\ Tail(s)[i - 1] = s[i]
  BY <1>1, <1>4
<1>5. \A t : Bringing(t, s) <=> t \in Head(s).new \/ Bringing(t, Tail(s))
  BY <1>1, <1>2, <1>3, <1>4 DEF Bringing
<1>6. \A th : Ending(th, s) <=> Head(s).thing = th \/ Ending(th, Tail(s))
  BY <1>1, <1>2, <1>3, <1>4 DEF Ending
<1>7. NoFinish(s) => NoFinish(Tail(s)) /\ Head(s).kind # "finish"
  BY <1>1, <1>2, <1>3 DEF NoFinish
<1>8. OneFinish(s) => OneFinish(Tail(s)) /\ (Head(s).kind = "finish" => NoFinish(Tail(s)))
  <2> SUFFICES ASSUME OneFinish(s)
               PROVE  OneFinish(Tail(s)) /\ (Head(s).kind = "finish" => NoFinish(Tail(s)))
    OBVIOUS
  <2>1. ASSUME NEW i \in 1..Len(Tail(s)), NEW j \in 1..Len(Tail(s)),
               Tail(s)[i].kind = "finish", Tail(s)[j].kind = "finish"
        PROVE  i = j
    <3>1. s[i + 1].kind = "finish" /\ s[j + 1].kind = "finish"
      BY <1>1, <2>1
    <3>2. i + 1 = j + 1
      BY <1>2, <3>1 DEF OneFinish
    <3> QED BY <1>2, <3>2
  <2>2. Head(s).kind = "finish" => NoFinish(Tail(s))
    BY <1>1, <1>2, <1>3 DEF OneFinish, NoFinish
  <2> QED BY <2>1, <2>2 DEF OneFinish
<1>9. BringOnce(s) => BringOnce(Tail(s)) /\ \A t \in Head(s).new : ~Bringing(t, Tail(s))
  <2> SUFFICES ASSUME BringOnce(s)
               PROVE  BringOnce(Tail(s)) /\ \A t \in Head(s).new : ~Bringing(t, Tail(s))
    OBVIOUS
  <2>1. ASSUME NEW i \in 1..Len(Tail(s)), NEW j \in 1..Len(Tail(s)),
               Tail(s)[i].new \cap Tail(s)[j].new # {}
        PROVE  i = j
    <3>1. s[i + 1].new \cap s[j + 1].new # {}
      BY <1>1, <2>1
    <3>2. i + 1 = j + 1
      BY <1>2, <3>1 DEF BringOnce
    <3> QED BY <1>2, <3>2
  <2>2. \A t \in Head(s).new : ~Bringing(t, Tail(s))
    BY <1>1, <1>2, <1>3 DEF BringOnce, Bringing
  <2> QED BY <2>1, <2>2 DEF BringOnce
<1> QED BY <1>5, <1>6, <1>7, <1>8, <1>9

\* What becomes of them when a transaction is submitted.
LEMMA TxnsAppend ==
    ASSUME NEW s \in Seq(Txn), NEW x \in Txn
    PROVE  /\ \A t : Bringing(t, Append(s, x)) <=> Bringing(t, s) \/ t \in x.new
           /\ \A th : Ending(th, Append(s, x)) <=> Ending(th, s) \/ x.thing = th
           /\ NoFinish(s) /\ x.kind # "finish" => NoFinish(Append(s, x))
           /\ OneFinish(s) /\ (NoFinish(s) \/ x.kind # "finish") => OneFinish(Append(s, x))
           /\ BringOnce(s) /\ (\A t \in x.new : ~Bringing(t, s)) => BringOnce(Append(s, x))
<1>1. /\ Len(s) \in Nat /\ Len(Append(s, x)) = Len(s) + 1
      /\ Append(s, x)[Len(s) + 1] = x
      /\ \A i \in 1..Len(s) : Append(s, x)[i] = s[i]
  OBVIOUS
<1>2. \A i : i \in 1..(Len(s) + 1) <=> i \in 1..Len(s) \/ i = Len(s) + 1
  BY <1>1
<1>3. \A t : Bringing(t, Append(s, x)) <=> Bringing(t, s) \/ t \in x.new
  BY <1>1, <1>2 DEF Bringing
<1>4. \A th : Ending(th, Append(s, x)) <=> Ending(th, s) \/ x.thing = th
  BY <1>1, <1>2 DEF Ending
<1>5. NoFinish(s) /\ x.kind # "finish" => NoFinish(Append(s, x))
  BY <1>1, <1>2 DEF NoFinish
<1>6. OneFinish(s) /\ (NoFinish(s) \/ x.kind # "finish") => OneFinish(Append(s, x))
  BY <1>1, <1>2 DEF OneFinish, NoFinish
<1>7. BringOnce(s) /\ (\A t \in x.new : ~Bringing(t, s)) => BringOnce(Append(s, x))
  BY <1>1, <1>2 DEF BringOnce, Bringing
<1> QED BY <1>3, <1>4, <1>5, <1>6, <1>7

-----------------------------------------------------------------------------
(* What _maybeDoStuff and ownOrRelayTaskThing do to tasks and markers. *)

\* The next job was taken from the plan queue q or from the things ready, and
\* is no longer there; nothing was added to either.
Dispatched(q, ready) ==
    /\ Distinct(tasksToPlan')
    /\ \A x : Seen(x, tasksToPlan') => Seen(x, q)
    /\ prioritized' \subseteq ready
    /\ \/ active' = NoJob
       \/ /\ active' # NoJob /\ active'.mode = "plan" /\ active'.stage = "run"
          /\ Seen(active'.thing, q) /\ ~Seen(active'.thing, tasksToPlan')
       \/ /\ active' # NoJob /\ active'.mode = "exec" /\ active'.stage = "run"
          /\ active'.thing \in ready /\ active'.thing \notin prioritized'

LEMMA StuffDispatched ==
    ASSUME NEW q \in Seq(Tasks), Distinct(q), NEW ready \in SUBSET Things, NEW pending,
           NEW lock, NEW again, DoStuff(q, ready, pending, lock, again)
    PROVE  Dispatched(q, ready)
<1>1. CASE PlanNext(q, ready, lock, again)
  <2>1. q # << >> /\ tasksToPlan' = Tail(q) /\ prioritized' = ready
        /\ active' = [mode |-> "plan", thing |-> Head(q), stage |-> "run"]
    BY <1>1 DEF PlanNext
  <2>2. Running("plan", Head(q))' /\ Head(q) \in Tasks
    BY <2>1 DEF Running
  <2>3. active' \in Job /\ active' # NoJob
    <3>1. [mode |-> "plan", thing |-> Head(q), stage |-> "run"] \in Job
      BY <2>2 DEF Job
    <3> QED BY <2>1, <3>1, TaskManagerAssumption
  <2>4. Distinct(tasksToPlan') /\ ~Seen(Head(q), tasksToPlan')
    BY <2>1, DistinctTail
  <2>5. \A x : Seen(x, q) <=> x = Head(q) \/ Seen(x, tasksToPlan')
    BY <2>1, SeenTail
  <2> QED BY <2>1, <2>3, <2>4, <2>5 DEF Dispatched
<1>2. CASE PlanMoot(q, ready, lock, again)
  <2>1. q # << >> /\ tasksToPlan' = Tail(q) /\ prioritized' = ready /\ active' = NoJob
    BY <1>2 DEF PlanMoot
  <2>2. Distinct(tasksToPlan')
    BY <2>1, DistinctTail
  <2>3. \A x : Seen(x, q) <=> x = Head(q) \/ Seen(x, tasksToPlan')
    BY <2>1, SeenTail
  <2> QED BY <2>1, <2>2, <2>3 DEF Dispatched
<1>3. CASE ExecuteNext(q, ready, lock, again)
  <2>1. PICK th \in ready :
          /\ active' = [mode |-> "exec", thing |-> th, stage |-> "run"]
          /\ prioritized' = ready \ {th}
    BY <1>3 DEF ExecuteNext
  <2>2. active' # NoJob
    <3>1. [mode |-> "exec", thing |-> th, stage |-> "run"] \in Job
      BY DEF Job, Things, Tasks
    <3> QED BY <2>1, <3>1, TaskManagerAssumption
  <2>3. tasksToPlan' = q
    BY <1>3 DEF ExecuteNext
  <2> QED BY <2>1, <2>2, <2>3 DEF Dispatched
<1>4. CASE NothingToDo(q, ready, pending, again)
  BY <1>4 DEF NothingToDo, Dispatched
<1> QED BY <1>1, <1>2, <1>3, <1>4 DEF DoStuff

\* A marker is missing a resource exactly when it lacks one.
LEMMA MissingFacts ==
    ASSUME NEW b \in Bins, NEW avail
    PROVE  /\ Missing(b, avail) = NoResource <=> Needs[b] \subseteq avail
           /\ Missing(b, avail) # NoResource => Missing(b, avail) \in Needs[b] \ avail
<1>1. Needs[b] \subseteq Resources
  BY TaskManagerAssumption
<1>2. CASE Needs[b] \subseteq avail
  BY <1>2 DEF Missing
<1>3. CASE ~(Needs[b] \subseteq avail)
  <2>1. (CHOOSE r \in Needs[b] \ avail : TRUE) \in Needs[b] \ avail
    BY <1>3
  <2> QED BY <1>1, <1>3, <2>1, TaskManagerAssumption DEF Missing
<1> QED BY <1>2, <1>3

\* Of the given things the simple ones and the ready ones are relayed, and the
\* others taken off; nothing changes for the rest.
LEMMA RelayedFacts ==
    ASSUME NEW things, NEW avail
    PROVE  /\ \A th \in things : th \notin Bins => th \in Relayed(things, avail)
           /\ \A b \in Bins : b \in things /\ b \in Relayed(things, avail) =>
                Needs[b] \subseteq avail
           /\ \A th : th \notin things =>
                (th \in Relayed(things, avail) <=> th \in prioritized)
BY MissingFacts DEF Relayed, Ready

\* Those that are not ready are filed under a resource they lack.
LEMMA FiledFacts ==
    ASSUME NEW things, NEW avail
    PROVE  /\ \A b \in Bins : b \in things /\ b \in Relayed(things, avail) =>
                Filed(things, avail)[b] = NoResource
           /\ \A b \in Bins : b \in things /\ Filed(things, avail)[b] # NoResource =>
                Filed(things, avail)[b] \in Needs[b] \ avail
           /\ \A b \in Bins : b \notin things => Filed(things, avail)[b] = blockedOn[b]
<1>1. \A b \in Bins :
        Filed(things, avail)[b] = IF b \in things THEN Missing(b, avail) ELSE blockedOn[b]
  BY DEF Filed
<1>2. \A b \in Bins : b \in things /\ b \in Relayed(things, avail) =>
        Missing(b, avail) = NoResource
  BY DEF Relayed, Ready
<1> QED BY <1>1, <1>2, MissingFacts

-----------------------------------------------------------------------------
(* The inductive invariant. *)

\* A job runs only once the boot is over, and nothing is known of the tasks
\* before loadTasks answers.
Asleep ==
    /\ active # NoJob => phase = "up"
    /\ phase \in {"off", "loading"} =>
        /\ txns = << >> /\ tasksToPlan = << >> /\ prioritized = {}
        /\ \A b \in Bins : blockedOn[b] = NoResource

\* At most one job waits for its transaction, and no task is brought twice.
InFlight ==
    /\ OneFinish(txns) /\ BringOnce(txns)
    /\ NoFinish(txns) \/ (active # NoJob /\ active.stage = "commit")

Planning(t) == Working(t) /\ active.mode = "plan" /\ active.stage = "run"

\* The places where one task may be.
Home(t) ==
    /\ fate[t] = "unborn" => ~Bringing(t, txns) /\ diskTasks[t] = "absent"
    /\ fate[t] = "unborn" \/ Bringing(t, txns) =>
        /\ ~Seen(t, tasksToPlan) /\ t \notin prioritized
        /\ ~Working(t) /\ ~Ending(t, txns)
    /\ Ending(t, txns) => ~Seen(t, tasksToPlan) /\ ~Planning(t)
    /\ Seen(t, tasksToPlan) => t \notin prioritized /\ ~Working(t)
    /\ t \notin NonPersistent /\ (Seen(t, tasksToPlan) \/ Planning(t)) =>
        diskTasks[t] = "raw"
    /\ diskTasks[t] # "planned"

\* No thing is both ready and blocked, or waits while it is executed.
Apart ==
    /\ \A b \in Bins : b \in prioritized => blockedOn[b] = NoResource
    /\ \A th \in Things : Executing(th) =>
        th \notin prioritized /\ (th \in Bins => blockedOn[th] = NoResource)

Sorted ==
    \A b \in Bins :
        /\ b \in prioritized => Needs[b] \subseteq available
        /\ blockedOn[b] # NoResource => blockedOn[b] \in Needs[b] \ available

Homes == \A t \in Tasks : Home(t)

IInv ==
    /\ TypeInv /\ Asleep /\ InFlight
    /\ Distinct(tasksToPlan) /\ Homes /\ Apart /\ Sorted

LEMMA IInvImplies == IInv => OneHome /\ QueueIsDurable /\ SortedByNeed
<1> SUFFICES ASSUME IInv PROVE OneHome /\ QueueIsDurable /\ SortedByNeed
  OBVIOUS
<1>1. \A t : Queued(t) <=> Seen(t, tasksToPlan)
  BY DEF Queued, Seen
<1>2. Tasks \cap Bins = {} /\ Tasks = Simple \cup Complex /\ Things = Simple \cup Bins
  BY TaskManagerAssumption DEF Tasks, Things
<1>3. blocked = {b \in Bins : blockedOn[b] # NoResource}
  BY DEF blocked
<1>4. OneHome
  <2>1. \A i, j \in 1..Len(tasksToPlan) : tasksToPlan[i] = tasksToPlan[j] => i = j
    BY DEF IInv, Distinct
  <2>2. prioritized \cap blocked = {}
    BY <1>3 DEF IInv, Apart
  <2>3. \A t \in Tasks : Queued(t) => t \notin prioritized \cup blocked /\ ~Working(t)
    BY <1>1, <1>2, <1>3 DEF IInv, Homes, Home
  <2>4. \A th \in Things : Executing(th) => th \notin prioritized \cup blocked
    BY <1>3 DEF IInv, Apart
  <2> QED BY <2>1, <2>2, <2>3, <2>4 DEF OneHome
<1>5. QueueIsDurable
  BY <1>1 DEF QueueIsDurable, Persistent, IInv, Homes, Home, Planning
<1>6. SortedByNeed
  BY <1>3 DEF SortedByNeed, IInv, Sorted
<1> QED BY <1>4, <1>5, <1>6

LEMMA IInvInit == Init => IInv
<1> SUFFICES ASSUME Init PROVE IInv
  OBVIOUS
<1>1. TypeInv
  BY TypeInit
<1>2. \A t : ~Seen(t, tasksToPlan) /\ ~Bringing(t, txns) /\ ~Ending(t, txns)
  BY DEF Init, Seen, Bringing, Ending
<1>3. \A b \in Bins : blockedOn[b] = NoResource
  BY DEF Init
<1>4. Asleep
  BY <1>3 DEF Init, Asleep
<1>5. InFlight /\ Distinct(tasksToPlan)
  BY DEF Init, InFlight, OneFinish, BringOnce, NoFinish, Distinct
<1>6. Homes
  BY <1>2 DEF Init, Homes, Home, Working, Planning
<1>7. Apart /\ Sorted
  BY <1>3 DEF Init, Apart, Sorted, Executing, Working
<1> QED BY <1>1, <1>4, <1>5, <1>6, <1>7 DEF IInv

-----------------------------------------------------------------------------
(* Steps that look for the next thing to do. *)

\* _maybeDoStuff either dispatched or found a promise active.
Kept(q, ready) == active' = active /\ tasksToPlan' = q /\ prioritized' = ready

LEMMA MaybeDispatched ==
    ASSUME NEW q \in Seq(Tasks), Distinct(q), NEW ready \in SUBSET Things, NEW pending,
           NEW lock, NEW again, MaybeDoStuff(q, ready, pending, lock, again)
    PROVE  \/ Busy /\ Kept(q, ready)
           \/ ~Busy /\ Dispatched(q, ready)
<1>1. CASE Busy
  BY <1>1 DEF MaybeDoStuff, Kept
<1>2. CASE ~Busy
  <2>1. DoStuff(q, ready, pending, lock, again)
    BY <1>2 DEF MaybeDoStuff
  <2> QED BY <1>2, <2>1, StuffDispatched
<1> QED BY <1>1, <1>2

\* Every task has one home after a step that extends the plan queue by the
\* tasks fresh, to q, and takes the next job from q or from ready.
LEMMA HomesMove ==
    ASSUME IInv, NEW q \in Seq(Tasks), NEW ready \in SUBSET Things, NEW fresh \in SUBSET Tasks,
           Dispatched(q, ready) \/ Kept(q, ready),
           \A x : Seen(x, q) => Seen(x, tasksToPlan) \/ x \in fresh,
           ready \cap Tasks \subseteq prioritized,
           \A t \in fresh :
             /\ ~Seen(t, tasksToPlan) /\ t \notin prioritized
             /\ ~Working(t) /\ ~Ending(t, txns) /\ ~Bringing(t, txns')
             /\ fate'[t] # "unborn" /\ (t \in NonPersistent \/ diskTasks'[t] = "raw"),
           \A t \in Tasks :
             /\ fate'[t] = "unborn" => fate[t] = "unborn" /\ diskTasks'[t] = diskTasks[t]
             /\ Bringing(t, txns') => Bringing(t, txns)
             /\ Ending(t, txns') => Ending(t, txns) \/ (Working(t) /\ Dispatched(q, ready))
             /\ diskTasks'[t] = diskTasks[t] \/ t \in fresh \/ Ending(t, txns)
             /\ diskTasks'[t] # "planned"
    PROVE  Homes'
<1> SUFFICES ASSUME NEW t \in Tasks PROVE Home(t)'
  BY DEF Homes
<1>1. Home(t)
  BY DEF IInv, Homes
<1>2. Seen(t, tasksToPlan') => Seen(t, q) /\ (Seen(t, tasksToPlan) \/ t \in fresh)
  BY DEF Dispatched, Kept
<1>3. t \in prioritized' => t \in prioritized
  BY DEF Dispatched, Kept
<1>4. CASE Dispatched(q, ready)
  <2>1. Working(t)' =>
          \/ Planning(t)' /\ Seen(t, q) /\ ~Seen(t, tasksToPlan')
          \/ t \in ready /\ t \notin prioritized' /\ ~Planning(t)'
    BY <1>4 DEF Dispatched, Working, Planning
  <2>2. Planning(t)' => Working(t)'
    BY DEF Planning
  <2> QED BY <1>1, <1>2, <1>3, <1>4, <2>1, <2>2 DEF Home
<1>5. CASE Kept(q, ready) /\ ~Dispatched(q, ready)
  <2>1. (Working(t)' <=> Working(t)) /\ (Planning(t)' <=> Planning(t))
    BY <1>5 DEF Kept, Working, Planning
  <2>2. Planning(t) => Working(t)
    BY DEF Planning
  <2> QED BY <1>1, <1>2, <1>3, <1>5, <2>1, <2>2 DEF Home
<1> QED BY <1>4, <1>5

\* Nothing ready is blocked, so neither is what was taken.
LEMMA ApartMove ==
    ASSUME NEW q, NEW ready \in SUBSET Things, Dispatched(q, ready),
           \A b \in Bins : b \in ready => blockedOn'[b] = NoResource
    PROVE  Apart'
BY DEF Dispatched, Apart, Executing, Working

LEMMA SortedMove ==
    ASSUME \A b \in Bins :
             /\ b \in prioritized' => Needs[b] \subseteq available'
             /\ blockedOn'[b] # NoResource => blockedOn'[b] \in Needs[b] \ available'
    PROVE  Sorted'
BY DEF Sorted

\* Dispatch on the heap as it is, with resources and blocked things unchanged.
LEMMA SameThings ==
    ASSUME IInv, NEW q, Dispatched(q, prioritized) \/ Kept(q, prioritized),
           UNCHANGED <<blockedOn, available>>
    PROVE  Apart' /\ Sorted'
<1>1. prioritized' \subseteq prioritized
  BY DEF Dispatched, Kept
<1>2. Sorted'
  BY <1>1 DEF IInv, Sorted
<1>3. CASE Dispatched(q, prioritized)
  <2>1. \A b \in Bins : b \in prioritized => blockedOn'[b] = NoResource
    BY DEF IInv, Apart
  <2>2. prioritized \in SUBSET Things
    BY DEF IInv, TypeInv, TypeOK
  <2> QED BY <1>2, <1>3, <2>1, <2>2, ApartMove
<1>4. CASE Kept(q, prioritized)
  BY <1>2, <1>4 DEF Kept, IInv, Apart, Executing, Working
<1> QED BY <1>3, <1>4

\* After a dispatch outside of boot, nothing is asleep.
LEMMA AsleepMove ==
    ASSUME phase' = "up" PROVE Asleep'
BY DEF Asleep

\* The queue that results from appending an order of a fresh batch.
LEMMA QueueGrows ==
    ASSUME TypeInv, Distinct(tasksToPlan), NEW new \in SUBSET Tasks,
           NEW order \in SetToSeqs(new), \A t \in new : ~Seen(t, tasksToPlan)
    PROVE  /\ tasksToPlan \o order \in Seq(Tasks)
           /\ Distinct(tasksToPlan \o order)
           /\ \A x : Seen(x, tasksToPlan \o order) => Seen(x, tasksToPlan) \/ x \in new
<1>1. tasksToPlan \in Seq(Tasks)
  BY DEF TypeInv, TypeOK
<1>2. /\ order \in Seq(Tasks) /\ Distinct(order)
      /\ \A x : Seen(x, order) => x \in new
  BY OrderFacts
<1>3. \A x : Seen(x, tasksToPlan \o order) <=> Seen(x, tasksToPlan) \/ Seen(x, order)
  BY <1>1, <1>2, SeenConcat
<1>4. Distinct(tasksToPlan \o order)
  BY <1>1, <1>2, DistinctConcat
<1> QED BY <1>1, <1>2, <1>3, <1>4

\* Things filed or relayed again end up apart and sorted, if the others are.
LEMMA RelaySorted ==
    ASSUME IInv, NEW things, NEW avail,
           \A b \in Bins : b \notin things =>
             /\ b \in prioritized => Needs[b] \subseteq avail
             /\ blockedOn[b] # NoResource => blockedOn[b] \in Needs[b] \ avail
    PROVE  \A b \in Bins :
             /\ b \in Relayed(things, avail) =>
                  Needs[b] \subseteq avail /\ Filed(things, avail)[b] = NoResource
             /\ Filed(things, avail)[b] # NoResource =>
                  Filed(things, avail)[b] \in Needs[b] \ avail
<1>1. \A b \in Bins : b \in prioritized => blockedOn[b] = NoResource
  BY DEF IInv, Apart
<1> QED BY <1>1, RelayedFacts, FiledFacts

-----------------------------------------------------------------------------
(* Boot, restore and crash. *)

Placed == Asleep /\ InFlight /\ Distinct(tasksToPlan) /\ Homes /\ Apart /\ Sorted

\* The home of a task depends on nothing else.
LEMMA HomesKept ==
    ASSUME Homes, UNCHANGED <<fate, diskTasks, txns, tasksToPlan, prioritized, active>>
    PROVE  Homes'
BY DEF Homes, Home, Working, Planning

LEMMA InFlightKept ==
    ASSUME InFlight, UNCHANGED <<txns, active>> PROVE InFlight'
BY DEF InFlight

LEMMA BootPlaced == ASSUME IInv, Boot PROVE Placed'
<1>1. /\ txns = << >> /\ tasksToPlan = << >> /\ prioritized = {} /\ active = NoJob
      /\ \A b \in Bins : blockedOn[b] = NoResource
  BY DEF IInv, Asleep, Boot
<1>2. UNCHANGED <<fate, diskTasks, txns, tasksToPlan, prioritized, active, blockedOn>>
  BY DEF Boot, disk, hist
<1>3. Asleep' /\ Apart' /\ Sorted'
  BY <1>1, <1>2 DEF Asleep, Apart, Sorted, Executing, Working
<1>4. InFlight' /\ Homes'
  BY <1>2, InFlightKept, HomesKept DEF IInv
<1>5. Distinct(tasksToPlan)'
  BY <1>2 DEF IInv
<1> QED BY <1>3, <1>4, <1>5 DEF Placed

LEMMA CrashPlaced == ASSUME IInv, Crash PROVE Placed'
<1>1. /\ txns' = << >> /\ tasksToPlan' = << >> /\ prioritized' = {} /\ active' = NoJob
      /\ \A b \in Bins : blockedOn'[b] = NoResource
      /\ fate' = fate /\ diskTasks' = diskTasks
  BY DEF Crash, disk
<1>2. \A t : ~Seen(t, tasksToPlan') /\ ~Bringing(t, txns') /\ ~Ending(t, txns')
  BY <1>1 DEF Seen, Bringing, Ending
<1>3. Asleep' /\ Apart' /\ Sorted'
  BY <1>1 DEF Asleep, Apart, Sorted, Executing, Working
<1>4. InFlight' /\ Distinct(tasksToPlan)'
  BY <1>1 DEF InFlight, OneFinish, BringOnce, NoFinish, Distinct
<1>5. Homes'
  <2> SUFFICES ASSUME NEW t \in Tasks PROVE Home(t)'
    BY DEF Homes
  <2>1. Home(t)
    BY DEF IInv, Homes
  <2>2. ~Working(t)' /\ ~Planning(t)'
    BY <1>1 DEF Working, Planning
  <2> QED BY <1>1, <1>2, <2>1, <2>2 DEF Home
<1> QED BY <1>3, <1>4, <1>5 DEF Placed

\* Before loadTasks answers there is nothing but the disk, and no simple task
\* is planned on disk: the plan queue is all that is restored.
LEMMA LoadTasksPlaced == ASSUME IInv, LoadTasks PROVE Placed'
<1>1. /\ txns = << >> /\ tasksToPlan = << >> /\ prioritized = {} /\ active = NoJob
      /\ \A b \in Bins : blockedOn[b] = NoResource
  BY DEF IInv, Asleep, LoadTasks
<1>2. UNCHANGED <<fate, diskTasks, txns, active, available>>
  BY DEF LoadTasks, disk, hist
<1> DEFINE R == {t \in Tasks : diskTasks[t] = "raw"}
<1>3. \A t \in Simple : diskTasks[t] # "planned"
  BY DEF IInv, Homes, Home, Tasks
<1>4. OwnOrRelay({})
  <2>1. {t \in Simple : diskTasks[t] = "planned"} = {}
    BY <1>3
  <2>2. OwnOrRelay({t \in Simple : diskTasks[t] = "planned"})
    BY DEF LoadTasks
  <2> QED BY <2>1, <2>2, Zenon
<1>5. prioritized' = {} /\ \A b \in Bins : blockedOn'[b] = NoResource
  BY <1>1, <1>4 DEF OwnOrRelay, Relayed, Filed
<1>6. R \in SUBSET Tasks /\ tasksToPlan' \in SetToSeqs(R)
  BY DEF LoadTasks
<1>7. Distinct(tasksToPlan') /\ \A x : Seen(x, tasksToPlan') => x \in R
  BY <1>6, OrderFacts
<1>8. Asleep' /\ Apart' /\ Sorted'
  BY <1>1, <1>2, <1>5 DEF Asleep, Apart, Sorted, Executing, Working, LoadTasks
<1>9. InFlight'
  BY <1>2, InFlightKept DEF IInv
<1>10. Homes'
  <2> SUFFICES ASSUME NEW t \in Tasks PROVE Home(t)'
    BY DEF Homes
  <2>1. Home(t)
    BY DEF IInv, Homes
  <2>2. ~Working(t)' /\ ~Planning(t)'
    BY <1>1, <1>2 DEF Working, Planning
  <2>3. ~Bringing(t, txns') /\ ~Ending(t, txns')
    BY <1>1, <1>2 DEF Bringing, Ending
  <2>4. Seen(t, tasksToPlan') => diskTasks'[t] = "raw" /\ fate'[t] # "unborn"
    BY <1>2, <1>7, <2>1 DEF Home
  <2> QED BY <1>2, <1>5, <2>1, <2>2, <2>3, <2>4 DEF Home
<1> QED BY <1>7, <1>8, <1>9, <1>10 DEF Placed

\* The stored markers come back, sorted, and the manager takes its first job.
LEMMA RestoreComplexPlaced == ASSUME IInv, RestoreComplex PROVE Placed'
<1> DEFINE ready == Relayed(StoredMarkers, available)
           filed == Filed(StoredMarkers, available)
<1>1. /\ phase' = "up" /\ active = NoJob
      /\ UNCHANGED <<fate, diskTasks, txns, available>>
      /\ blockedOn' = filed
      /\ DoStuff(tasksToPlan, ready, pendingPlanWrites, wakeLock, timer)
  BY DEF IInv, Asleep, RestoreComplex, disk, hist
<1>2. /\ StoredMarkers \in SUBSET Things /\ available \in SUBSET Resources
      /\ StoredMarkers \subseteq Bins /\ tasksToPlan \in Seq(Tasks) /\ TypeOK
  BY DEF IInv, TypeInv, TypeOK, StoredMarkers, Things
<1>3. ready \in SUBSET Things
  BY <1>2, RelayTyped
<1>4. Distinct(tasksToPlan)
  BY DEF IInv
<1>5. Dispatched(tasksToPlan, ready)
  BY <1>1, <1>2, <1>3, <1>4, StuffDispatched
<1>6. \A b \in Bins : b \notin StoredMarkers =>
        /\ b \in prioritized => Needs[b] \subseteq available
        /\ blockedOn[b] # NoResource => blockedOn[b] \in Needs[b] \ available
  BY DEF IInv, Sorted
<1>7. \A b \in Bins :
        /\ b \in ready => Needs[b] \subseteq available /\ filed[b] = NoResource
        /\ filed[b] # NoResource => filed[b] \in Needs[b] \ available
  BY <1>2, <1>6, RelaySorted
<1>8. Apart'
  BY <1>1, <1>3, <1>5, <1>7, ApartMove
<1>9. Sorted'
  BY <1>1, <1>5, <1>7, SortedMove DEF Dispatched
<1>10. Homes'
  <2>1. ready \cap Tasks \subseteq prioritized
    <3>1. Tasks \cap Bins = {}
      BY TaskManagerAssumption
    <3> QED BY <1>2, <3>1 DEF Relayed
  <2>2. \A t \in Tasks : diskTasks[t] # "planned"
    BY DEF IInv, Homes, Home
  <2>3. {} \in SUBSET Tasks
    OBVIOUS
  <2> HIDE DEF ready
  <2> QED BY <1>1, <1>2, <1>3, <1>5, <2>1, <2>2, <2>3, HomesMove
<1>11. InFlight'
  <2>1. NoFinish(txns)
    BY <1>1 DEF IInv, InFlight
  <2> QED BY <1>1, <2>1 DEF IInv, InFlight
<1>12. Distinct(tasksToPlan')
  BY <1>5 DEF Dispatched
<1> QED BY <1>1, <1>8, <1>9, <1>10, <1>11, <1>12, AsleepMove DEF Placed

-----------------------------------------------------------------------------
(* Scheduling, and the jobs that finish. *)

\* What a submitted transaction adds to the queue of transactions.
LEMMA Submitted ==
    ASSUME TypeInv, NEW kind \in {"add", "finish", "failsafe"},
           NEW thing \in Tasks \cup Bins \cup {NoThing},
           NEW result \in {"planned", "covered", "done", "dropped"},
           NEW saves \in BOOLEAN, NEW new \in SUBSET Tasks,
           result = "covered" => thing \in Complex,
           binToMarker' \in SUBSET Bins,
           Submit(kind, thing, result, saves, new)
    PROVE  /\ \A t : Bringing(t, txns') <=> Bringing(t, txns) \/ t \in new
           /\ \A th : Ending(th, txns') <=> Ending(th, txns) \/ thing = th
           /\ NoFinish(txns) /\ kind # "finish" => NoFinish(txns')
           /\ OneFinish(txns) /\ (NoFinish(txns) \/ kind # "finish") => OneFinish(txns')
           /\ BringOnce(txns) /\ (\A t \in new : ~Bringing(t, txns)) => BringOnce(txns')
<1> DEFINE x == [kind |-> kind, thing |-> thing, result |-> result, saves |-> saves,
                 new |-> new, bins |-> IF saves THEN binToMarker' ELSE {}]
<1>1. x \in Txn
  BY DEF Txn
<1>2. txns' = Append(txns, x)
  BY DEF Submit
<1>3. txns \in Seq(Txn)
  BY DEF TypeInv, TypeOK
<1>4. x.kind = kind /\ x.thing = thing /\ x.new = new
  OBVIOUS
<1> HIDE DEF x
<1>5. /\ \A t : Bringing(t, Append(txns, x)) <=> Bringing(t, txns) \/ t \in x.new
      /\ \A th : Ending(th, Append(txns, x)) <=> Ending(th, txns) \/ x.thing = th
      /\ NoFinish(txns) /\ x.kind # "finish" => NoFinish(Append(txns, x))
      /\ OneFinish(txns) /\ (NoFinish(txns) \/ x.kind # "finish") =>
            OneFinish(Append(txns, x))
      /\ BringOnce(txns) /\ (\A t \in x.new : ~Bringing(t, txns)) =>
            BringOnce(Append(txns, x))
  BY <1>1, <1>3, TxnsAppend
<1> QED BY <1>2, <1>4, <1>5

\* The tasks of a batch are nowhere yet.
LEMMA BatchUnborn ==
    ASSUME IInv, NEW new \in Batches
    PROVE  \A t \in new :
             /\ t \in Tasks /\ fate[t] = "unborn" /\ diskTasks[t] = "absent"
             /\ ~Seen(t, tasksToPlan) /\ t \notin prioritized
             /\ ~Working(t) /\ ~Ending(t, txns) /\ ~Bringing(t, txns)
BY DEF IInv, Homes, Home, Batches

LEMMA SchedulePlaced ==
    ASSUME IInv, NEW new \in Batches, Schedule(new) PROVE Placed'
<1>1. /\ UNCHANGED <<diskTasks, tasksToPlan, prioritized, active, phase, blockedOn, available>>
      /\ Issue(new) /\ Submit("add", NoThing, "done", FALSE, new)
      /\ binToMarker' = binToMarker /\ phase \in {"restoring", "up"}
  BY DEF Schedule, disk, bins, Accepting
<1>2. new \in SUBSET Tasks /\ binToMarker' \in SUBSET Bins /\ TypeInv
  BY <1>1, BatchTyped DEF IInv, TypeInv, TypeOK
<1>3. /\ "add" \in {"add", "finish", "failsafe"} /\ "add" # "finish"
      /\ "done" \in {"planned", "covered", "done", "dropped"} /\ "done" # "covered"
      /\ FALSE \in BOOLEAN /\ NoThing \in Tasks \cup Bins \cup {NoThing}
  OBVIOUS
<1>4. /\ \A t : Bringing(t, txns') <=> Bringing(t, txns) \/ t \in new
      /\ \A th : Ending(th, txns') <=> Ending(th, txns) \/ NoThing = th
      /\ NoFinish(txns) => NoFinish(txns')
      /\ OneFinish(txns) => OneFinish(txns')
      /\ BringOnce(txns) /\ (\A t \in new : ~Bringing(t, txns)) => BringOnce(txns')
  BY <1>1, <1>2, <1>3, Submitted
<1>5. InFlight'
  BY <1>1, <1>4, BatchUnborn DEF IInv, InFlight
<1>6. Asleep' /\ Apart' /\ Sorted'
  BY <1>1 DEF IInv, Asleep, Apart, Sorted, Executing, Working
<1>7. Homes'
  <2> SUFFICES ASSUME NEW t \in Tasks PROVE Home(t)'
    BY DEF Homes
  <2>1. Home(t)
    BY DEF IInv, Homes
  <2>2. (Working(t)' <=> Working(t)) /\ (Planning(t)' <=> Planning(t))
    BY <1>1 DEF Working, Planning
  <2>3. fate'[t] = IF t \in new THEN "issued" ELSE fate[t]
    BY <1>1 DEF Issue
  <2>4. t # NoThing
    BY TaskManagerAssumption
  <2>5. t \in new => /\ diskTasks[t] = "absent" /\ ~Seen(t, tasksToPlan)
                     /\ t \notin prioritized /\ ~Working(t) /\ ~Ending(t, txns)
    BY BatchUnborn
  <2>6. Planning(t) => Working(t)
    BY DEF Planning
  <2> QED BY <1>1, <1>4, <2>1, <2>2, <2>3, <2>4, <2>5, <2>6 DEF Home
<1>8. Distinct(tasksToPlan')
  BY <1>1 DEF IInv
<1> QED BY <1>5, <1>6, <1>7, <1>8 DEF Placed

\* A job calls finishTask.  Its thing may be among those made ready.
LEMMA FinishPlaced ==
    ASSUME IInv, NEW mode \in {"plan", "exec"}, NEW th \in Tasks \cup Bins, Running(mode, th),
           NEW result \in {"planned", "covered", "done"}, NEW saves \in BOOLEAN, NEW new,
           result = "covered" => th \in Complex,
           FinishTask(th, result, saves, new),
           binToMarker' \in SUBSET Bins,
           \A t \in Tasks : t \in prioritized' => t \in prioritized \/ t = th,
           Apart', Sorted'
    PROVE  Placed'
<1>1. /\ active \in Job /\ active # NoJob
      /\ active.mode = mode /\ active.thing = th /\ active.stage = "run"
  BY RunningJob
<1>2. /\ UNCHANGED <<diskTasks, tasksToPlan, phase, available>>
      /\ new \in Batches /\ Issue(new) /\ Submit("finish", th, result, saves, new)
      /\ active' = [active EXCEPT !.stage = "commit"]
  BY DEF FinishTask, disk
<1>3. active' \in Job /\ active' # NoJob /\ active'.stage = "commit" /\ active'.thing = th
  <2>1. [active EXCEPT !.stage = "commit"] \in Job
    BY <1>1 DEF Job
  <2>2. active'.stage = "commit" /\ active'.thing = th
    BY <1>1, <1>2 DEF Job
  <2> QED BY <1>2, <2>1, <2>2, TaskManagerAssumption
<1>4. new \in SUBSET Tasks /\ TypeInv
  BY <1>2, BatchTyped DEF IInv
<1>5. /\ "finish" \in {"add", "finish", "failsafe"}
      /\ result \in {"planned", "covered", "done", "dropped"}
      /\ th \in Tasks \cup Bins \cup {NoThing}
  OBVIOUS
<1>6. /\ \A t : Bringing(t, txns') <=> Bringing(t, txns) \/ t \in new
      /\ \A x : Ending(x, txns') <=> Ending(x, txns) \/ th = x
      /\ OneFinish(txns) /\ NoFinish(txns) => OneFinish(txns')
      /\ BringOnce(txns) /\ (\A t \in new : ~Bringing(t, txns)) => BringOnce(txns')
  BY <1>2, <1>4, <1>5, Submitted
<1>7. NoFinish(txns) /\ OneFinish(txns) /\ BringOnce(txns) /\ phase = "up"
  BY <1>1 DEF IInv, InFlight, Asleep
<1>8. InFlight'
  BY <1>2, <1>3, <1>6, <1>7, BatchUnborn DEF InFlight
<1>9. Asleep'
  BY <1>2, <1>7 DEF Asleep
<1>10. Homes'
  <2> SUFFICES ASSUME NEW t \in Tasks PROVE Home(t)'
    BY DEF Homes
  <2>1. Home(t)
    BY DEF IInv, Homes
  <2>2. (Working(t) <=> t = th) /\ (Working(t)' <=> t = th) /\ ~Planning(t)'
    BY <1>1, <1>3 DEF Working, Planning
  <2>3. fate'[t] = IF t \in new THEN "issued" ELSE fate[t]
    BY <1>2 DEF Issue
  <2>4. t \in new => /\ diskTasks[t] = "absent" /\ ~Seen(t, tasksToPlan)
                     /\ t \notin prioritized /\ ~Working(t) /\ ~Ending(t, txns)
    BY <1>2, BatchUnborn
  <2>5. t \in prioritized' => t \in prioritized \/ t = th
    OBVIOUS
  <2> QED BY <1>2, <1>6, <2>1, <2>2, <2>3, <2>4, <2>5 DEF Home
<1>11. Distinct(tasksToPlan')
  BY <1>2 DEF IInv
<1> QED BY <1>8, <1>9, <1>10, <1>11 DEF Placed

\* A job that finishes without queueing anything for execution.
LEMMA QuietFinish ==
    ASSUME IInv, NEW mode \in {"plan", "exec"}, NEW th \in Tasks \cup Bins, Running(mode, th),
           active' = [active EXCEPT !.stage = "commit"],
           UNCHANGED <<prioritized, blockedOn, available>>
    PROVE  Apart' /\ Sorted'
<1>1. active \in Job /\ active # NoJob
  BY RunningJob
<1>2. active'.mode = active.mode /\ active'.thing = active.thing
  BY <1>1 DEF Job
<1> QED BY <1>1, <1>2 DEF IInv, Apart, Sorted, Executing, Working

\* A plan that has a thing filed or relayed.
LEMMA PlanRelays ==
    ASSUME IInv, NEW t \in Tasks, Running("plan", t), NEW th \in Things,
           active' = [active EXCEPT !.stage = "commit"],
           OwnOrRelay({th}), available' = available
    PROVE  Apart' /\ Sorted'
<1>1. active \in Job /\ active.mode = "plan"
  <2>1. "plan" \in {"plan", "exec"} /\ t \in Tasks \cup Bins
    OBVIOUS
  <2> QED BY <2>1, RunningJob
<1>2. active'.mode = "plan"
  BY <1>1 DEF Job
<1>3. \A b \in Bins : b \notin {th} =>
        /\ b \in prioritized => Needs[b] \subseteq available
        /\ blockedOn[b] # NoResource => blockedOn[b] \in Needs[b] \ available
  BY DEF IInv, Sorted
<1>4. \A b \in Bins :
        /\ b \in Relayed({th}, available) =>
             Needs[b] \subseteq available /\ Filed({th}, available)[b] = NoResource
        /\ Filed({th}, available)[b] # NoResource =>
             Filed({th}, available)[b] \in Needs[b] \ available
  BY <1>3, RelaySorted
<1>5. prioritized' = Relayed({th}, available) /\ blockedOn' = Filed({th}, available)
  BY DEF OwnOrRelay
<1>6. Sorted'
  BY <1>4, <1>5 DEF Sorted
<1>7. Apart'
  BY <1>2, <1>4, <1>5 DEF Apart, Executing
<1> QED BY <1>6, <1>7

LEMMA JobFinishesPlaced == ASSUME IInv, JobFinishes PROVE Placed'
<1>1. "plan" \in {"plan", "exec"} /\ "exec" \in {"plan", "exec"}
      /\ FALSE \in BOOLEAN /\ TRUE \in BOOLEAN
  OBVIOUS
<1>2. /\ "planned" \in {"planned", "covered", "done"} /\ "planned" # "covered"
      /\ "done" \in {"planned", "covered", "done"} /\ "done" # "covered"
      /\ "covered" \in {"planned", "covered", "done"}
  OBVIOUS
<1>3. binToMarker \in SUBSET Bins /\ Tasks \cap Bins = {}
  BY TaskManagerAssumption DEF IInv, TypeInv, TypeOK
<1>4. ASSUME NEW t \in Tasks, NEW new \in Batches, PlanSimple(t, new) PROVE Placed'
  <2>1. /\ Running("plan", t) /\ t \in Simple /\ OwnOrRelay({t})
        /\ binToMarker' \in SUBSET Bins /\ FinishTask(t, "planned", FALSE, new)
    BY <1>3, <1>4 DEF PlanSimple, bins
  <2>2. /\ active' = [active EXCEPT !.stage = "commit"] /\ available' = available
        /\ t \in Things
    BY <2>1 DEF FinishTask, Things
  <2>3. Apart' /\ Sorted'
    BY <2>1, <2>2, PlanRelays
  <2>4. \A u \in Tasks : u \in prioritized' => u \in prioritized \/ u = t
    BY <2>1 DEF OwnOrRelay, Relayed
  <2> QED BY <1>1, <1>2, <2>1, <2>3, <2>4, FinishPlaced
<1>5. ASSUME NEW t \in Tasks, NEW new \in Batches, PlanConcludes(t, new) PROVE Placed'
  <2>1. /\ Running("plan", t) /\ UNCHANGED <<prioritized, blockedOn>>
        /\ binToMarker' \in SUBSET Bins /\ FinishTask(t, "done", FALSE, new)
    BY <1>3, <1>5 DEF PlanConcludes, bins
  <2>2. active' = [active EXCEPT !.stage = "commit"] /\ available' = available
    BY <2>1 DEF FinishTask
  <2>3. Apart' /\ Sorted'
    BY <1>1, <2>1, <2>2, QuietFinish
  <2> QED BY <1>1, <1>2, <2>1, <2>3, FinishPlaced
<1>6. ASSUME NEW t \in Tasks, NEW new \in Batches, PlanMarker(t, new) PROVE Placed'
  <2>1. t \in Complex /\ BinOf[t] \in Bins /\ BinOf[t] \in Things
    BY <1>6, TaskManagerAssumption DEF PlanMarker, Things
  <2>2. /\ Running("plan", t) /\ OwnOrRelay({BinOf[t]})
        /\ binToMarker' \in SUBSET Bins /\ FinishTask(t, "covered", TRUE, new)
    BY <1>3, <1>6, <2>1 DEF PlanMarker
  <2>3. active' = [active EXCEPT !.stage = "commit"] /\ available' = available
    BY <2>2 DEF FinishTask
  <2>4. Apart' /\ Sorted'
    BY <2>1, <2>2, <2>3, PlanRelays
  <2>5. \A u \in Tasks : u \in prioritized' => u \in prioritized
    BY <1>3, <2>1, <2>2 DEF OwnOrRelay, Relayed
  <2> QED BY <1>1, <1>2, <2>1, <2>2, <2>4, <2>5, FinishPlaced
<1>7. ASSUME NEW t \in Tasks, NEW new \in Batches, ExecuteSimple(t, new) PROVE Placed'
  <2>1. /\ Running("exec", t) /\ UNCHANGED <<prioritized, blockedOn>>
        /\ binToMarker' \in SUBSET Bins /\ FinishTask(t, "done", FALSE, new)
    BY <1>3, <1>7 DEF ExecuteSimple, bins
  <2>2. active' = [active EXCEPT !.stage = "commit"] /\ available' = available
    BY <2>1 DEF FinishTask
  <2>3. Apart' /\ Sorted'
    BY <1>1, <2>1, <2>2, QuietFinish
  <2> QED BY <1>1, <1>2, <2>1, <2>3, FinishPlaced
<1>8. ASSUME NEW b \in Bins, NEW new \in Batches, ExecuteMarker(b, new) PROVE Placed'
  <2>1. /\ Running("exec", b) /\ UNCHANGED <<prioritized, blockedOn>>
        /\ binToMarker' \in SUBSET Bins /\ FinishTask(b, "done", TRUE, new)
    BY <1>3, <1>8 DEF ExecuteMarker
  <2>2. active' = [active EXCEPT !.stage = "commit"] /\ available' = available
    BY <2>1 DEF FinishTask
  <2>3. Apart' /\ Sorted'
    BY <1>1, <2>1, <2>2, QuietFinish
  <2> QED BY <1>1, <1>2, <2>1, <2>3, FinishPlaced
<1>9. ASSUME NEW t \in Complex, PlanAbsorbed(t) PROVE Placed'
  <2>1. /\ Running("plan", t) /\ UNCHANGED <<prioritized, blockedOn>>
        /\ binToMarker' \in SUBSET Bins /\ FinishTask(t, "covered", FALSE, {})
        /\ t \in Tasks
    BY <1>3, <1>9 DEF PlanAbsorbed, bins, Tasks
  <2>2. active' = [active EXCEPT !.stage = "commit"] /\ available' = available
    BY <2>1 DEF FinishTask
  <2>3. Apart' /\ Sorted'
    BY <1>1, <2>1, <2>2, QuietFinish
  <2> QED BY <1>1, <1>2, <2>1, <2>3, FinishPlaced
<1> QED BY <1>4, <1>5, <1>6, <1>7, <1>8, <1>9 DEF JobFinishes

-----------------------------------------------------------------------------
(* Steps that dispatch: a job ends, the database answers, a timer fires. *)

\* A job that ends on an extension q of the plan queue.
LEMMA JobEndsPlaced ==
    ASSUME IInv, NEW q \in Seq(Tasks), Distinct(q), NEW lock, JobEnds(q, lock)
    PROVE  Dispatched(q, prioritized)
<1>1. prioritized \in SUBSET Things
  BY DEF IInv, TypeInv, TypeOK
<1> QED BY <1>1, StuffDispatched DEF JobEnds

\* Every job that runs has not asked to be finished.
LEMMA RunningHasNoFinish ==
    ASSUME IInv, NEW mode \in {"plan", "exec"}, NEW th \in Tasks \cup Bins, Running(mode, th)
    PROVE  /\ NoFinish(txns) /\ phase = "up" /\ active # NoJob
           /\ \A t : Working(t) <=> t = th
<1>1. /\ active # NoJob /\ active.thing = th /\ active.stage = "run"
  BY RunningJob
<1> QED BY <1>1 DEF IInv, InFlight, Asleep, Working

LEMMA PlanSimpleFailsPlaced ==
    ASSUME IInv, NEW t \in Simple, PlanSimpleFails(t) PROVE Placed'
<1>1. /\ UNCHANGED <<diskTasks, fate, txns, phase, blockedOn, available>>
      /\ JobEnds(tasksToPlan, wakeLock) /\ Running("plan", t) /\ t \in Tasks
  BY DEF PlanSimpleFails, disk, Tasks
<1>2. tasksToPlan \in Seq(Tasks) /\ Distinct(tasksToPlan) /\ prioritized \in SUBSET Things
  BY DEF IInv, TypeInv, TypeOK
<1>3. Dispatched(tasksToPlan, prioritized)
  BY <1>1, <1>2, JobEndsPlaced
<1>4. NoFinish(txns) /\ phase = "up"
  <2>1. "plan" \in {"plan", "exec"} /\ t \in Tasks \cup Bins
    BY <1>1
  <2> QED BY <1>1, <2>1, RunningHasNoFinish
<1>5. Apart' /\ Sorted'
  BY <1>1, <1>3, SameThings
<1>6. InFlight'
  BY <1>1, <1>4 DEF IInv, InFlight
<1>7. Homes'
  <2>1. \A u \in Tasks : diskTasks[u] # "planned"
    BY DEF IInv, Homes, Home
  <2>2. {} \in SUBSET Tasks /\ prioritized \cap Tasks \subseteq prioritized
    OBVIOUS
  <2> QED BY <1>1, <1>2, <1>3, <2>1, <2>2, HomesMove
<1>8. Distinct(tasksToPlan') /\ Asleep'
  BY <1>1, <1>3, <1>4, AsleepMove DEF Dispatched
<1> QED BY <1>5, <1>6, <1>7, <1>8 DEF Placed

LEMMA FailsafeFinalizePlaced ==
    ASSUME IInv, NEW th \in Tasks \cup Bins, FailsafeFinalize(th) PROVE Placed'
<1>1. /\ UNCHANGED <<diskTasks, fate, phase, blockedOn, available, binToMarker>>
      /\ JobEnds(tasksToPlan, wakeLock) /\ Submit("failsafe", th, "dropped", FALSE, {})
  BY DEF FailsafeFinalize, disk
<1>2. /\ tasksToPlan \in Seq(Tasks) /\ Distinct(tasksToPlan) /\ prioritized \in SUBSET Things
      /\ binToMarker' \in SUBSET Bins /\ TypeInv
  BY <1>1 DEF IInv, TypeInv, TypeOK
<1>3. Dispatched(tasksToPlan, prioritized)
  BY <1>1, <1>2, JobEndsPlaced
<1>4. NoFinish(txns) /\ phase = "up" /\ \A t : Working(t) <=> t = th
  <2>1. "plan" \in {"plan", "exec"} /\ "exec" \in {"plan", "exec"}
    OBVIOUS
  <2>2. CASE Running("plan", th)
    BY <2>1, <2>2, RunningHasNoFinish
  <2>3. CASE Running("exec", th)
    BY <2>1, <2>3, RunningHasNoFinish
  <2> QED BY <2>2, <2>3 DEF FailsafeFinalize
<1>5. /\ "failsafe" \in {"add", "finish", "failsafe"} /\ "failsafe" # "finish"
      /\ "dropped" \in {"planned", "covered", "done", "dropped"} /\ "dropped" # "covered"
      /\ FALSE \in BOOLEAN /\ th \in Tasks \cup Bins \cup {NoThing} /\ {} \in SUBSET Tasks
  OBVIOUS
<1>6. /\ \A t : Bringing(t, txns') <=> Bringing(t, txns) \/ t \in {}
      /\ \A x : Ending(x, txns') <=> Ending(x, txns) \/ th = x
      /\ NoFinish(txns) => NoFinish(txns')
      /\ OneFinish(txns) => OneFinish(txns')
      /\ BringOnce(txns) /\ (\A t \in {} : ~Bringing(t, txns)) => BringOnce(txns')
  BY <1>1, <1>2, <1>5, Submitted
<1>7. Apart' /\ Sorted'
  BY <1>1, <1>3, SameThings
<1>8. InFlight'
  BY <1>1, <1>4, <1>6 DEF IInv, InFlight
<1>9. Homes'
  <2>1. \A u \in Tasks : diskTasks[u] # "planned"
    BY DEF IInv, Homes, Home
  <2>2. {} \in SUBSET Tasks /\ prioritized \cap Tasks \subseteq prioritized
    OBVIOUS
  <2>3. \A u \in Tasks : /\ Bringing(u, txns') => Bringing(u, txns)
                         /\ Ending(u, txns') => Ending(u, txns) \/ Working(u)
    BY <1>4, <1>6
  <2> QED BY <1>1, <1>2, <1>3, <2>1, <2>2, <2>3, HomesMove
<1>10. Distinct(tasksToPlan') /\ Asleep'
  BY <1>1, <1>3, <1>4, AsleepMove DEF Dispatched
<1> QED BY <1>7, <1>8, <1>9, <1>10 DEF Placed

\* The tasks that the oldest transaction brings are nowhere else.
LEMMA Arriving ==
    ASSUME IInv, txns # << >>, txns' = Tail(txns)
    PROVE  /\ Head(txns) \in Txn /\ Head(txns).new \in SUBSET Tasks
           /\ \A t \in Head(txns).new :
                /\ ~Seen(t, tasksToPlan) /\ t \notin prioritized
                /\ ~Working(t) /\ ~Ending(t, txns) /\ ~Bringing(t, txns')
           /\ \A t \in Tasks : /\ Bringing(t, txns') => Bringing(t, txns)
                               /\ Ending(t, txns') => Ending(t, txns)
           /\ \A t \in Tasks : t = Head(txns).thing => Ending(t, txns)
           /\ OneFinish(txns') /\ BringOnce(txns')
           /\ NoFinish(txns) => NoFinish(txns')
           /\ Head(txns).kind = "finish" => NoFinish(txns') /\ ~NoFinish(txns)
           /\ phase \in {"restoring", "up"}
<1>1. txns \in Seq(Txn) /\ Head(txns) \in Txn
  BY DEF IInv, TypeInv, TypeOK
<1>2. Head(txns).new \in SUBSET Tasks
  BY <1>1 DEF Txn
<1>3. OneFinish(txns) /\ BringOnce(txns)
  BY DEF IInv, InFlight
<1>4. /\ \A t : Bringing(t, txns) <=> t \in Head(txns).new \/ Bringing(t, txns')
      /\ \A th : Ending(th, txns) <=> Head(txns).thing = th \/ Ending(th, txns')
      /\ NoFinish(txns) => NoFinish(txns') /\ Head(txns).kind # "finish"
      /\ OneFinish(txns')
      /\ Head(txns).kind = "finish" => NoFinish(txns')
      /\ BringOnce(txns')
      /\ \A t \in Head(txns).new : ~Bringing(t, txns')
  BY <1>1, <1>3, TxnsTail
<1>5. phase \in {"restoring", "up"}
  BY DEF IInv, Asleep, TypeInv, TypeOK
<1>6. \A t \in Head(txns).new :
        /\ ~Seen(t, tasksToPlan) /\ t \notin prioritized
        /\ ~Working(t) /\ ~Ending(t, txns)
  BY <1>2, <1>4 DEF IInv, Homes, Home
<1> QED BY <1>1, <1>2, <1>4, <1>5, <1>6

\* What the records of a committed transaction mean for the tasks.
LEMMA Applied ==
    ASSUME IInv, NEW x \in Txn, Apply(x)
    PROVE  /\ \A t \in Tasks : t \in x.new =>
                fate'[t] # "unborn" /\ diskTasks'[t] = "raw"
           /\ \A t \in Tasks :
                /\ fate'[t] = "unborn" => fate[t] = "unborn" /\ diskTasks'[t] = diskTasks[t]
                /\ diskTasks'[t] = diskTasks[t] \/ t \in x.new \/ t = x.thing
                /\ diskTasks'[t] # "planned"
<1>1. x.result \in {"planned", "covered", "done", "dropped"}
  BY DEF Txn
<1>2. \A t \in Tasks : diskTasks[t] # "planned"
  BY DEF IInv, Homes, Home
<1> QED BY <1>1, <1>2 DEF Apply

\* Every task keeps one home when the oldest transaction commits, and the tasks
\* it brings may have been added to the plan queue.
LEMMA CommitHomes ==
    ASSUME IInv, txns # << >>, txns' = Tail(txns), Apply(Head(txns)),
           NEW q \in Seq(Tasks), Dispatched(q, prioritized) \/ Kept(q, prioritized),
           \A x : Seen(x, q) => Seen(x, tasksToPlan) \/ x \in Head(txns).new
    PROVE  Homes'
<1> DEFINE fresh == Head(txns).new
<1>1. /\ Head(txns) \in Txn /\ fresh \in SUBSET Tasks
      /\ \A t \in fresh :
           /\ ~Seen(t, tasksToPlan) /\ t \notin prioritized
           /\ ~Working(t) /\ ~Ending(t, txns) /\ ~Bringing(t, txns')
      /\ \A t \in Tasks : /\ Bringing(t, txns') => Bringing(t, txns)
                          /\ Ending(t, txns') => Ending(t, txns)
      /\ \A t \in Tasks : t = Head(txns).thing => Ending(t, txns)
  BY Arriving
<1>2. /\ \A t \in Tasks : t \in fresh => fate'[t] # "unborn" /\ diskTasks'[t] = "raw"
      /\ \A t \in Tasks :
           /\ fate'[t] = "unborn" => fate[t] = "unborn" /\ diskTasks'[t] = diskTasks[t]
           /\ diskTasks'[t] = diskTasks[t] \/ t \in fresh \/ t = Head(txns).thing
           /\ diskTasks'[t] # "planned"
  BY <1>1, Applied
<1>3. prioritized \in SUBSET Things /\ prioritized \cap Tasks \subseteq prioritized
  BY DEF IInv, TypeInv, TypeOK
<1>4. \A x : Seen(x, q) => Seen(x, tasksToPlan) \/ x \in fresh
  OBVIOUS
<1>5. \A t \in fresh :
        /\ ~Seen(t, tasksToPlan) /\ t \notin prioritized
        /\ ~Working(t) /\ ~Ending(t, txns) /\ ~Bringing(t, txns')
        /\ fate'[t] # "unborn" /\ (t \in NonPersistent \/ diskTasks'[t] = "raw")
  BY <1>1, <1>2
<1>6. \A t \in Tasks :
        /\ fate'[t] = "unborn" => fate[t] = "unborn" /\ diskTasks'[t] = diskTasks[t]
        /\ Bringing(t, txns') => Bringing(t, txns)
        /\ Ending(t, txns') => Ending(t, txns) \/ (Working(t) /\ Dispatched(q, prioritized))
        /\ diskTasks'[t] = diskTasks[t] \/ t \in fresh \/ Ending(t, txns)
        /\ diskTasks'[t] # "planned"
  BY <1>1, <1>2
<1> HIDE DEF fresh
<1> QED BY ZenonT(60), <1>1, <1>3, <1>4, <1>5, <1>6, HomesMove

\* A step that finds no promise active, or leaves the active one alone.
LEMMA ProcessMoves ==
    ASSUME IInv, phase' = phase, phase \in {"restoring", "up"}, NEW q, NEW ready,
           \/ Busy /\ Kept(q, ready)
           \/ ~Busy /\ Dispatched(q, ready)
    PROVE  /\ Asleep'
           /\ active # NoJob /\ active.stage = "commit" =>
                active' # NoJob /\ active'.stage = "commit"
BY DEF IInv, Asleep, Busy, Kept

LEMMA AddCommitsPlaced == ASSUME IInv, AddCommits PROVE Placed'
<1>1. /\ txns # << >> /\ txns' = Tail(txns) /\ Apply(Head(txns))
      /\ UNCHANGED <<phase, blockedOn, available>>
  BY DEF AddCommits, NextTxn
<1>2. PICK order \in SetToSeqs(Head(txns).new) :
        MaybeDoStuff(tasksToPlan \o order, prioritized, pendingPlanWrites - 1, TRUE, timer)
  BY DEF AddCommits
<1> DEFINE q == tasksToPlan \o order
<1>3. /\ Head(txns).new \in SUBSET Tasks /\ phase \in {"restoring", "up"}
      /\ \A t \in Head(txns).new : ~Seen(t, tasksToPlan)
      /\ OneFinish(txns') /\ BringOnce(txns') /\ (NoFinish(txns) => NoFinish(txns'))
  BY <1>1, Arriving
<1>4. TypeInv /\ Distinct(tasksToPlan) /\ prioritized \in SUBSET Things
  BY DEF IInv, TypeInv, TypeOK
<1>5. /\ q \in Seq(Tasks) /\ Distinct(q)
      /\ \A x : Seen(x, q) => Seen(x, tasksToPlan) \/ x \in Head(txns).new
  BY <1>3, <1>4, QueueGrows
<1>6. MaybeDoStuff(q, prioritized, pendingPlanWrites - 1, TRUE, timer)
  BY <1>2
<1> HIDE DEF q
<1>7. \/ Busy /\ Kept(q, prioritized)
      \/ ~Busy /\ Dispatched(q, prioritized)
  BY <1>4, <1>5, <1>6, MaybeDispatched
<1>8. Homes'
  BY <1>1, <1>5, <1>7, CommitHomes
<1>9. Apart' /\ Sorted'
  BY <1>1, <1>7, SameThings
<1>10. Asleep' /\ (active # NoJob /\ active.stage = "commit" =>
                     active' # NoJob /\ active'.stage = "commit")
  BY <1>1, <1>3, <1>7, ProcessMoves
<1>11. InFlight'
  BY <1>3, <1>10 DEF IInv, InFlight
<1>12. Distinct(tasksToPlan')
  BY <1>5, <1>7 DEF Kept, Dispatched
<1> QED BY <1>8, <1>9, <1>10, <1>11, <1>12 DEF Placed

LEMMA FinishCommitsPlaced == ASSUME IInv, FinishCommits PROVE Placed'
<1>1. /\ txns # << >> /\ txns' = Tail(txns) /\ Apply(Head(txns))
      /\ Head(txns).kind = "finish" /\ UNCHANGED <<phase, blockedOn, available>>
  BY DEF FinishCommits, NextTxn
<1>2. PICK order \in SetToSeqs(Head(txns).new) :
        JobEnds(tasksToPlan \o order, wakeLock \/ Head(txns).new # {})
  BY DEF FinishCommits
<1> DEFINE q == tasksToPlan \o order
<1>3. /\ Head(txns).new \in SUBSET Tasks
      /\ \A t \in Head(txns).new : ~Seen(t, tasksToPlan)
      /\ OneFinish(txns') /\ BringOnce(txns') /\ NoFinish(txns') /\ ~NoFinish(txns)
  BY <1>1, Arriving
<1>4. TypeInv /\ Distinct(tasksToPlan)
  BY DEF IInv
<1>5. /\ q \in Seq(Tasks) /\ Distinct(q)
      /\ \A x : Seen(x, q) => Seen(x, tasksToPlan) \/ x \in Head(txns).new
  BY <1>3, <1>4, QueueGrows
<1>6. JobEnds(q, wakeLock \/ Head(txns).new # {})
  BY <1>2
<1> HIDE DEF q
<1>7. Dispatched(q, prioritized)
  BY <1>5, <1>6, JobEndsPlaced
<1>8. Homes'
  BY <1>1, <1>5, <1>7, CommitHomes
<1>9. Apart' /\ Sorted'
  BY <1>1, <1>7, SameThings
<1>10. phase' = "up"
  BY <1>1, <1>3 DEF IInv, InFlight, Asleep
<1>11. Asleep' /\ InFlight'
  BY <1>3, <1>10, AsleepMove DEF InFlight
<1>12. Distinct(tasksToPlan')
  BY <1>7 DEF Dispatched
<1> QED BY <1>8, <1>9, <1>11, <1>12 DEF Placed

LEMMA FailsafeCommitsPlaced == ASSUME IInv, FailsafeCommits PROVE Placed'
<1>1. /\ txns # << >> /\ txns' = Tail(txns) /\ Apply(Head(txns))
      /\ UNCHANGED <<phase, blockedOn, available, tasksToPlan, active, prioritized>>
  BY DEF FailsafeCommits, NextTxn
<1>2. /\ phase \in {"restoring", "up"}
      /\ OneFinish(txns') /\ BringOnce(txns') /\ (NoFinish(txns) => NoFinish(txns'))
  BY <1>1, Arriving
<1>3. Kept(tasksToPlan, prioritized) /\ tasksToPlan \in Seq(Tasks) /\ Distinct(tasksToPlan')
  BY <1>1 DEF Kept, IInv, TypeInv, TypeOK
<1>4. Homes'
  BY <1>1, <1>3, CommitHomes
<1>5. Apart' /\ Sorted'
  BY <1>1, <1>3, SameThings
<1>6. Asleep' /\ InFlight'
  BY <1>1, <1>2 DEF IInv, Asleep, InFlight
<1> QED BY <1>3, <1>4, <1>5, <1>6 DEF Placed

\* The tasks of a transaction that aborts were never stored, and are lost; a
\* job that waited for it ends, or waits for good.
LEMMA AbortsPlaced ==
    ASSUME IInv, NEW announced \in BOOLEAN, Aborts(announced) PROVE Placed'
<1>1. /\ txns # << >> /\ txns' = Tail(txns)
      /\ UNCHANGED <<diskTasks, fate, phase, blockedOn, available>>
  BY DEF Aborts, disk
<1>2. /\ \A t \in Tasks : /\ Bringing(t, txns') => Bringing(t, txns)
                          /\ Ending(t, txns') => Ending(t, txns)
      /\ OneFinish(txns') /\ BringOnce(txns') /\ (NoFinish(txns) => NoFinish(txns'))
      /\ Head(txns).kind = "finish" => NoFinish(txns') /\ ~NoFinish(txns)
      /\ phase \in {"restoring", "up"}
  BY <1>1, Arriving
<1>3. /\ tasksToPlan \in Seq(Tasks) /\ Distinct(tasksToPlan)
      /\ prioritized \in SUBSET Things /\ prioritized \cap Tasks \subseteq prioritized
      /\ {} \in SUBSET Tasks /\ \A t \in Tasks : diskTasks[t] # "planned"
  BY DEF IInv, TypeInv, TypeOK, Homes, Home
<1>4. CASE Head(txns).kind = "finish" /\ announced
  <2>1. JobEnds(tasksToPlan, wakeLock)
    BY <1>4 DEF Aborts
  <2>2. Dispatched(tasksToPlan, prioritized)
    BY <1>3, <2>1, JobEndsPlaced
  <2>3. Homes'
    BY <1>1, <1>2, <1>3, <2>2, HomesMove
  <2>4. Apart' /\ Sorted'
    BY <1>1, <2>2, SameThings
  <2>5. phase' = "up" /\ NoFinish(txns')
    BY <1>1, <1>2, <1>4 DEF IInv, InFlight, Asleep
  <2>6. Asleep' /\ InFlight'
    BY <1>2, <2>5, AsleepMove DEF InFlight
  <2> QED BY <2>2, <2>3, <2>4, <2>6 DEF Placed, Dispatched
<1>5. CASE ~(Head(txns).kind = "finish" /\ announced)
  <2>1. UNCHANGED <<tasksToPlan, active, prioritized>>
    BY <1>5 DEF Aborts
  <2>2. Kept(tasksToPlan, prioritized)
    BY <2>1 DEF Kept
  <2>3. Homes'
    BY <1>1, <1>2, <1>3, <2>2, HomesMove
  <2>4. Apart' /\ Sorted'
    BY <1>1, <2>2, SameThings
  <2>5. Asleep' /\ InFlight'
    BY <1>1, <1>2, <2>1 DEF IInv, Asleep, InFlight
  <2> QED BY <1>3, <2>1, <2>3, <2>4, <2>5 DEF Placed
<1> QED BY <1>4, <1>5

LEMMA TimerPlaced == ASSUME IInv, TimerFires PROVE Placed'
<1>1. /\ UNCHANGED <<diskTasks, fate, txns, phase, blockedOn, available>>
      /\ MaybeDoStuff(tasksToPlan, prioritized, pendingPlanWrites, wakeLock, FALSE)
  BY DEF TimerFires, disk, hist
<1>2. /\ tasksToPlan \in Seq(Tasks) /\ Distinct(tasksToPlan)
      /\ prioritized \in SUBSET Things /\ prioritized \cap Tasks \subseteq prioritized
      /\ {} \in SUBSET Tasks /\ \A t \in Tasks : diskTasks[t] # "planned"
      /\ phase \in {"off", "loading", "restoring", "up"}
  BY DEF IInv, TypeInv, TypeOK, Homes, Home
<1>3. \/ Busy /\ Kept(tasksToPlan, prioritized)
      \/ ~Busy /\ Dispatched(tasksToPlan, prioritized)
  BY <1>1, <1>2, MaybeDispatched
<1>4. Homes'
  BY <1>1, <1>2, <1>3, HomesMove
<1>5. Apart' /\ Sorted'
  BY <1>1, <1>3, SameThings
<1>6. Distinct(tasksToPlan')
  BY <1>2, <1>3 DEF Kept, Dispatched
<1>7. Asleep' /\ InFlight'
  <2>1. CASE phase \in {"restoring", "up"}
    <3>1. Asleep' /\ (active # NoJob /\ active.stage = "commit" =>
                        active' # NoJob /\ active'.stage = "commit")
      BY <1>1, <1>3, <2>1, ProcessMoves
    <3> QED BY <1>1, <3>1 DEF IInv, InFlight
  <2>2. CASE phase \in {"off", "loading"}
    <3>1. UNCHANGED <<active, tasksToPlan, prioritized>>
      BY <1>3, <2>2 DEF Busy, Kept
    <3> QED BY <1>1, <3>1 DEF IInv, Asleep, InFlight
  <2> QED BY <1>2, <2>1, <2>2
<1> QED BY <1>4, <1>5, <1>6, <1>7 DEF Placed

LEMMA ScheduleNonPersistentPlaced ==
    ASSUME IInv, NEW t \in NonPersistent, ScheduleNonPersistent(t) PROVE Placed'
<1> DEFINE q == Append(tasksToPlan, t)
<1>1. /\ UNCHANGED <<diskTasks, txns, phase, blockedOn, available>>
      /\ MaybeDoStuff(q, prioritized, pendingPlanWrites, TRUE, timer)
      /\ phase \in {"restoring", "up"} /\ fate[t] = "unborn" /\ Issue({t})
  BY DEF ScheduleNonPersistent, disk, Accepting
<1>2. t \in Tasks /\ {t} \in SUBSET Tasks
  BY TaskManagerAssumption DEF Tasks
<1>3. /\ ~Seen(t, tasksToPlan) /\ t \notin prioritized
      /\ ~Working(t) /\ ~Ending(t, txns) /\ ~Bringing(t, txns)
  BY <1>1, <1>2 DEF IInv, Homes, Home
<1>4. /\ tasksToPlan \in Seq(Tasks) /\ Distinct(tasksToPlan)
      /\ prioritized \in SUBSET Things /\ prioritized \cap Tasks \subseteq prioritized
      /\ \A u \in Tasks : diskTasks[u] # "planned"
  BY DEF IInv, TypeInv, TypeOK, Homes, Home
<1>5. /\ q \in Seq(Tasks) /\ Distinct(q)
      /\ \A x : Seen(x, q) => Seen(x, tasksToPlan) \/ x \in {t}
  BY <1>2, <1>3, <1>4, SeenAppend, DistinctAppend
<1> HIDE DEF q
<1>6. \/ Busy /\ Kept(q, prioritized)
      \/ ~Busy /\ Dispatched(q, prioritized)
  BY <1>1, <1>4, <1>5, MaybeDispatched
<1>7. Homes'
  <2>1. \A u \in Tasks : fate'[u] = IF u \in {t} THEN "issued" ELSE fate[u]
    BY <1>1 DEF Issue
  <2>2. \A u \in {t} :
          /\ ~Seen(u, tasksToPlan) /\ u \notin prioritized
          /\ ~Working(u) /\ ~Ending(u, txns) /\ ~Bringing(u, txns')
          /\ fate'[u] # "unborn" /\ (u \in NonPersistent \/ diskTasks'[u] = "raw")
    BY <1>1, <1>2, <1>3, <2>1
  <2>3. \A u \in Tasks :
          /\ fate'[u] = "unborn" => fate[u] = "unborn" /\ diskTasks'[u] = diskTasks[u]
          /\ Bringing(u, txns') => Bringing(u, txns)
          /\ Ending(u, txns') => Ending(u, txns) \/ (Working(u) /\ Dispatched(q, prioritized))
          /\ diskTasks'[u] = diskTasks[u] \/ u \in {t} \/ Ending(u, txns)
          /\ diskTasks'[u] # "planned"
    BY <1>1, <1>4, <2>1
  <2> QED BY <1>2, <1>4, <1>5, <1>6, <2>2, <2>3, HomesMove
<1>8. Apart' /\ Sorted'
  BY <1>1, <1>6, SameThings
<1>9. Asleep' /\ (active # NoJob /\ active.stage = "commit" =>
                    active' # NoJob /\ active'.stage = "commit")
  BY <1>1, <1>6, ProcessMoves
<1>10. InFlight'
  BY <1>1, <1>9 DEF IInv, InFlight
<1>11. Distinct(tasksToPlan')
  BY <1>5, <1>6 DEF Kept, Dispatched
<1> QED BY <1>7, <1>8, <1>9, <1>10, <1>11 DEF Placed

-----------------------------------------------------------------------------
(* Resources. *)

\* The things looked at again are markers, and the running one is not among
\* them; the others do not depend on r.
LEMMA ResourcesPlaced ==
    ASSUME IInv, NEW r \in Resources,
           ResourceAvailable(r) \/ ResourceNoLongerAvailable(r)
    PROVE  Placed'
<1>1. /\ UNCHANGED <<diskTasks, fate, txns, phase, tasksToPlan, active>>
      /\ phase # "off" /\ available \in SUBSET Resources
  BY DEF ResourceAvailable, ResourceNoLongerAvailable, disk, hist, IInv, TypeInv, TypeOK
<1>2. PICK things \in SUBSET Bins :
        /\ prioritized' = Relayed(things, available') /\ blockedOn' = Filed(things, available')
        /\ \A b \in things : b \in prioritized \/ blockedOn[b] # NoResource
        /\ \A b \in Bins : b \notin things =>
             /\ b \in prioritized => Needs[b] \subseteq available'
             /\ blockedOn[b] # NoResource => blockedOn[b] \in Needs[b] \ available'
  <2>1. CASE ResourceAvailable(r)
    <3> DEFINE things == {b \in Bins : blockedOn[b] = r}
    <3>1. /\ prioritized' = Relayed(things, available') /\ blockedOn' = Filed(things, available')
          /\ available' = available \cup {r} /\ r # NoResource
      BY <2>1, TaskManagerAssumption DEF ResourceAvailable
    <3>2. \A b \in Bins : b \notin things =>
            /\ b \in prioritized => Needs[b] \subseteq available'
            /\ blockedOn[b] # NoResource => blockedOn[b] \in Needs[b] \ available'
      BY <3>1 DEF IInv, Sorted
    <3> QED BY <3>1, <3>2
  <2>2. CASE ResourceNoLongerAvailable(r)
    <3> DEFINE things == {b \in prioritized \cap Bins : r \in Needs[b]}
    <3>1. /\ prioritized' = Relayed(things, available') /\ blockedOn' = Filed(things, available')
          /\ available' = available \ {r}
      BY <2>2 DEF ResourceNoLongerAvailable
    <3>2. \A b \in Bins : b \notin things =>
            /\ b \in prioritized => Needs[b] \subseteq available'
            /\ blockedOn[b] # NoResource => blockedOn[b] \in Needs[b] \ available'
      BY <3>1 DEF IInv, Sorted
    <3> QED BY <3>1, <3>2
  <2> QED BY <2>1, <2>2
<1>3. \A b \in Bins :
        /\ b \in prioritized' => Needs[b] \subseteq available' /\ blockedOn'[b] = NoResource
        /\ blockedOn'[b] # NoResource => blockedOn'[b] \in Needs[b] \ available'
  BY <1>2, RelaySorted
<1>4. Sorted'
  BY <1>3, SortedMove
<1>5. Tasks \cap Bins = {}
  BY TaskManagerAssumption
<1>6. \A th : th \notin things => (th \in prioritized' <=> th \in prioritized)
  BY <1>2, RelayedFacts
<1>7. \A b \in Bins : b \notin things => blockedOn'[b] = blockedOn[b]
  BY <1>2, FiledFacts
<1>8. Apart'
  <2>1. ASSUME NEW th \in Things, Executing(th)
        PROVE  th \notin prioritized' /\ (th \in Bins => blockedOn'[th] = NoResource)
    <3>1. th \notin prioritized /\ (th \in Bins => blockedOn[th] = NoResource)
      BY <2>1 DEF IInv, Apart
    <3>2. th \notin things
      BY <1>2, <3>1
    <3> QED BY <1>6, <1>7, <3>1, <3>2
  <2>2. \A th \in Things : Executing(th)' => Executing(th)
    BY <1>1 DEF Executing, Working
  <2> QED BY <1>3, <2>1, <2>2 DEF Apart
<1>9. Homes'
  <2>1. \A t \in Tasks : t \in prioritized' => t \in prioritized
    BY <1>2, <1>5, <1>6
  <2> QED BY <1>1, <2>1 DEF IInv, Homes, Home, Working, Planning
<1>10. InFlight' /\ Distinct(tasksToPlan')
  BY <1>1, InFlightKept DEF IInv
<1>11. Asleep'
  <2>1. CASE phase \in {"off", "loading"}
    <3>1. prioritized = {} /\ \A b \in Bins : blockedOn[b] = NoResource
      BY <2>1 DEF IInv, Asleep
    <3>2. things = {}
      BY <1>2, <3>1
    <3>3. prioritized' = {} /\ \A b \in Bins : blockedOn'[b] = NoResource
      BY <1>6, <1>7, <3>1, <3>2
    <3> QED BY <1>1, <3>3 DEF IInv, Asleep
  <2>2. CASE phase \notin {"off", "loading"}
    BY <1>1, <2>2 DEF IInv, Asleep
  <2> QED BY <2>1, <2>2
<1> QED BY <1>4, <1>8, <1>9, <1>10, <1>11 DEF Placed

-----------------------------------------------------------------------------
(* The theorems. *)

LEMMA IInvStep == IInv /\ [Next]_vars => IInv'
<1> SUFFICES ASSUME IInv, [Next]_vars PROVE IInv'
  OBVIOUS
<1>1. TypeInv'
  BY TypeStep DEF IInv
<1>2. CASE UNCHANGED vars
  <2>1. UNCHANGED <<fate, diskTasks, txns, tasksToPlan, prioritized, active, phase,
                    blockedOn, available>>
    BY <1>2 DEF vars, disk, hist
  <2>2. Homes' /\ InFlight'
    BY <2>1, HomesKept, InFlightKept DEF IInv
  <2>3. Asleep' /\ Apart' /\ Sorted' /\ Distinct(tasksToPlan')
    BY <2>1 DEF IInv, Asleep, Apart, Sorted, Executing, Working
  <2> QED BY <1>1, <2>2, <2>3 DEF IInv
<1>3. CASE Next
  <2>1. Placed'
    <3>1. CASE JobFails
      BY <3>1, PlanSimpleFailsPlaced, FailsafeFinalizePlaced DEF JobFails
    <3> QED BY <1>3, <3>1, BootPlaced, LoadTasksPlaced, RestoreComplexPlaced, CrashPlaced,
               SchedulePlaced, ScheduleNonPersistentPlaced, JobFinishesPlaced,
               AddCommitsPlaced, FinishCommitsPlaced, FailsafeCommitsPlaced, AbortsPlaced,
               ResourcesPlaced, TimerPlaced DEF Next
  <2> QED BY <1>1, <2>1 DEF IInv, Placed
<1> QED BY <1>2, <1>3

\* A task or marker is never in two places, whatever fails, aborts or dies:
\* scheduleTasks, the enqueueing of finished tasks' newData, ownOrRelayTaskThing
\* and the resource handlers never duplicate it.
THEOREM OneHomeHolds == Spec => []OneHome
<1>1. IInv => OneHome
  BY IInvImplies
<1> QED BY <1>1, IInvInit, IInvStep, PTL DEF Spec

\* A persistent task in _tasksToPlan, or being planned, has its raw record in
\* TBL_TASKS: the manager never plans ahead of the database.
THEOREM QueueIsDurableHolds == Spec => []QueueIsDurable
<1>1. IInv => QueueIsDurable
  BY IInvImplies
<1> QED BY <1>1, IInvInit, IInvStep, PTL DEF Spec

\* After any history of resourceAvailable and resourceNoLongerAvailable, a
\* prioritized marker has all it needs and a blocked one is filed under a
\* resource that is missing.
THEOREM SortedByNeedHolds == Spec => []SortedByNeed
<1>1. IInv => SortedByNeed
  BY IInvImplies
<1> QED BY <1>1, IInvInit, IInvStep, PTL DEF Spec

-----------------------------------------------------------------------------
(* The markers of planned bins. *)

\* What _maybeDoStuff takes off the heap is marked in progress.
Started(ready) ==
    /\ inProgressBins \subseteq inProgressBins'
    /\ \A b \in Bins : b \in ready => b \in prioritized' \/ b \in inProgressBins'

LEMMA StuffStarted ==
    ASSUME NEW q, NEW ready, NEW pending, NEW lock, NEW again,
           DoStuff(q, ready, pending, lock, again)
    PROVE  Started(ready)
<1>1. CASE ExecuteNext(q, ready, lock, again)
  BY <1>1 DEF ExecuteNext, Started
<1>2. CASE PlanNext(q, ready, lock, again) \/ PlanMoot(q, ready, lock, again)
  BY <1>2 DEF PlanNext, PlanMoot, Started
<1>3. CASE NothingToDo(q, ready, pending, again)
  BY <1>3 DEF NothingToDo, Started
<1> QED BY <1>1, <1>2, <1>3 DEF DoStuff

LEMMA MaybeStarted ==
    ASSUME NEW q, NEW ready, NEW pending, NEW lock, NEW again,
           MaybeDoStuff(q, ready, pending, lock, again)
    PROVE  Started(ready)
<1>1. CASE Busy
  BY <1>1 DEF MaybeDoStuff, Started
<1>2. CASE ~Busy
  BY <1>2, StuffStarted DEF MaybeDoStuff
<1> QED BY <1>1, <1>2

\* A thing that is filed or relayed again is ready or blocked afterwards.
LEMMA RelayKeeps ==
    ASSUME NEW things, NEW avail, NEW b \in Bins,
           b \in things \/ b \in prioritized \/ blockedOn[b] # NoResource
    PROVE  b \in Relayed(things, avail) \/ Filed(things, avail)[b] # NoResource
<1>1. Filed(things, avail)[b] = IF b \in things THEN Missing(b, avail) ELSE blockedOn[b]
  BY DEF Filed
<1> QED BY <1>1 DEF Relayed, Ready

Waits(b) == b \in prioritized \/ blockedOn[b] # NoResource

Marked == phase = "up" => \A b \in Bins : b \in binToMarker => b \in inProgressBins \/ Waits(b)

LEMMA MarkedImplies == TypeInv /\ Marked => PlannedBinHasMarker
BY DEF TypeInv, TypeOK, Marked, Waits, PlannedBinHasMarker, blocked

LEMMA MarkedInit == Init => Marked
BY DEF Init, Marked

\* Steps that leave the planned bins alone and dispatch at most once.
LEMMA MarkedMoves ==
    ASSUME Marked, UNCHANGED <<phase, binToMarker, blockedOn>>, Started(prioritized)
    PROVE  Marked'
BY DEF Marked, Waits, Started

LEMMA MarkedSame ==
    ASSUME Marked,
           UNCHANGED <<phase, binToMarker, blockedOn, prioritized, inProgressBins>>
    PROVE  Marked'
BY DEF Marked, Waits

\* Steps that file or relay things, and may add a marker among them.
LEMMA MarkedRelays ==
    ASSUME Marked, NEW things, NEW avail,
           phase' = phase /\ inProgressBins' = inProgressBins,
           prioritized' = Relayed(things, avail), blockedOn' = Filed(things, avail),
           \A b \in Bins : b \in binToMarker' => b \in binToMarker \/ b \in things
    PROVE  Marked'
<1> SUFFICES ASSUME phase = "up", NEW b \in Bins, b \in binToMarker', b \notin inProgressBins
             PROVE  b \in prioritized' \/ blockedOn'[b] # NoResource
  BY DEF Marked, Waits
<1>1. b \in things \/ b \in prioritized \/ blockedOn[b] # NoResource
  BY DEF Marked, Waits
<1> QED BY <1>1, RelayKeeps

LEMMA MarkedRestored == ASSUME RestoreComplex PROVE Marked'
<1> DEFINE ready == Relayed(StoredMarkers, available)
<1>1. /\ binToMarker' = StoredMarkers /\ blockedOn' = Filed(StoredMarkers, available)
      /\ DoStuff(tasksToPlan, ready, pendingPlanWrites, wakeLock, timer)
  BY DEF RestoreComplex
<1>2. Started(ready)
  BY <1>1, StuffStarted
<1>3. \A b \in Bins : b \in StoredMarkers =>
        b \in ready \/ Filed(StoredMarkers, available)[b] # NoResource
  BY RelayKeeps
<1> HIDE DEF ready
<1> QED BY <1>1, <1>2, <1>3 DEF Marked, Waits, Started

LEMMA MarkedFinishes == ASSUME Marked, JobFinishes PROVE Marked'
<1>1. ASSUME NEW t \in Tasks, NEW new \in Batches, PlanSimple(t, new) PROVE Marked'
  <2>1. /\ phase' = phase /\ inProgressBins' = inProgressBins /\ binToMarker' = binToMarker
        /\ prioritized' = Relayed({t}, available) /\ blockedOn' = Filed({t}, available)
    BY <1>1 DEF PlanSimple, OwnOrRelay, FinishTask, bins
  <2> QED BY <2>1, MarkedRelays
<1>2. ASSUME NEW t \in Tasks, NEW new \in Batches, PlanMarker(t, new) PROVE Marked'
  <2> DEFINE things == {BinOf[t]}
  <2>1. /\ phase' = phase /\ inProgressBins' = inProgressBins
        /\ binToMarker' = binToMarker \cup things
        /\ prioritized' = Relayed(things, available) /\ blockedOn' = Filed(things, available)
    BY <1>2 DEF PlanMarker, OwnOrRelay, FinishTask
  <2> QED BY <2>1, MarkedRelays
<1>3. ASSUME NEW t \in Tasks, NEW new \in Batches,
             PlanConcludes(t, new) \/ ExecuteSimple(t, new) \/ PlanAbsorbed(t)
      PROVE  Marked'
  BY <1>3, MarkedSame DEF PlanConcludes, ExecuteSimple, PlanAbsorbed, FinishTask, bins
<1>4. ASSUME NEW b \in Bins, NEW new \in Batches, ExecuteMarker(b, new) PROVE Marked'
  <2>1. /\ UNCHANGED <<phase, prioritized, blockedOn>>
        /\ inProgressBins' = inProgressBins \ {b} /\ binToMarker' = binToMarker \ {b}
    BY <1>4 DEF ExecuteMarker, FinishTask
  <2> QED BY <2>1 DEF Marked, Waits
<1>5. ASSUME NEW t \in Complex, PlanAbsorbed(t) PROVE Marked'
  BY <1>5, MarkedSame DEF PlanAbsorbed, FinishTask, bins
<1> QED BY <1>1, <1>2, <1>3, <1>4, <1>5 DEF JobFinishes

LEMMA MarkedStep == Marked /\ [Next]_vars => Marked'
<1> SUFFICES ASSUME Marked, [Next]_vars PROVE Marked'
  OBVIOUS
<1>1. CASE UNCHANGED vars
  BY <1>1, MarkedSame DEF vars, bins
<1>2. CASE Boot \/ LoadTasks \/ Crash
  <2>1. phase' # "up"
    BY <1>2 DEF Boot, LoadTasks, Crash
  <2> QED BY <2>1 DEF Marked
<1>3. ASSUME NEW new \in Batches, Schedule(new) PROVE Marked'
  BY <1>3, MarkedSame DEF Schedule, bins
<1>4. ASSUME NEW t \in NonPersistent, ScheduleNonPersistent(t) PROVE Marked'
  BY <1>4, MaybeStarted, MarkedMoves DEF ScheduleNonPersistent
<1>5. ASSUME NEW t, PlanSimpleFails(t) PROVE Marked'
  BY <1>5, StuffStarted, MarkedMoves DEF PlanSimpleFails, JobEnds
<1>6. ASSUME NEW th, FailsafeFinalize(th) PROVE Marked'
  BY <1>6, StuffStarted, MarkedMoves DEF FailsafeFinalize, JobEnds
<1>7. CASE AddCommits
  BY <1>7, MaybeStarted, MarkedMoves DEF AddCommits
<1>8. CASE FinishCommits
  BY <1>8, StuffStarted, MarkedMoves DEF FinishCommits, JobEnds
<1>9. CASE FailsafeCommits
  BY <1>9, MarkedSame DEF FailsafeCommits, bins
<1>10. ASSUME NEW announced, Aborts(announced) PROVE Marked'
  <2>1. CASE Head(txns).kind = "finish" /\ announced
    BY <1>10, <2>1, StuffStarted, MarkedMoves DEF Aborts, JobEnds
  <2>2. CASE ~(Head(txns).kind = "finish" /\ announced)
    BY <1>10, <2>2, MarkedSame DEF Aborts
  <2> QED BY <2>1, <2>2
<1>11. ASSUME NEW r, ResourceAvailable(r) \/ ResourceNoLongerAvailable(r) PROVE Marked'
  <2>1. PICK things :
          prioritized' = Relayed(things, available') /\ blockedOn' = Filed(things, available')
    BY <1>11 DEF ResourceAvailable, ResourceNoLongerAvailable
  <2>2. UNCHANGED <<phase, binToMarker, inProgressBins>>
    BY <1>11 DEF ResourceAvailable, ResourceNoLongerAvailable, bins
  <2> QED BY <2>1, <2>2, MarkedRelays
<1>12. CASE TimerFires
  BY <1>12, MaybeStarted, MarkedMoves DEF TimerFires
<1> QED BY <1>1, <1>2, <1>3, <1>4, <1>5, <1>6, <1>7, <1>8, <1>9, <1>10, <1>11, <1>12,
           MarkedRestored, MarkedFinishes DEF Next, JobFails

\* While the manager is up, a bin that at_most_once considers planned has a
\* marker that waits to run, is running, or failed: a request that is dropped
\* because its bin is planned was not dropped for nothing.
THEOREM PlannedBinHasMarkerHolds == Spec => []PlannedBinHasMarker
<1>1. TypeInv /\ Marked => PlannedBinHasMarker
  BY MarkedImplies
<1> QED BY <1>1, TypeInit, TypeStep, MarkedInit, MarkedStep, PTL DEF Spec

-----------------------------------------------------------------------------
(* The taskQueueEmpty event. *)

\* _maybeDoStuff emits it when it found nothing to do and no write pending.
Exhausted ==
    signal = "taskQueueEmpty" =>
        /\ phase = "up" /\ pendingPlanWrites = 0
        /\ tasksToPlan = << >> /\ prioritized = {} /\ active = NoJob

\* The transaction of a fail-safe brings no task.
FailsafesBringNothing ==
    \A i \in 1..Len(txns) : txns[i].kind = "failsafe" => txns[i].new = {}

LEMMA StuffExhausts ==
    ASSUME NEW q, NEW ready, NEW pending, NEW lock, NEW again,
           DoStuff(q, ready, pending, lock, again), phase' = "up", pendingPlanWrites' = pending
    PROVE  Exhausted'
<1>1. CASE PlanNext(q, ready, lock, again) \/ PlanMoot(q, ready, lock, again)
  BY <1>1 DEF PlanNext, PlanMoot, Exhausted
<1>2. CASE ExecuteNext(q, ready, lock, again)
  BY <1>2 DEF ExecuteNext, Exhausted
<1>3. CASE NothingToDo(q, ready, pending, again)
  BY <1>3 DEF NothingToDo, Exhausted
<1> QED BY <1>1, <1>2, <1>3 DEF DoStuff

LEMMA MaybeExhausts ==
    ASSUME NEW q, NEW ready, NEW pending, NEW lock, NEW again,
           MaybeDoStuff(q, ready, pending, lock, again),
           phase' = phase, pendingPlanWrites' = pending
    PROVE  Exhausted'
<1>1. CASE Busy
  BY <1>1 DEF MaybeDoStuff, Exhausted
<1>2. CASE ~Busy
  BY <1>2, StuffExhausts DEF MaybeDoStuff, Busy
<1> QED BY <1>1, <1>2

LEMMA ExhaustedInit == Init => Exhausted /\ FailsafesBringNothing
BY DEF Init, Exhausted, FailsafesBringNothing

\* A step that emits nothing.
LEMMA Silent == ASSUME signal' = "none" PROVE Exhausted'
BY DEF Exhausted

LEMMA ExhaustedStep == IInv /\ Exhausted /\ [Next]_vars => Exhausted'
<1> SUFFICES ASSUME IInv, Exhausted, [Next]_vars PROVE Exhausted'
  OBVIOUS
<1>1. CASE UNCHANGED vars
  BY <1>1 DEF vars, Exhausted
<1>2. CASE Boot \/ LoadTasks
  BY <1>2 DEF Boot, LoadTasks, Exhausted
<1>3. CASE RestoreComplex
  BY <1>3, StuffExhausts DEF RestoreComplex
<1>4. CASE Crash \/ FailsafeCommits
  BY <1>4, Silent DEF Crash, FailsafeCommits
<1>5. ASSUME NEW new \in Batches, Schedule(new) PROVE Exhausted'
  BY <1>5, Silent DEF Schedule
<1>6. ASSUME NEW t \in NonPersistent, ScheduleNonPersistent(t) PROVE Exhausted'
  BY <1>6, MaybeExhausts DEF ScheduleNonPersistent
<1>7. CASE JobFinishes
  BY <1>7, Silent DEF JobFinishes, FinishTask, PlanSimple, PlanConcludes, PlanMarker,
     PlanAbsorbed, ExecuteSimple, ExecuteMarker
<1>8. CASE JobFails
  <2>1. /\ phase' = phase /\ pendingPlanWrites' = pendingPlanWrites
        /\ JobEnds(tasksToPlan, wakeLock)
    BY <1>8 DEF JobFails, PlanSimpleFails, FailsafeFinalize
  <2>2. active # NoJob
    <3>1. PICK th \in Tasks \cup Bins, mode \in {"plan", "exec"} : Running(mode, th)
      BY <1>8 DEF JobFails, PlanSimpleFails, FailsafeFinalize, Tasks
    <3> QED BY <3>1, RunningJob
  <2>3. phase = "up"
    BY <2>2 DEF IInv, Asleep
  <2> QED BY <2>1, <2>3, StuffExhausts DEF JobEnds
<1>9. CASE AddCommits
  BY <1>9, MaybeExhausts DEF AddCommits
<1>10. CASE FinishCommits
  <2>1. phase = "up"
    <3>1. txns # << >> /\ txns' = Tail(txns) /\ Head(txns).kind = "finish"
      BY <1>10 DEF FinishCommits, NextTxn
    <3>2. ~NoFinish(txns)
      BY <3>1, Arriving
    <3> QED BY <3>2 DEF IInv, InFlight, Asleep
  <2> QED BY <1>10, <2>1, StuffExhausts DEF FinishCommits, JobEnds
<1>11. ASSUME NEW announced \in BOOLEAN, Aborts(announced) PROVE Exhausted'
  <2>1. CASE Head(txns).kind = "finish" /\ announced
    <3>1. txns # << >> /\ txns' = Tail(txns)
      BY <1>11 DEF Aborts
    <3>2. ~NoFinish(txns)
      BY <2>1, <3>1, Arriving
    <3>3. phase = "up"
      BY <3>2 DEF IInv, InFlight, Asleep
    <3> QED BY <1>11, <2>1, <3>3, StuffExhausts DEF Aborts, JobEnds
  <2>2. CASE ~(Head(txns).kind = "finish" /\ announced)
    BY <1>11, <2>2, Silent DEF Aborts
  <2> QED BY <2>1, <2>2
<1>12. ASSUME NEW r, ResourceAvailable(r) \/ ResourceNoLongerAvailable(r) PROVE Exhausted'
  BY <1>12, Silent DEF ResourceAvailable, ResourceNoLongerAvailable
<1>13. CASE TimerFires
  BY <1>13, MaybeExhausts DEF TimerFires
<1> QED BY <1>1, <1>2, <1>3, <1>4, <1>5, <1>6, <1>7, <1>8, <1>9, <1>10, <1>11, <1>12, <1>13
        DEF Next

LEMMA FailsafesStep ==
    TypeInv /\ FailsafesBringNothing /\ [Next]_vars => FailsafesBringNothing'
<1> SUFFICES ASSUME TypeInv, FailsafesBringNothing, [Next]_vars
             PROVE  FailsafesBringNothing'
  OBVIOUS
<1>1. txns \in Seq(Txn)
  BY DEF TypeInv, TypeOK
<1>2. ASSUME txns' = txns PROVE FailsafesBringNothing'
  BY <1>2 DEF FailsafesBringNothing
<1>3. ASSUME txns' = << >> PROVE FailsafesBringNothing'
  BY <1>3 DEF FailsafesBringNothing
<1>4. ASSUME txns # << >>, txns' = Tail(txns) PROVE FailsafesBringNothing'
  <2>1. \A i \in 1..Len(txns') : txns'[i] = txns[i + 1] /\ i + 1 \in 1..Len(txns)
    BY <1>1, <1>4
  <2> QED BY <2>1 DEF FailsafesBringNothing
<1>5. ASSUME NEW kind, NEW thing, NEW result, NEW saves, NEW new,
             Submit(kind, thing, result, saves, new), kind = "failsafe" => new = {}
      PROVE  FailsafesBringNothing'
  <2> DEFINE x == [kind |-> kind, thing |-> thing, result |-> result, saves |-> saves,
                   new |-> new, bins |-> IF saves THEN binToMarker' ELSE {}]
  <2>1. txns' = Append(txns, x)
    BY <1>5 DEF Submit
  <2>2. x.kind = "failsafe" => x.new = {}
    BY <1>5
  <2> HIDE DEF x
  <2>3. /\ Len(txns) \in Nat /\ Len(txns') = Len(txns) + 1 /\ txns'[Len(txns) + 1] = x
        /\ \A i \in 1..Len(txns) : txns'[i] = txns[i]
    BY <1>1, <2>1
  <2>4. \A i : i \in 1..(Len(txns) + 1) <=> i \in 1..Len(txns) \/ i = Len(txns) + 1
    BY <2>3
  <2> QED BY <2>2, <2>3, <2>4 DEF FailsafesBringNothing
<1>6. CASE UNCHANGED vars \/ Boot \/ LoadTasks \/ RestoreComplex \/ TimerFires
  BY <1>2, <1>6 DEF vars, Boot, LoadTasks, RestoreComplex, TimerFires
<1>7. CASE Crash
  BY <1>3, <1>7 DEF Crash
<1>8. CASE AddCommits \/ FinishCommits \/ FailsafeCommits
  BY <1>4, <1>8 DEF AddCommits, FinishCommits, FailsafeCommits, NextTxn
<1>9. ASSUME NEW announced, Aborts(announced) PROVE FailsafesBringNothing'
  BY <1>4, <1>9 DEF Aborts
<1>10. ASSUME NEW new, Schedule(new) PROVE FailsafesBringNothing'
  <2>1. Submit("add", NoThing, "done", FALSE, new) /\ "add" # "failsafe"
    BY <1>10 DEF Schedule
  <2> QED BY <1>5, <2>1
<1>11. ASSUME NEW t, ScheduleNonPersistent(t) PROVE FailsafesBringNothing'
  BY <1>2, <1>11 DEF ScheduleNonPersistent
<1>12. ASSUME NEW th, NEW result, NEW saves, NEW new, FinishTask(th, result, saves, new)
       PROVE  FailsafesBringNothing'
  <2>1. Submit("finish", th, result, saves, new) /\ "finish" # "failsafe"
    BY <1>12 DEF FinishTask
  <2> QED BY <1>5, <2>1
<1>13. CASE JobFinishes
  BY <1>12, <1>13 DEF JobFinishes, PlanSimple, PlanConcludes, PlanMarker, PlanAbsorbed,
     ExecuteSimple, ExecuteMarker
<1>14. ASSUME NEW t, PlanSimpleFails(t) PROVE FailsafesBringNothing'
  BY <1>2, <1>14 DEF PlanSimpleFails
<1>15. ASSUME NEW th, FailsafeFinalize(th) PROVE FailsafesBringNothing'
  <2>1. Submit("failsafe", th, "dropped", FALSE, {})
    BY <1>15 DEF FailsafeFinalize
  <2> QED BY <1>5, <2>1
<1>16. ASSUME NEW r, ResourceAvailable(r) \/ ResourceNoLongerAvailable(r)
       PROVE  FailsafesBringNothing'
  BY <1>2, <1>16 DEF ResourceAvailable, ResourceNoLongerAvailable
<1> QED BY <1>6, <1>7, <1>8, <1>9, <1>10, <1>11, <1>13, <1>14, <1>15, <1>16
        DEF Next, JobFails

\* No write pending means no addTasks in flight; no job means no finish in
\* flight; and a fail-safe brings nothing.
LEMMA ExhaustedImplies ==
    IInv /\ Exhausted /\ FailsafesBringNothing => QueueEmptyIsTrue
<1> SUFFICES ASSUME IInv, Exhausted, FailsafesBringNothing, signal = "taskQueueEmpty"
             PROVE  /\ tasksToPlan = << >> /\ prioritized = {} /\ active = NoJob
                    /\ \A t \in Tasks : ~Incoming(t)
  BY DEF QueueEmptyIsTrue
<1>1. /\ pendingPlanWrites = 0
      /\ tasksToPlan = << >> /\ prioritized = {} /\ active = NoJob
  BY DEF Exhausted
<1>2. txns \in Seq(Txn) /\ WritesCounted
  BY DEF IInv, TypeInv, TypeOK
<1>3. IsFiniteSet(Adds(txns)) /\ Cardinality(Adds(txns)) \in Nat
  BY <1>2, AddsFinite
<1>4. Adds(txns) = {}
  <2>1. Cardinality(Adds(txns)) = 0
    BY <1>1, <1>2, <1>3 DEF WritesCounted
  <2> QED BY <1>3, <2>1, FS_EmptySet
<1>5. NoFinish(txns)
  BY <1>1 DEF IInv, InFlight
<1>6. \A i \in 1..Len(txns) : txns[i].kind \in {"add", "finish", "failsafe"}
  <2>1. \A x \in Txn : x.kind \in {"add", "finish", "failsafe"}
    BY DEF Txn
  <2> QED BY <1>2, <2>1
<1>7. \A i \in 1..Len(txns) : txns[i].new = {}
  BY <1>4, <1>5, <1>6 DEF Adds, NoFinish, FailsafesBringNothing
<1> QED BY <1>1, <1>7 DEF Incoming

\* When taskQueueEmpty is emitted nothing is queued, ready or running, and no
\* transaction in flight brings a task that will have to be planned.
THEOREM QueueEmptyIsTrueHolds == Spec => []QueueEmptyIsTrue
<1>1. IInv => TypeInv
  BY DEF IInv
<1> QED BY <1>1, ExhaustedImplies, IInvInit, IInvStep, ExhaustedInit, ExhaustedStep,
           FailsafesStep, PTL DEF Spec

-----------------------------------------------------------------------------
(* Raw records. *)

\* Whoever minds the raw record of a task in a process that loaded it.
Minded(t) ==
    \/ Seen(t, tasksToPlan) \/ Planning(t) \/ Ending(t, txns)
    \/ t \in parked \cup Orphans

Remembered ==
    phase \in {"restoring", "up"} =>
        \A t \in Tasks : diskTasks[t] = "raw" => Minded(t)

\* The order in which a set is enqueued leaves none of it out.
LEMMA OrderIsComplete ==
    ASSUME NEW S \in SUBSET Tasks, NEW order \in SetToSeqs(S), NEW x \in S
    PROVE  Seen(x, order)
<1> DEFINE n == Cardinality(S)
           D == 1..n
<1>1. IsFiniteSet(S)
  BY FS_Subset, TaskManagerAssumption
<1>2. n \in Nat
  BY <1>1, FS_CardinalityType
<1>3. IsFiniteSet(D) /\ Cardinality(D) = n
  <2>1. 1 \in Int /\ n \in Int
    BY <1>2
  <2>2. IsFiniteSet(1..n) /\ Cardinality(1..n) = IF 1 > n THEN 0 ELSE n - 1 + 1
    BY <2>1, FS_Interval
  <2> QED BY <1>2, <2>2
<1>4. order \in [D -> S] /\ \A i, j \in D : i # j => order[i] # order[j]
  BY DEF SetToSeqs
<1>5. order \in Injection(D, S)
  BY <1>4 DEF Injection, IsInjective
<1>6. order \in Surjection(D, S)
  BY <1>1, <1>3, <1>5, FS_Injection
<1>7. PICK i \in D : order[i] = x
  BY <1>6 DEF Surjection
<1>8. Len(order) = n
  BY <1>2, <1>4
<1> QED BY <1>7, <1>8 DEF Seen

\* What was in the plan queue q still is, or is being planned, or has no account.
Minds(q) ==
    \A x : Seen(x, q) => Seen(x, tasksToPlan') \/ Planning(x)' \/ x \in Orphans

LEMMA StuffMinds ==
    ASSUME NEW q \in Seq(Tasks), NEW ready, NEW pending, NEW lock, NEW again,
           DoStuff(q, ready, pending, lock, again)
    PROVE  Minds(q)
<1>1. CASE PlanNext(q, ready, lock, again)
  <2>1. q # << >> /\ tasksToPlan' = Tail(q)
        /\ active' = [mode |-> "plan", thing |-> Head(q), stage |-> "run"]
    BY <1>1 DEF PlanNext
  <2>2. Head(q) \in Tasks
    BY <2>1
  <2>3. [mode |-> "plan", thing |-> Head(q), stage |-> "run"] \in Job
    BY <2>2 DEF Job
  <2>4. Planning(Head(q))'
    BY <2>1, <2>3, TaskManagerAssumption DEF Planning, Working
  <2>5. \A x : Seen(x, q) <=> x = Head(q) \/ Seen(x, tasksToPlan')
    BY <2>1, SeenTail
  <2> QED BY <2>4, <2>5 DEF Minds
<1>2. CASE PlanMoot(q, ready, lock, again)
  <2>1. q # << >> /\ tasksToPlan' = Tail(q) /\ Head(q) \in Orphans
    BY <1>2 DEF PlanMoot
  <2>2. \A x : Seen(x, q) <=> x = Head(q) \/ Seen(x, tasksToPlan')
    BY <2>1, SeenTail
  <2> QED BY <2>1, <2>2 DEF Minds
<1>3. CASE ExecuteNext(q, ready, lock, again) \/ NothingToDo(q, ready, pending, again)
  BY <1>3 DEF ExecuteNext, NothingToDo, Minds
<1> QED BY <1>1, <1>2, <1>3 DEF DoStuff

\* What _maybeDoStuff keeps of the plan queue and of the job.
KeepsAll(q) == Minds(q) /\ \A x : Planning(x) => Planning(x)'

LEMMA MaybeMinds ==
    ASSUME NEW q \in Seq(Tasks), NEW ready, NEW pending, NEW lock, NEW again,
           MaybeDoStuff(q, ready, pending, lock, again)
    PROVE  KeepsAll(q)
<1>1. CASE Busy
  BY <1>1 DEF MaybeDoStuff, KeepsAll, Minds, Planning, Working
<1>2. CASE ~Busy
  <2>1. Minds(q)
    BY <1>2, StuffMinds DEF MaybeDoStuff
  <2>2. \A x : ~Planning(x)
    BY <1>2 DEF Busy, Planning, Working
  <2> QED BY <2>1, <2>2 DEF KeepsAll
<1> QED BY <1>1, <1>2

\* A step after which every raw record is an old one whose keeper is still
\* there, or a new one in the plan queue q that the step dispatches from.
LEMMA RememberedMoves ==
    ASSUME Remembered, phase \in {"restoring", "up"}, NEW q, Minds(q),
           \A x : Seen(x, tasksToPlan) => Seen(x, q),
           \A t \in Tasks : diskTasks'[t] = "raw" =>
             \/ Seen(t, q)
             \/ /\ diskTasks[t] = "raw"
                /\ Planning(t) => Planning(t)' \/ Ending(t, txns') \/ t \in parked'
                /\ Ending(t, txns) => Ending(t, txns') \/ t \in parked'
                /\ t \in parked => t \in parked'
    PROVE  Remembered'
<1> SUFFICES ASSUME NEW t \in Tasks, diskTasks'[t] = "raw" PROVE Minded(t)'
  BY DEF Remembered
<1>1. CASE Seen(t, q)
  BY <1>1 DEF Minds, Minded
<1>2. CASE diskTasks[t] = "raw"
  BY <1>1, <1>2 DEF Remembered, Minded, Minds
<1> QED BY <1>1, <1>2

\* A step that leaves the plan queue and the records alone.
LEMMA RememberedKept ==
    ASSUME Remembered, phase' = phase, diskTasks' = diskTasks, tasksToPlan' = tasksToPlan,
           parked \subseteq parked',
           \A t \in Tasks :
             /\ Planning(t) => Planning(t)' \/ Ending(t, txns')
             /\ Ending(t, txns) => Ending(t, txns') \/ t \in parked'
    PROVE  Remembered'
BY DEF Remembered, Minded

LEMMA RememberedInit == Init => Remembered
BY DEF Init, Remembered

LEMMA LoadTasksRemembers == ASSUME IInv, LoadTasks PROVE Remembered'
<1> DEFINE S == {t \in Tasks : diskTasks[t] = "raw"}
<1>1. tasksToPlan' \in SetToSeqs(S) /\ diskTasks' = diskTasks
  BY DEF LoadTasks, disk
<1>2. ASSUME NEW t \in Tasks, diskTasks[t] = "raw" PROVE Seen(t, tasksToPlan')
  <2>1. S \in SUBSET Tasks /\ t \in S
    BY <1>2
  <2> HIDE DEF S
  <2> QED BY <1>1, <2>1, OrderIsComplete
<1> QED BY <1>1, <1>2 DEF Remembered, Minded

LEMMA RestoreRemembers == ASSUME IInv, Remembered, RestoreComplex PROVE Remembered'
<1>1. /\ phase = "restoring" /\ UNCHANGED <<diskTasks, txns, parked>>
      /\ \E ready : DoStuff(tasksToPlan, ready, pendingPlanWrites, wakeLock, timer)
  BY DEF RestoreComplex, disk, hist
<1>2. tasksToPlan \in Seq(Tasks) /\ \A t : ~Planning(t)
  BY <1>1 DEF IInv, TypeInv, TypeOK, Asleep, Planning, Working
<1>3. Minds(tasksToPlan)
  BY <1>1, <1>2, StuffMinds
<1> QED BY <1>1, <1>2, <1>3, RememberedMoves

LEMMA ScheduleRemembers ==
    ASSUME IInv, Remembered, NEW new \in Batches, Schedule(new) PROVE Remembered'
<1>1. /\ UNCHANGED <<phase, diskTasks, tasksToPlan, active, parked>>
      /\ Submit("add", NoThing, "done", FALSE, new) /\ binToMarker' = binToMarker
  BY DEF Schedule, disk, bins
<1>2. new \in SUBSET Tasks /\ binToMarker' \in SUBSET Bins /\ TypeInv
  BY <1>1, BatchTyped DEF IInv, TypeInv, TypeOK
<1>3. /\ "add" \in {"add", "finish", "failsafe"} /\ FALSE \in BOOLEAN
      /\ "done" \in {"planned", "covered", "done", "dropped"} /\ "done" # "covered"
      /\ NoThing \in Tasks \cup Bins \cup {NoThing}
  OBVIOUS
<1>4. \A th : Ending(th, txns') <=> Ending(th, txns) \/ NoThing = th
  BY <1>1, <1>2, <1>3, Submitted
<1>5. \A t : Planning(t)' <=> Planning(t)
  BY <1>1 DEF Planning, Working
<1> QED BY <1>1, <1>4, <1>5, RememberedKept

LEMMA NonPersistentRemembers ==
    ASSUME IInv, Remembered, NEW t \in NonPersistent, ScheduleNonPersistent(t)
    PROVE  Remembered'
<1> DEFINE q == Append(tasksToPlan, t)
<1>1. /\ phase \in {"restoring", "up"}
      /\ UNCHANGED <<diskTasks, txns, parked>>
      /\ MaybeDoStuff(q, prioritized, pendingPlanWrites, TRUE, timer)
  BY DEF ScheduleNonPersistent, Accepting, disk
<1>2. tasksToPlan \in Seq(Tasks) /\ t \in Tasks
  BY TaskManagerAssumption DEF IInv, TypeInv, TypeOK, Tasks
<1>3. q \in Seq(Tasks) /\ \A x : Seen(x, q) <=> Seen(x, tasksToPlan) \/ x = t
  BY <1>2, SeenAppend
<1> HIDE DEF q
<1>4. KeepsAll(q)
  BY <1>1, <1>3, MaybeMinds
<1> QED BY <1>1, <1>3, <1>4, RememberedMoves DEF KeepsAll

\* A job asks to be finished: its task, if it was being planned, is on its way.
LEMMA FinishRemembers ==
    ASSUME IInv, Remembered, NEW mode \in {"plan", "exec"}, NEW th \in Tasks \cup Bins,
           Running(mode, th), NEW result \in {"planned", "covered", "done"},
           NEW saves \in BOOLEAN, NEW new, result = "covered" => th \in Complex,
           binToMarker' \in SUBSET Bins, FinishTask(th, result, saves, new)
    PROVE  Remembered'
<1>1. /\ UNCHANGED <<phase, diskTasks, tasksToPlan, parked>>
      /\ Submit("finish", th, result, saves, new) /\ new \in Batches
  BY DEF FinishTask, disk
<1>2. new \in SUBSET Tasks /\ TypeInv
  BY <1>1, BatchTyped DEF IInv
<1>3. /\ "finish" \in {"add", "finish", "failsafe"}
      /\ result \in {"planned", "covered", "done", "dropped"}
      /\ th \in Tasks \cup Bins \cup {NoThing}
  OBVIOUS
<1>4. \A x : Ending(x, txns') <=> Ending(x, txns) \/ th = x
  BY <1>1, <1>2, <1>3, Submitted
<1>5. \A t : Planning(t) => t = th
  BY RunningJob DEF Planning, Working
<1> QED BY <1>1, <1>4, <1>5, RememberedKept

\* Every way for a job to finish, as one call of finishTask.
Finishes ==
    \E mode \in {"plan", "exec"}, th \in Tasks \cup Bins,
       result \in {"planned", "covered", "done"}, saves \in BOOLEAN, new \in Batches :
        /\ Running(mode, th) /\ FinishTask(th, result, saves, new)
        /\ result = "covered" => th \in Complex

LEMMA JobFinishesFacts ==
    ASSUME TypeInv, JobFinishes PROVE Finishes /\ binToMarker' \in SUBSET Bins
<1>1. binToMarker' \in SUBSET Bins
  BY JobFinishesTyped DEF TypeInv, TypeOK
<1>2. /\ "plan" \in {"plan", "exec"} /\ "exec" \in {"plan", "exec"}
      /\ "planned" \in {"planned", "covered", "done"}
      /\ "covered" \in {"planned", "covered", "done"}
      /\ "done" \in {"planned", "covered", "done"}
      /\ "planned" # "covered" /\ "done" # "covered"
      /\ TRUE \in BOOLEAN /\ FALSE \in BOOLEAN
  OBVIOUS
<1>3. ASSUME NEW t \in Tasks, NEW new \in Batches,
             PlanSimple(t, new) \/ PlanConcludes(t, new) \/ PlanMarker(t, new)
             \/ ExecuteSimple(t, new)
      PROVE  Finishes
  <2>1. t \in Tasks \cup Bins
    OBVIOUS
  <2>2. CASE PlanSimple(t, new)
    BY <1>2, <2>1, <2>2 DEF PlanSimple, Finishes
  <2>3. CASE PlanConcludes(t, new)
    BY <1>2, <2>1, <2>3 DEF PlanConcludes, Finishes
  <2>4. CASE PlanMarker(t, new)
    BY <1>2, <2>1, <2>4 DEF PlanMarker, Finishes
  <2>5. CASE ExecuteSimple(t, new)
    BY <1>2, <2>1, <2>5 DEF ExecuteSimple, Finishes
  <2> QED BY <1>3, <2>2, <2>3, <2>4, <2>5
<1>4. ASSUME NEW b \in Bins, NEW new \in Batches, ExecuteMarker(b, new) PROVE Finishes
  <2>1. b \in Tasks \cup Bins
    OBVIOUS
  <2> QED BY <1>2, <1>4, <2>1 DEF ExecuteMarker, Finishes
<1>5. ASSUME NEW t \in Complex, PlanAbsorbed(t) PROVE Finishes
  <2>1. t \in Tasks \cup Bins
    BY DEF Tasks
  <2>2. {} \in Batches
    BY <1>5 DEF PlanAbsorbed, FinishTask
  <2> QED BY <1>2, <1>5, <2>1, <2>2 DEF PlanAbsorbed, Finishes
<1> QED BY <1>1, <1>3, <1>4, <1>5 DEF JobFinishes

LEMMA JobFinishesRemembers == ASSUME IInv, Remembered, JobFinishes PROVE Remembered'
<1>1. binToMarker' \in SUBSET Bins /\ Finishes
  BY JobFinishesFacts DEF IInv
<1>2. PICK mode \in {"plan", "exec"}, th \in Tasks \cup Bins,
           result \in {"planned", "covered", "done"}, saves \in BOOLEAN, new \in Batches :
        /\ Running(mode, th) /\ FinishTask(th, result, saves, new)
        /\ result = "covered" => th \in Complex
  BY <1>1 DEF Finishes
<1> QED BY <1>1, <1>2, FinishRemembers

LEMMA PlanSimpleFailsRemembers ==
    ASSUME IInv, Remembered, NEW t \in Simple, PlanSimpleFails(t) PROVE Remembered'
<1>1. /\ UNCHANGED <<phase, diskTasks, txns>> /\ parked' = parked \cup {t}
      /\ Running("plan", t)
      /\ DoStuff(tasksToPlan, prioritized, pendingPlanWrites, wakeLock, timer)
  BY DEF PlanSimpleFails, disk, JobEnds
<1>2. tasksToPlan \in Seq(Tasks) /\ "plan" \in {"plan", "exec"} /\ t \in Tasks \cup Bins
  BY DEF IInv, TypeInv, TypeOK, Tasks
<1>3. phase = "up" /\ \A x : Working(x) <=> x = t
  BY <1>1, <1>2, RunningHasNoFinish
<1>4. Minds(tasksToPlan)
  BY <1>1, <1>2, StuffMinds
<1>5. \A x : Planning(x) => x = t
  BY <1>3 DEF Planning
<1> QED BY <1>1, <1>3, <1>4, <1>5, RememberedMoves

LEMMA FailsafeRemembers ==
    ASSUME IInv, Remembered, NEW th \in Tasks \cup Bins, FailsafeFinalize(th)
    PROVE  Remembered'
<1>1. /\ UNCHANGED <<phase, diskTasks, parked, binToMarker>>
      /\ Submit("failsafe", th, "dropped", FALSE, {})
      /\ DoStuff(tasksToPlan, prioritized, pendingPlanWrites, wakeLock, timer)
  BY DEF FailsafeFinalize, disk, JobEnds
<1>2. tasksToPlan \in Seq(Tasks) /\ TypeInv /\ binToMarker' \in SUBSET Bins
  BY <1>1 DEF IInv, TypeInv, TypeOK
<1>3. phase = "up" /\ \A x : Working(x) <=> x = th
  <2>1. "plan" \in {"plan", "exec"} /\ "exec" \in {"plan", "exec"}
    OBVIOUS
  <2> QED BY <2>1, RunningHasNoFinish DEF FailsafeFinalize
<1>4. Minds(tasksToPlan)
  BY <1>1, <1>2, StuffMinds
<1>5. \A x : Planning(x) => x = th
  BY <1>3 DEF Planning
<1>6. /\ "failsafe" \in {"add", "finish", "failsafe"} /\ FALSE \in BOOLEAN
      /\ "dropped" \in {"planned", "covered", "done", "dropped"} /\ "dropped" # "covered"
      /\ th \in Tasks \cup Bins \cup {NoThing} /\ {} \in SUBSET Tasks
  OBVIOUS
<1>7. \A x : Ending(x, txns') <=> Ending(x, txns) \/ th = x
  BY <1>1, <1>2, <1>6, Submitted
<1> QED BY <1>1, <1>3, <1>4, <1>5, <1>7, RememberedMoves

\* A commit that enqueues what it brings.  Its thing has no record any more.
LEMMA CommitRemembers ==
    ASSUME IInv, Remembered, txns # << >>, txns' = Tail(txns), Apply(Head(txns)),
           phase' = phase, parked' = parked, NEW q, Minds(q),
           \A x : Seen(x, tasksToPlan) \/ x \in Head(txns).new => Seen(x, q),
           \A x : Planning(x) => Planning(x)'
    PROVE  Remembered'
<1>1. txns \in Seq(Txn)
  BY DEF IInv, TypeInv, TypeOK
<1>2. \A th : Ending(th, txns) <=> Head(txns).thing = th \/ Ending(th, txns')
  BY <1>1, TxnsTail
<1>3. phase \in {"restoring", "up"}
  BY Arriving
<1>4. \A t \in Tasks : diskTasks'[t] = "raw" =>
        t \in Head(txns).new \/ (diskTasks[t] = "raw" /\ t # Head(txns).thing)
  BY DEF Apply
<1>5. \A t \in Tasks : diskTasks'[t] = "raw" =>
        \/ Seen(t, q)
        \/ /\ diskTasks[t] = "raw"
           /\ Planning(t) => Planning(t)' \/ Ending(t, txns') \/ t \in parked'
           /\ Ending(t, txns) => Ending(t, txns') \/ t \in parked'
           /\ t \in parked => t \in parked'
  BY <1>2, <1>4
<1> QED BY <1>3, <1>5, RememberedMoves

\* The plan queue extended by an order of what a transaction brings.
LEMMA QueueExtends ==
    ASSUME IInv, NEW new \in SUBSET Tasks, NEW order \in SetToSeqs(new)
    PROVE  /\ tasksToPlan \o order \in Seq(Tasks)
           /\ \A x : Seen(x, tasksToPlan) \/ x \in new => Seen(x, tasksToPlan \o order)
<1>1. tasksToPlan \in Seq(Tasks) /\ order \in Seq(Tasks)
  BY OrderFacts DEF IInv, TypeInv, TypeOK
<1>2. \A x : Seen(x, tasksToPlan \o order) <=> Seen(x, tasksToPlan) \/ Seen(x, order)
  BY <1>1, SeenConcat
<1> QED BY <1>1, <1>2, OrderIsComplete

LEMMA AddCommitsRemembers == ASSUME IInv, Remembered, AddCommits PROVE Remembered'
<1>1. /\ txns # << >> /\ txns' = Tail(txns) /\ Apply(Head(txns))
      /\ UNCHANGED <<phase, parked>>
  BY DEF AddCommits, NextTxn
<1>2. PICK order \in SetToSeqs(Head(txns).new) :
        MaybeDoStuff(tasksToPlan \o order, prioritized, pendingPlanWrites - 1, TRUE, timer)
  BY DEF AddCommits
<1> DEFINE q == tasksToPlan \o order
<1>3. Head(txns).new \in SUBSET Tasks
  BY <1>1, Arriving
<1>4. q \in Seq(Tasks) /\ \A x : Seen(x, tasksToPlan) \/ x \in Head(txns).new => Seen(x, q)
  BY <1>3, QueueExtends
<1>5. MaybeDoStuff(q, prioritized, pendingPlanWrites - 1, TRUE, timer)
  BY <1>2
<1> HIDE DEF q
<1>6. KeepsAll(q)
  BY <1>4, <1>5, MaybeMinds
<1> QED BY <1>1, <1>4, <1>6, CommitRemembers DEF KeepsAll

\* The job whose transaction is answered is not planning any more.
LEMMA NobodyPlans ==
    ASSUME IInv, txns # << >>, Head(txns).kind = "finish"
    PROVE  \A x : ~Planning(x)
<1>1. txns \in Seq(Txn)
  BY DEF IInv, TypeInv, TypeOK
<1>2. ~NoFinish(txns)
  BY <1>1, TxnsTail
<1> QED BY <1>2 DEF IInv, InFlight, Planning, Working

LEMMA FinishCommitsRemembers == ASSUME IInv, Remembered, FinishCommits PROVE Remembered'
<1>1. /\ txns # << >> /\ txns' = Tail(txns) /\ Apply(Head(txns))
      /\ Head(txns).kind = "finish" /\ UNCHANGED <<phase, parked>>
  BY DEF FinishCommits, NextTxn
<1>2. PICK order \in SetToSeqs(Head(txns).new) :
        JobEnds(tasksToPlan \o order, wakeLock \/ Head(txns).new # {})
  BY DEF FinishCommits
<1> DEFINE q == tasksToPlan \o order
<1>3. Head(txns).new \in SUBSET Tasks
  BY <1>1, Arriving
<1>4. q \in Seq(Tasks) /\ \A x : Seen(x, tasksToPlan) \/ x \in Head(txns).new => Seen(x, q)
  BY <1>3, QueueExtends
<1>5. \E lock : DoStuff(q, prioritized, pendingPlanWrites, lock, timer)
  BY <1>2 DEF JobEnds
<1> HIDE DEF q
<1>6. Minds(q)
  BY <1>4, <1>5, StuffMinds
<1>7. \A x : ~Planning(x)
  BY <1>1, NobodyPlans
<1> QED BY <1>1, <1>4, <1>6, <1>7, CommitRemembers

LEMMA FailsafeCommitsRemembers ==
    ASSUME IInv, FailsafesBringNothing, Remembered, FailsafeCommits PROVE Remembered'
<1>1. /\ txns # << >> /\ txns' = Tail(txns) /\ Apply(Head(txns))
      /\ Head(txns).kind = "failsafe"
      /\ UNCHANGED <<phase, parked, tasksToPlan, active>>
  BY DEF FailsafeCommits, NextTxn
<1>2. Head(txns).new = {}
  <2>1. txns \in Seq(Txn)
    BY DEF IInv, TypeInv, TypeOK
  <2>2. Head(txns) = txns[1] /\ 1 \in 1..Len(txns)
    BY <1>1, <2>1
  <2> QED BY <1>1, <2>2 DEF FailsafesBringNothing
<1>3. Minds(tasksToPlan) /\ \A x : Planning(x) => Planning(x)'
  BY <1>1 DEF Minds, Planning, Working
<1>4. \A x : Seen(x, tasksToPlan) \/ x \in Head(txns).new => Seen(x, tasksToPlan)
  BY <1>2
<1> QED BY <1>1, <1>3, <1>4, CommitRemembers

LEMMA AbortsRemembers ==
    ASSUME IInv, Remembered, NEW announced \in BOOLEAN, Aborts(announced)
    PROVE  Remembered'
<1>1. /\ txns # << >> /\ txns' = Tail(txns) /\ UNCHANGED <<phase, diskTasks>>
      /\ parked' = parked \cup ({Head(txns).thing} \cap Tasks)
  BY DEF Aborts, disk
<1>2. txns \in Seq(Txn) /\ tasksToPlan \in Seq(Tasks)
  BY DEF IInv, TypeInv, TypeOK
<1>3. \A th : Ending(th, txns) <=> Head(txns).thing = th \/ Ending(th, txns')
  BY <1>1, <1>2, TxnsTail
<1>4. phase \in {"restoring", "up"}
  BY <1>1, Arriving
<1>5. Minds(tasksToPlan) /\ \A x : Planning(x) => Planning(x)'
  <2>1. CASE Head(txns).kind = "finish" /\ announced
    <3>1. DoStuff(tasksToPlan, prioritized, pendingPlanWrites, wakeLock, timer)
      BY <2>1 DEF Aborts, JobEnds
    <3> QED BY <1>1, <1>2, <2>1, <3>1, StuffMinds, NobodyPlans
  <2>2. CASE ~(Head(txns).kind = "finish" /\ announced)
    <3>1. UNCHANGED <<tasksToPlan, active>>
      BY <2>2 DEF Aborts
    <3> QED BY <3>1 DEF Minds, Planning, Working
  <2> QED BY <2>1, <2>2
<1>6. \A t \in Tasks : Ending(t, txns) => Ending(t, txns') \/ t \in parked'
  BY <1>1, <1>3
<1> QED BY <1>1, <1>4, <1>5, <1>6, RememberedMoves

LEMMA TimerRemembers == ASSUME IInv, Remembered, TimerFires PROVE Remembered'
<1>1. /\ UNCHANGED <<phase, diskTasks, txns, parked>>
      /\ MaybeDoStuff(tasksToPlan, prioritized, pendingPlanWrites, wakeLock, FALSE)
  BY DEF TimerFires, disk, hist
<1>2. tasksToPlan \in Seq(Tasks)
  BY DEF IInv, TypeInv, TypeOK
<1>3. KeepsAll(tasksToPlan)
  BY <1>1, <1>2, MaybeMinds
<1>4. CASE phase \in {"restoring", "up"}
  BY <1>1, <1>3, <1>4, RememberedMoves DEF KeepsAll
<1>5. CASE phase \notin {"restoring", "up"}
  BY <1>1, <1>5 DEF Remembered
<1> QED BY <1>4, <1>5

LEMMA RememberedStep ==
    IInv /\ FailsafesBringNothing /\ Remembered /\ [Next]_vars => Remembered'
<1> SUFFICES ASSUME IInv, FailsafesBringNothing, Remembered, [Next]_vars
             PROVE  Remembered'
  OBVIOUS
<1>1. CASE UNCHANGED vars
  BY <1>1 DEF vars, disk, hist, Remembered, Minded, Planning, Working
<1>2. CASE Boot \/ Crash
  BY <1>2 DEF Boot, Crash, Remembered
<1>3. ASSUME NEW r, ResourceAvailable(r) \/ ResourceNoLongerAvailable(r) PROVE Remembered'
  BY <1>3 DEF ResourceAvailable, ResourceNoLongerAvailable, disk, hist, Remembered, Minded,
     Planning, Working
<1>4. CASE JobFails
  BY <1>4, PlanSimpleFailsRemembers, FailsafeRemembers DEF JobFails
<1> QED BY <1>1, <1>2, <1>3, <1>4, LoadTasksRemembers, RestoreRemembers, ScheduleRemembers,
           NonPersistentRemembers, JobFinishesRemembers, AddCommitsRemembers,
           FinishCommitsRemembers, FailsafeCommitsRemembers, AbortsRemembers,
           TimerRemembers DEF Next

LEMMA RememberedImplies == TypeInv /\ Remembered => NoRawForgotten
<1>1. \A t : Planning(t) => Working(t)
  BY DEF Planning
<1>2. \A t : (Queued(t) <=> Seen(t, tasksToPlan)) /\ (Finishing(t) <=> Ending(t, txns))
  BY DEF Queued, Seen, Finishing, Ending
<1> QED BY <1>1, <1>2 DEF NoRawForgotten, TypeInv, Remembered, Minded

\* In a process that is up every raw record of TBL_TASKS is the business of
\* somebody: it waits in _tasksToPlan, is being planned, has a transaction on
\* its way that deletes it, or was given up on until the next boot.
THEOREM NoRawForgottenHolds == Spec => []NoRawForgotten
<1>1. IInv => TypeInv
  BY DEF IInv
<1> QED BY <1>1, RememberedImplies, IInvInit, IInvStep, ExhaustedInit, FailsafesStep,
           RememberedInit, RememberedStep, PTL DEF Spec

-----------------------------------------------------------------------------
(* The queue of transactions, element by element. *)

\* One is added at the end ...
LEMMA SubmitAdds ==
    ASSUME TypeInv, NEW kind, NEW thing, NEW result, NEW saves, NEW new,
           Submit(kind, thing, result, saves, new)
    PROVE  /\ txns'[Len(txns) + 1].kind = kind /\ txns'[Len(txns) + 1].thing = thing
           /\ txns'[Len(txns) + 1].result = result
           /\ txns'[Len(txns) + 1].saves = saves
           /\ saves => txns'[Len(txns) + 1].bins = binToMarker'
           /\ \A i \in 1..Len(txns) : txns'[i] = txns[i]
           /\ \A i : i \in 1..Len(txns') <=> i \in 1..Len(txns) \/ i = Len(txns) + 1
<1> DEFINE x == [kind |-> kind, thing |-> thing, result |-> result, saves |-> saves,
                 new |-> new, bins |-> IF saves THEN binToMarker' ELSE {}]
<1>1. txns' = Append(txns, x)
  BY DEF Submit
<1>2. /\ x.kind = kind /\ x.thing = thing /\ x.result = result
      /\ x.saves = saves /\ (saves => x.bins = binToMarker')
  OBVIOUS
<1> HIDE DEF x
<1>3. txns \in Seq(Txn)
  BY DEF TypeInv, TypeOK
<1>4. /\ Len(txns) \in Nat /\ Len(txns') = Len(txns) + 1 /\ txns'[Len(txns) + 1] = x
      /\ \A i \in 1..Len(txns) : txns'[i] = txns[i]
  BY <1>1, <1>3
<1>5. \A i : i \in 1..(Len(txns) + 1) <=> i \in 1..Len(txns) \/ i = Len(txns) + 1
  BY <1>4
<1> QED BY <1>2, <1>4, <1>5

\* ... and the oldest is taken away.
LEMMA AnswerTakes ==
    ASSUME TypeInv, txns # << >>, txns' = Tail(txns)
    PROVE  /\ Head(txns) = txns[1] /\ 1 \in 1..Len(txns) /\ Head(txns) \in Txn
           /\ \A i \in 1..Len(txns') : txns'[i] = txns[i + 1] /\ i + 1 \in 1..Len(txns)
           /\ \A i \in 1..Len(txns) : i = 1 \/ \E j \in 1..Len(txns') : txns'[j] = txns[i]
<1>1. txns \in Seq(Txn)
  BY DEF TypeInv, TypeOK
<1>2. /\ Len(txns) \in Nat \ {0} /\ Len(txns') = Len(txns) - 1 /\ Head(txns) = txns[1]
      /\ \A i \in 1..Len(txns') : txns'[i] = txns[i + 1]
  BY <1>1
<1>3. ASSUME NEW i \in 1..Len(txns), i # 1
      PROVE  i - 1 \in 1..Len(txns') /\ txns'[i - 1] = txns[i]
  BY <1>2, <1>3
<1>4. Head(txns) \in Txn
  BY <1>1
<1>5. 1 \in 1..Len(txns) /\ \A i \in 1..Len(txns') : i + 1 \in 1..Len(txns)
  BY <1>2
<1> QED BY <1>2, <1>3, <1>4, <1>5

-----------------------------------------------------------------------------
(* Records and fates. *)

\* The raw records are those of the accepted tasks that were not planned.
Recorded == \A t \in Tasks : fate[t] = "accepted" <=> diskTasks[t] = "raw"

LEMMA RecordedInit == Init => Recorded
BY DEF Init, Recorded

\* Tasks that are issued have no record yet.
LEMMA IssueRecorded ==
    ASSUME Recorded, NEW new, Issue(new), \A t \in new : fate[t] = "unborn",
           diskTasks' = diskTasks
    PROVE  Recorded'
BY DEF Issue, Recorded

LEMMA ApplyRecorded ==
    ASSUME TypeInv, Recorded, NEW x \in Txn, Apply(x) PROVE Recorded'
<1>1. x.result \in {"planned", "covered", "done", "dropped"}
  BY DEF Txn
<1>2. ASSUME NEW t \in Tasks
      PROVE  /\ diskTasks'[t] = IF t \in x.new THEN "raw"
                                ELSE IF t = x.thing THEN "absent" ELSE diskTasks[t]
             /\ fate'[t] = IF t \in x.new THEN "accepted"
                           ELSE IF t = x.thing THEN x.result ELSE fate[t]
  BY DEF Apply
<1> QED BY <1>1, <1>2 DEF Recorded

LEMMA RecordedStep == IInv /\ Recorded /\ [Next]_vars => Recorded'
<1> SUFFICES ASSUME IInv, Recorded, [Next]_vars PROVE Recorded'
  OBVIOUS
<1>1. TypeInv
  BY DEF IInv
<1>2. ASSUME UNCHANGED <<fate, diskTasks>> PROVE Recorded'
  BY <1>2 DEF Recorded
<1>3. CASE UNCHANGED vars \/ Boot \/ LoadTasks \/ RestoreComplex \/ Crash \/ TimerFires
  BY <1>2, <1>3 DEF vars, disk, hist, Boot, LoadTasks, RestoreComplex, Crash, TimerFires
<1>4. ASSUME NEW new \in Batches, Schedule(new) PROVE Recorded'
  BY <1>4, IssueRecorded DEF Schedule, Batches, disk
<1>5. ASSUME NEW t \in NonPersistent, ScheduleNonPersistent(t) PROVE Recorded'
  <2>1. \A x \in {t} : fate[x] = "unborn"
    BY <1>5 DEF ScheduleNonPersistent
  <2> QED BY <1>5, <2>1, IssueRecorded DEF ScheduleNonPersistent, disk
<1>6. CASE JobFinishes
  <2>1. Finishes
    BY <1>1, <1>6, JobFinishesFacts
  <2>2. PICK new \in Batches : Issue(new) /\ diskTasks' = diskTasks
    BY <2>1 DEF Finishes, FinishTask, disk
  <2> QED BY <2>2, IssueRecorded DEF Batches
<1>7. CASE JobFails
  BY <1>2, <1>7 DEF JobFails, PlanSimpleFails, FailsafeFinalize, disk
<1>8. CASE AddCommits \/ FinishCommits \/ FailsafeCommits
  <2>1. txns # << >> /\ txns' = Tail(txns) /\ Apply(Head(txns))
    BY <1>8 DEF AddCommits, FinishCommits, FailsafeCommits, NextTxn
  <2>2. Head(txns) \in Txn
    BY <1>1, <2>1, AnswerTakes
  <2> QED BY <1>1, <2>1, <2>2, ApplyRecorded
<1>9. ASSUME NEW announced, Aborts(announced) PROVE Recorded'
  BY <1>2, <1>9 DEF Aborts, disk
<1>10. ASSUME NEW r, ResourceAvailable(r) \/ ResourceNoLongerAvailable(r) PROVE Recorded'
  BY <1>2, <1>10 DEF ResourceAvailable, ResourceNoLongerAvailable, disk, hist
<1> QED BY <1>3, <1>4, <1>5, <1>6, <1>7, <1>8, <1>9, <1>10 DEF Next

-----------------------------------------------------------------------------
(* Plan, then execution. *)

Starting(th) == Executing(th) /\ active.stage = "run"
ToRun(th) == th \in prioritized \/ Starting(th)

\* The transactions that the plan of t waits for, and those that say otherwise.
PlanKept(t, s) ==
    \E i \in 1..Len(s) : s[i].thing = t /\ s[i].kind = "finish" /\ s[i].result = "planned"
PlansOnly(t, s) == \A i \in 1..Len(s) : s[i].thing = t => s[i].result = "planned"

\* A task that is ready to execute or starts to was planned, durably or in the
\* transaction of the job that still waits for it.
InOrder ==
    \A t \in Persistent : ToRun(t) =>
        (fate[t] = "planned" \/ PlanKept(t, txns)) /\ PlansOnly(t, txns)

LEMMA InOrderInit == Init => InOrder
<1>1. ASSUME Init, NEW t PROVE ~ToRun(t)
  BY <1>1 DEF Init, ToRun, Starting, Executing, Working
<1> QED BY <1>1 DEF InOrder

\* What may start is what _maybeDoStuff was given as ready.
LEMMA StuffStarts ==
    ASSUME NEW q, NEW ready, NEW pending, NEW lock, NEW again,
           DoStuff(q, ready, pending, lock, again)
    PROVE  \A th : ToRun(th)' => th \in ready
<1>1. CASE PlanNext(q, ready, lock, again)
  <2>1. prioritized' = ready /\ active'.mode = "plan"
    BY <1>1 DEF PlanNext
  <2> QED BY <2>1 DEF ToRun, Starting, Executing
<1>2. CASE PlanMoot(q, ready, lock, again) \/ NothingToDo(q, ready, pending, again)
  BY <1>2 DEF PlanMoot, NothingToDo, ToRun, Starting, Executing, Working
<1>3. CASE ExecuteNext(q, ready, lock, again)
  <2>1. \E th \in ready : active'.thing = th /\ prioritized' = ready \ {th}
    BY <1>3 DEF ExecuteNext
  <2> QED BY <2>1 DEF ToRun, Starting, Executing, Working
<1> QED BY <1>1, <1>2, <1>3 DEF DoStuff

LEMMA MaybeStarts ==
    ASSUME NEW q, NEW pending, NEW lock, NEW again,
           MaybeDoStuff(q, prioritized, pending, lock, again)
    PROVE  \A th : ToRun(th)' => ToRun(th)
<1>1. CASE Busy
  BY <1>1 DEF MaybeDoStuff, ToRun, Starting, Executing, Working
<1>2. CASE ~Busy
  BY <1>2, StuffStarts DEF MaybeDoStuff, ToRun
<1> QED BY <1>1, <1>2

LEMMA PersistentFacts ==
    ASSUME NEW t \in Persistent PROVE t \in Tasks /\ t \notin Bins /\ t # NoThing
BY TaskManagerAssumption DEF Persistent, Tasks

\* Steps after which less is to run, and nothing is heard of what is.
LEMMA OrderMoves ==
    ASSUME InOrder, txns' = txns,
           \A t \in Persistent : ToRun(t)' => ToRun(t) /\ fate'[t] = fate[t]
    PROVE  InOrder'
BY DEF InOrder

\* The task of the job that runs is not ready, nor being finished.
LEMMA RunningIsNotReady ==
    ASSUME IInv, Recorded, InOrder, NEW t \in Persistent,
           NEW mode \in {"plan", "exec"}, Running(mode, t)
    PROVE  t \notin prioritized
<1>1. t \in Tasks /\ t \in Tasks \cup Bins
  BY PersistentFacts
<1>2. active # NoJob /\ active.thing = t /\ active.mode = mode /\ active.stage = "run"
  BY <1>1, RunningJob
<1>3. CASE mode = "exec"
  <2>1. Executing(t)
    BY <1>2, <1>3 DEF Executing, Working
  <2>2. prioritized \subseteq Things
    BY DEF IInv, TypeInv, TypeOK
  <2> QED BY <2>1, <2>2 DEF IInv, Apart
<1>4. CASE mode = "plan"
  <2>1. Planning(t)
    BY <1>2, <1>4 DEF Planning, Working
  <2>2. diskTasks[t] = "raw" /\ ~Ending(t, txns)
    BY <1>1, <2>1 DEF IInv, Homes, Home, Persistent
  <2>3. fate[t] = "accepted"
    BY <1>1, <2>2 DEF Recorded
  <2>4. ~PlanKept(t, txns)
    BY <2>2 DEF PlanKept, Ending
  <2> QED BY <2>3, <2>4 DEF InOrder, ToRun
<1> QED BY <1>3, <1>4

LEMMA InOrderBoot ==
    ASSUME IInv, InOrder, Boot \/ LoadTasks \/ RestoreComplex PROVE InOrder'
<1>1. txns' = txns /\ fate' = fate
  BY DEF Boot, LoadTasks, RestoreComplex, hist
<1>2. CASE Boot
  BY <1>1, <1>2, OrderMoves DEF Boot, ToRun, Starting, Executing, Working
<1>3. CASE LoadTasks
  <2> DEFINE things == {t \in Simple : diskTasks[t] = "planned"}
  <2>1. things = {}
    BY DEF IInv, Homes, Home, Tasks
  <2>2. prioritized' = Relayed(things, available) /\ active' = active
    BY <1>3 DEF LoadTasks, OwnOrRelay
  <2> HIDE DEF things
  <2>3. \A th : th \in prioritized' => th \in prioritized
    BY <2>1, <2>2 DEF Relayed
  <2> QED BY <1>1, <2>2, <2>3, OrderMoves DEF ToRun, Starting, Executing, Working
<1>4. CASE RestoreComplex
  <2> DEFINE ready == Relayed(StoredMarkers, available)
  <2>1. DoStuff(tasksToPlan, ready, pendingPlanWrites, wakeLock, timer)
    BY <1>4 DEF RestoreComplex
  <2>2. StoredMarkers \subseteq Bins
    BY DEF IInv, TypeInv, TypeOK, StoredMarkers
  <2>3. \A t \in Persistent : t \in ready => t \in prioritized
    BY <2>2, PersistentFacts DEF Relayed
  <2> HIDE DEF ready
  <2>4. \A t \in Persistent : ToRun(t)' => ToRun(t)
    BY <2>1, <2>3, StuffStarts DEF ToRun
  <2> QED BY <1>1, <2>4, OrderMoves
<1> QED BY <1>2, <1>3, <1>4

LEMMA InOrderSchedule ==
    ASSUME IInv, InOrder, NEW new \in Batches, Schedule(new) PROVE InOrder'
<1>1. /\ Issue(new) /\ Submit("add", NoThing, "done", FALSE, new)
      /\ UNCHANGED <<prioritized, active>> /\ TypeInv
  BY DEF Schedule, IInv
<1>2. /\ txns'[Len(txns) + 1].kind = "add" /\ txns'[Len(txns) + 1].thing = NoThing
      /\ \A i \in 1..Len(txns) : txns'[i] = txns[i]
      /\ \A i : i \in 1..Len(txns') <=> i \in 1..Len(txns) \/ i = Len(txns) + 1
  BY <1>1, SubmitAdds
<1> SUFFICES ASSUME NEW t \in Persistent, ToRun(t)'
             PROVE  (fate'[t] = "planned" \/ PlanKept(t, txns')) /\ PlansOnly(t, txns')
  BY DEF InOrder
<1>3. t \in Tasks /\ t # NoThing
  BY PersistentFacts
<1>4. ToRun(t)
  BY <1>1 DEF ToRun, Starting, Executing, Working
<1>5. t \notin new
  BY <1>4, BatchUnborn DEF ToRun, Starting, Executing
<1>6. fate'[t] = fate[t]
  BY <1>1, <1>3, <1>5 DEF Issue
<1>7. (fate[t] = "planned" \/ PlanKept(t, txns)) /\ PlansOnly(t, txns)
  BY <1>4 DEF InOrder
<1>8. PlansOnly(t, txns')
  BY <1>2, <1>3, <1>7 DEF PlansOnly
<1>9. PlanKept(t, txns) => PlanKept(t, txns')
  BY <1>2 DEF PlanKept
<1> QED BY <1>6, <1>7, <1>8, <1>9

LEMMA InOrderFinishes == ASSUME IInv, Recorded, InOrder, JobFinishes PROVE InOrder'
<1> SUFFICES ASSUME NEW t \in Persistent, ToRun(t)'
             PROVE  (fate'[t] = "planned" \/ PlanKept(t, txns')) /\ PlansOnly(t, txns')
  BY DEF InOrder
<1>1. PICK mode \in {"plan", "exec"}, th \in Tasks \cup Bins,
           result \in {"planned", "covered", "done"}, saves \in BOOLEAN, new \in Batches :
        /\ Running(mode, th) /\ FinishTask(th, result, saves, new)
  BY JobFinishesFacts DEF IInv, Finishes
<1>2. /\ Issue(new) /\ Submit("finish", th, result, saves, new) /\ TypeInv
      /\ active' = [active EXCEPT !.stage = "commit"]
  BY <1>1 DEF FinishTask, IInv
<1>3. /\ txns'[Len(txns) + 1].kind = "finish" /\ txns'[Len(txns) + 1].thing = th
      /\ \A i \in 1..Len(txns) : txns'[i] = txns[i]
      /\ \A i : i \in 1..Len(txns') <=> i \in 1..Len(txns) \/ i = Len(txns) + 1
  BY <1>2, SubmitAdds
<1>4. t \in Tasks
  BY PersistentFacts
<1>5. active \in Job /\ active.thing = th /\ active.mode = mode
  BY <1>1, RunningJob
<1>6. t \in prioritized'
  <2>1. active'.stage = "commit"
    BY <1>2, <1>5 DEF Job
  <2> QED BY <2>1 DEF ToRun, Starting
<1>7. t \in prioritized \/ PlanSimple(t, new) \/ \E m \in Batches : PlanSimple(t, m)
  <2>1. ASSUME NEW u \in Tasks, NEW m \in Batches, PlanSimple(u, m) PROVE t \in prioritized \/ t = u
    BY <1>6, <2>1 DEF PlanSimple, OwnOrRelay, Relayed
  <2>2. ASSUME NEW u \in Complex, NEW m \in Batches, PlanMarker(u, m) PROVE t \in prioritized
    <3>1. BinOf[u] \in Bins
      BY TaskManagerAssumption
    <3> QED BY <1>6, <2>2, <3>1, PersistentFacts DEF PlanMarker, OwnOrRelay, Relayed
  <2>3. ASSUME prioritized' = prioritized PROVE t \in prioritized
    BY <1>6, <2>3
  <2> QED BY <2>1, <2>2, <2>3 DEF JobFinishes, PlanMarker, PlanConcludes, PlanAbsorbed,
             ExecuteSimple, ExecuteMarker
<1>8. CASE t \in prioritized
  <2>1. t # th
    BY <1>1, <1>8, RunningIsNotReady
  <2>2. t \notin new
    BY <1>8, BatchUnborn
  <2>3. (fate[t] = "planned" \/ PlanKept(t, txns)) /\ PlansOnly(t, txns)
    BY <1>8 DEF InOrder, ToRun
  <2>4. fate'[t] = fate[t]
    BY <1>2, <1>4, <2>2 DEF Issue
  <2>5. PlansOnly(t, txns') /\ (PlanKept(t, txns) => PlanKept(t, txns'))
    BY <1>3, <2>1, <2>3 DEF PlansOnly, PlanKept
  <2> QED BY <2>3, <2>4, <2>5
<1>9. ASSUME NEW m \in Batches, PlanSimple(t, m) PROVE PlanKept(t, txns') /\ PlansOnly(t, txns')
  <2>1. Running("plan", t) /\ Submit("finish", t, "planned", FALSE, m)
    BY <1>9 DEF PlanSimple, FinishTask
  <2>2. /\ txns'[Len(txns) + 1].kind = "finish" /\ txns'[Len(txns) + 1].thing = t
        /\ txns'[Len(txns) + 1].result = "planned"
        /\ \A i \in 1..Len(txns) : txns'[i] = txns[i]
        /\ \A i : i \in 1..Len(txns') <=> i \in 1..Len(txns) \/ i = Len(txns) + 1
    BY <1>2, <2>1, SubmitAdds
  <2>3. PlanKept(t, txns')
    BY <2>2 DEF PlanKept
  <2>4. ~Ending(t, txns)
    <3>1. "plan" \in {"plan", "exec"} /\ t \in Tasks \cup Bins
      BY <1>4
    <3>2. Planning(t)
      BY <2>1, <3>1, RunningJob DEF Planning, Working
    <3> QED BY <1>4, <3>2 DEF IInv, Homes, Home
  <2>5. PlansOnly(t, txns')
    BY <2>2, <2>4 DEF PlansOnly, Ending
  <2> QED BY <2>3, <2>5
<1> QED BY <1>7, <1>8, <1>9

LEMMA InOrderFails == ASSUME IInv, Recorded, InOrder, JobFails PROVE InOrder'
<1>1. fate' = fate /\ JobEnds(tasksToPlan, wakeLock)
  BY DEF JobFails, PlanSimpleFails, FailsafeFinalize
<1>2. \A t : ToRun(t)' => t \in prioritized
  BY <1>1, StuffStarts DEF JobEnds
<1>3. ASSUME NEW u \in Simple, PlanSimpleFails(u) PROVE InOrder'
  BY <1>1, <1>2, <1>3, OrderMoves DEF PlanSimpleFails, ToRun
<1>4. ASSUME NEW th \in Tasks \cup Bins, FailsafeFinalize(th) PROVE InOrder'
  <2> SUFFICES ASSUME NEW t \in Persistent, ToRun(t)'
               PROVE  (fate'[t] = "planned" \/ PlanKept(t, txns')) /\ PlansOnly(t, txns')
    BY DEF InOrder
  <2>1. Submit("failsafe", th, "dropped", FALSE, {}) /\ TypeInv
    BY <1>4 DEF FailsafeFinalize, IInv
  <2>2. /\ txns'[Len(txns) + 1].thing = th
        /\ \A i \in 1..Len(txns) : txns'[i] = txns[i]
        /\ \A i : i \in 1..Len(txns') <=> i \in 1..Len(txns) \/ i = Len(txns) + 1
    BY <2>1, SubmitAdds
  <2>3. t \in prioritized
    BY <1>2
  <2>4. t # th
    <3>1. "plan" \in {"plan", "exec"} /\ "exec" \in {"plan", "exec"}
      OBVIOUS
    <3> QED BY <1>4, <2>3, <3>1, RunningIsNotReady DEF FailsafeFinalize
  <2>5. (fate[t] = "planned" \/ PlanKept(t, txns)) /\ PlansOnly(t, txns)
    BY <2>3 DEF InOrder, ToRun
  <2>6. PlansOnly(t, txns') /\ (PlanKept(t, txns) => PlanKept(t, txns'))
    BY <2>2, <2>4, <2>5 DEF PlansOnly, PlanKept
  <2> QED BY <1>1, <2>5, <2>6
<1> QED BY <1>3, <1>4 DEF JobFails

\* A commit makes the plan of its task durable.
LEMMA InOrderCommits ==
    ASSUME IInv, InOrder, AddCommits \/ FinishCommits \/ FailsafeCommits PROVE InOrder'
<1>1. txns # << >> /\ txns' = Tail(txns) /\ Apply(Head(txns)) /\ TypeInv
  BY DEF AddCommits, FinishCommits, FailsafeCommits, NextTxn, IInv
<1>2. /\ Head(txns) = txns[1] /\ 1 \in 1..Len(txns) /\ Head(txns) \in Txn
      /\ \A i \in 1..Len(txns') : txns'[i] = txns[i + 1] /\ i + 1 \in 1..Len(txns)
      /\ \A i \in 1..Len(txns) : i = 1 \/ \E j \in 1..Len(txns') : txns'[j] = txns[i]
  BY <1>1, AnswerTakes
<1>3. \A t \in Head(txns).new : t \notin prioritized /\ ~Working(t)
  BY <1>1, Arriving
<1>4. \A t : ToRun(t)' => ToRun(t)
  <2>1. CASE AddCommits
    <3>1. \E q, pending, lock, again : MaybeDoStuff(q, prioritized, pending, lock, again)
      BY <2>1 DEF AddCommits
    <3> QED BY <3>1, MaybeStarts
  <2>2. CASE FinishCommits
    <3>1. \E q, lock : JobEnds(q, lock)
      BY <2>2 DEF FinishCommits
    <3>2. \E q, pending, lock, again : DoStuff(q, prioritized, pending, lock, again)
      BY <3>1 DEF JobEnds
    <3> QED BY <3>2, StuffStarts DEF ToRun
  <2>3. CASE FailsafeCommits
    BY <2>3 DEF FailsafeCommits, ToRun, Starting, Executing, Working
  <2> QED BY <2>1, <2>2, <2>3
<1> SUFFICES ASSUME NEW t \in Persistent, ToRun(t)'
             PROVE  (fate'[t] = "planned" \/ PlanKept(t, txns')) /\ PlansOnly(t, txns')
  BY DEF InOrder
<1>5. ToRun(t) /\ t \in Tasks
  BY <1>4, PersistentFacts
<1>6. t \notin Head(txns).new
  BY <1>3, <1>5 DEF ToRun, Starting, Executing
<1>7. (fate[t] = "planned" \/ PlanKept(t, txns)) /\ PlansOnly(t, txns)
  BY <1>5 DEF InOrder
<1>8. fate'[t] = IF t = Head(txns).thing THEN Head(txns).result ELSE fate[t]
  BY <1>1, <1>5, <1>6 DEF Apply
<1>9. PlansOnly(t, txns')
  <2> SUFFICES ASSUME NEW i \in 1..Len(txns'), txns'[i].thing = t
               PROVE  txns'[i].result = "planned"
    BY DEF PlansOnly
  <2>1. txns'[i] = txns[i + 1] /\ i + 1 \in 1..Len(txns)
    BY <1>2
  <2>2. txns[i + 1].thing = t
    BY <2>1
  <2>3. txns[i + 1].result = "planned"
    BY <1>7, <2>1, <2>2 DEF PlansOnly
  <2> QED BY <2>1, <2>3
<1>10. CASE t = Head(txns).thing
  <2>1. Head(txns).result = "planned"
    BY <1>2, <1>7, <1>10 DEF PlansOnly
  <2> QED BY <1>8, <1>9, <1>10, <2>1
<1>11. CASE t # Head(txns).thing
  <2>1. PlanKept(t, txns) => PlanKept(t, txns')
    BY <1>2, <1>11 DEF PlanKept
  <2> QED BY <1>7, <1>8, <1>9, <1>11, <2>1
<1> QED BY <1>10, <1>11

\* A database that aborts nothing.
LEMMA NothingAborts ==
    ASSUME MaxAborts = 0, TypeInv, NEW announced PROVE ~Aborts(announced)
<1>1. used["abort"] \in Nat
  BY DEF TypeInv, TypeOK
<1> QED BY <1>1 DEF Aborts

LEMMA InOrderStep ==
    ASSUME MaxAborts = 0
    PROVE  IInv /\ Recorded /\ InOrder /\ [Next]_vars => InOrder'
<1> SUFFICES ASSUME IInv, Recorded, InOrder, [Next]_vars PROVE InOrder'
  OBVIOUS
<1>1. CASE UNCHANGED vars
  BY <1>1, OrderMoves DEF vars, hist, ToRun, Starting, Executing, Working
<1>2. CASE Crash
  <2>1. \A t : ~ToRun(t)'
    BY <1>2 DEF Crash, ToRun, Starting, Executing, Working
  <2> QED BY <2>1 DEF InOrder
<1>3. ASSUME NEW u \in NonPersistent, ScheduleNonPersistent(u) PROVE InOrder'
  <2>1. /\ Issue({u}) /\ txns' = txns
        /\ \E q : MaybeDoStuff(q, prioritized, pendingPlanWrites, TRUE, timer)
    BY <1>3 DEF ScheduleNonPersistent
  <2>2. \A t \in Persistent : fate'[t] = fate[t]
    BY <2>1 DEF Issue, Persistent
  <2> QED BY <2>1, <2>2, MaybeStarts, OrderMoves
<1>4. ASSUME NEW r, ResourceAvailable(r) \/ ResourceNoLongerAvailable(r) PROVE InOrder'
  <2>1. PICK things : things \subseteq Bins /\ prioritized' = Relayed(things, available')
    BY <1>4 DEF ResourceAvailable, ResourceNoLongerAvailable
  <2>2. UNCHANGED <<txns, active, fate>>
    BY <1>4 DEF ResourceAvailable, ResourceNoLongerAvailable, hist
  <2>3. \A t \in Persistent : t \in prioritized' => t \in prioritized
    BY <2>1, PersistentFacts DEF Relayed
  <2> QED BY <2>2, <2>3, OrderMoves DEF ToRun, Starting, Executing, Working
<1>5. CASE TimerFires
  BY <1>5, MaybeStarts, OrderMoves DEF TimerFires, hist
<1>6. ASSUME NEW announced, Aborts(announced) PROVE FALSE
  BY <1>6, NothingAborts DEF IInv
<1> QED BY <1>1, <1>2, <1>3, <1>4, <1>5, <1>6, InOrderBoot, InOrderSchedule,
           InOrderFinishes, InOrderFails, InOrderCommits DEF Next

LEMMA InOrderImplies == IInv /\ Recorded /\ InOrder => RunsInOrder
<1> SUFFICES ASSUME IInv, Recorded, InOrder, NEW t \in Persistent,
                    Working(t), active.stage = "run"
             PROVE  fate[t] = IF active.mode = "plan" THEN "accepted" ELSE "planned"
  BY DEF RunsInOrder
<1>1. active \in Job /\ active.mode \in {"plan", "exec"} /\ t \in Tasks
  BY PersistentFacts DEF IInv, TypeInv, TypeOK, Working, Job
<1>2. CASE active.mode = "plan"
  <2>1. diskTasks[t] = "raw"
    BY <1>1, <1>2 DEF IInv, Homes, Home, Planning, Persistent
  <2> QED BY <1>1, <1>2, <2>1 DEF Recorded
<1>3. CASE active.mode = "exec"
  <2>1. fate[t] = "planned" \/ PlanKept(t, txns)
    BY <1>3 DEF InOrder, ToRun, Starting, Executing
  <2>2. NoFinish(txns)
    BY DEF IInv, InFlight
  <2> QED BY <1>3, <2>1, <2>2 DEF PlanKept, NoFinish
<1> QED BY <1>1, <1>2, <1>3

\* As long as the database aborts nothing: planning starts on a task that was
\* accepted and never planned, and execution on one whose plan has committed,
\* although planTask queues it for execution before that.
THEOREM RunsInOrderHolds == ASSUME MaxAborts = 0 PROVE Spec => []RunsInOrder
<1>1. IInv /\ Recorded /\ InOrder /\ [Next]_vars => InOrder'
  BY InOrderStep
<1> QED BY <1>1, InOrderImplies, IInvInit, IInvStep, RecordedInit, RecordedStep,
           InOrderInit, PTL DEF Spec

-----------------------------------------------------------------------------
(* The stored state of the at-most-once tasks. *)

\* What the transaction of a job promises of the stored bins, once it commits ...
Promises(x) ==
    /\ IF x.saves THEN x.bins = binToMarker ELSE diskBins = binToMarker
    /\ x.result = "covered" => BinOf[x.thing] \in binToMarker
    /\ \A b \in owed : b \in binToMarker \/ (x.result = "done" /\ b = x.thing)

\* ... and the others say nothing of them.
Mute(x) ==
    /\ x.saves = FALSE /\ x.result # "covered"
    /\ x.result = "done" => x.thing \notin Bins

\* Between jobs what is stored is what memory holds, and it holds what is owed.
Saved ==
    /\ \A i \in 1..Len(txns) :
        IF txns[i].kind = "finish" THEN Promises(txns[i]) ELSE Mute(txns[i])
    /\ phase = "up" /\ NoFinish(txns) => diskBins = binToMarker
    /\ owed \subseteq diskBins

LEMMA SavedInit == Init => Saved
BY DEF Init, Saved

\* Steps that leave alone what the stored bins depend on.
LEMMA SavedSame ==
    ASSUME Saved, UNCHANGED <<txns, diskBins, binToMarker, owed>>,
           phase' = phase \/ phase' # "up"
    PROVE  Saved'
BY DEF Saved, Promises

LEMMA RestoreSaved == ASSUME IInv, Saved, RestoreComplex PROVE Saved'
<1>1. /\ binToMarker' = diskBins /\ UNCHANGED <<txns, diskBins, owed>>
      /\ phase = "restoring"
  BY DEF RestoreComplex, StoredMarkers, disk, hist
<1>2. NoFinish(txns)
  BY <1>1 DEF IInv, InFlight, Asleep
<1> QED BY <1>1, <1>2 DEF Saved, NoFinish

\* A transaction that says nothing of the bins is submitted.
LEMMA MuteSubmitted ==
    ASSUME TypeInv, Saved, NEW kind, NEW thing, NEW result, NEW new,
           Submit(kind, thing, result, FALSE, new), kind # "finish", result # "covered",
           result = "done" => thing \notin Bins,
           UNCHANGED <<diskBins, binToMarker, owed, phase>>
    PROVE  Saved'
<1>0. PICK n : n = Len(txns) + 1
  OBVIOUS
<1>1. /\ txns'[n].kind = kind /\ txns'[n].thing = thing /\ txns'[n].result = result
      /\ txns'[n].saves = FALSE
      /\ \A i \in 1..Len(txns) : txns'[i] = txns[i]
      /\ \A i : i \in 1..Len(txns') <=> i \in 1..Len(txns) \/ i = n
  BY <1>0, SubmitAdds
<1>2. Mute(txns'[n])
  BY <1>1 DEF Mute
<1>3. ASSUME NEW i \in 1..Len(txns')
      PROVE  IF txns'[i].kind = "finish" THEN Promises(txns[i])' ELSE Mute(txns'[i])
  <2>1. CASE i = n
    BY <1>1, <1>2, <2>1
  <2>2. CASE i \in 1..Len(txns)
    <3>1. txns'[i] = txns[i]
      BY <1>1, <2>2
    <3>2. IF txns[i].kind = "finish" THEN Promises(txns[i]) ELSE Mute(txns[i])
      BY <2>2 DEF Saved
    <3> QED BY <3>1, <3>2 DEF Promises
  <2> QED BY <1>1, <2>1, <2>2
<1>4. NoFinish(txns') => NoFinish(txns)
  BY <1>1 DEF NoFinish
<1> QED BY <1>3, <1>4 DEF Saved

\* A job asks to be finished: it saves what it made of the bins.
LEMMA FinishSaves ==
    ASSUME IInv, Saved, NEW mode \in {"plan", "exec"}, NEW th \in Tasks \cup Bins,
           Running(mode, th), NEW result, NEW saves \in BOOLEAN, NEW new,
           FinishTask(th, result, saves, new),
           saves \/ binToMarker' = binToMarker,
           result = "covered" => BinOf[th] \in binToMarker',
           \A b \in binToMarker : b \in binToMarker' \/ (result = "done" /\ b = th)
    PROVE  Saved'
<1>0. PICK n : n = Len(txns) + 1
  OBVIOUS
<1>1. /\ UNCHANGED <<diskBins, owed, phase>> /\ TypeInv
      /\ Submit("finish", th, result, saves, new)
  BY DEF FinishTask, disk, IInv
<1>2. /\ txns'[n].kind = "finish" /\ txns'[n].thing = th /\ txns'[n].result = result
      /\ txns'[n].saves = saves /\ (saves => txns'[n].bins = binToMarker')
      /\ \A i \in 1..Len(txns) : txns'[i] = txns[i]
      /\ \A i : i \in 1..Len(txns') <=> i \in 1..Len(txns) \/ i = n
  BY <1>0, <1>1, SubmitAdds
<1>3. NoFinish(txns) /\ phase = "up"
  BY RunningHasNoFinish
<1>4. diskBins = binToMarker /\ owed \subseteq diskBins
  BY <1>3 DEF Saved
<1>5. Promises(txns[n])'
  BY <1>1, <1>2, <1>4 DEF Promises
<1>6. \A i \in 1..Len(txns) : txns[i].kind # "finish" /\ Mute(txns[i])
  BY <1>3 DEF Saved, NoFinish
<1>7. \A i \in 1..Len(txns') :
        IF txns'[i].kind = "finish" THEN Promises(txns[i])' ELSE Mute(txns'[i])
  BY <1>2, <1>5, <1>6
<1>8. ~NoFinish(txns')
  BY <1>2 DEF NoFinish
<1> QED BY <1>1, <1>4, <1>7, <1>8 DEF Saved

LEMMA JobFinishesSaves == ASSUME IInv, Saved, JobFinishes PROVE Saved'
<1>1. ASSUME NEW t \in Tasks, NEW new \in Batches,
             PlanSimple(t, new) \/ PlanConcludes(t, new) \/ PlanMarker(t, new)
             \/ ExecuteSimple(t, new)
      PROVE  Saved'
  <2>1. /\ t \in Tasks \cup Bins /\ "plan" \in {"plan", "exec"} /\ "exec" \in {"plan", "exec"}
        /\ "planned" # "covered" /\ "done" # "covered" /\ TRUE \in BOOLEAN /\ FALSE \in BOOLEAN
    OBVIOUS
  <2>2. CASE PlanSimple(t, new)
    BY <2>1, <2>2, FinishSaves DEF PlanSimple, bins
  <2>3. CASE PlanConcludes(t, new)
    BY <2>1, <2>3, FinishSaves DEF PlanConcludes, bins
  <2>4. CASE PlanMarker(t, new)
    <3>1. /\ binToMarker' = binToMarker \cup {BinOf[t]} /\ Running("plan", t)
          /\ FinishTask(t, "covered", TRUE, new)
      BY <2>4 DEF PlanMarker
    <3> QED BY <2>1, <3>1, FinishSaves
  <2>5. CASE ExecuteSimple(t, new)
    BY <2>1, <2>5, FinishSaves DEF ExecuteSimple, bins
  <2> QED BY <1>1, <2>2, <2>3, <2>4, <2>5
<1>2. ASSUME NEW b \in Bins, NEW new \in Batches, ExecuteMarker(b, new) PROVE Saved'
  <2>1. /\ b \in Tasks \cup Bins /\ "exec" \in {"plan", "exec"}
        /\ "done" # "covered" /\ TRUE \in BOOLEAN
    OBVIOUS
  <2>2. /\ binToMarker' = binToMarker \ {b} /\ Running("exec", b)
        /\ FinishTask(b, "done", TRUE, new)
    BY <1>2 DEF ExecuteMarker
  <2> QED BY <2>1, <2>2, FinishSaves
<1>3. ASSUME NEW t \in Complex, PlanAbsorbed(t) PROVE Saved'
  <2>1. /\ t \in Tasks \cup Bins /\ "plan" \in {"plan", "exec"} /\ FALSE \in BOOLEAN
    BY DEF Tasks
  <2>2. /\ binToMarker' = binToMarker /\ BinOf[t] \in binToMarker /\ Running("plan", t)
        /\ FinishTask(t, "covered", FALSE, {})
    BY <1>3 DEF PlanAbsorbed, bins
  <2> QED BY <2>1, <2>2, FinishSaves
<1> QED BY <1>1, <1>2, <1>3 DEF JobFinishes

LEMMA JobFailsSaved == ASSUME IInv, Saved, JobFails PROVE Saved'
<1>1. ASSUME NEW t \in Simple, PlanSimpleFails(t) PROVE Saved'
  BY <1>1, SavedSame DEF PlanSimpleFails, disk
<1>2. ASSUME NEW th \in Tasks \cup Bins, FailsafeFinalize(th) PROVE Saved'
  <2>1. /\ Submit("failsafe", th, "dropped", FALSE, {}) /\ TypeInv
        /\ UNCHANGED <<diskBins, binToMarker, owed, phase>>
        /\ "failsafe" # "finish" /\ "dropped" # "covered" /\ "dropped" # "done"
    BY <1>2 DEF FailsafeFinalize, disk, IInv
  <2> QED BY <2>1, MuteSubmitted
<1> QED BY <1>1, <1>2 DEF JobFails

\* The transactions behind the one that is answered.
LEMMA RestSaved ==
    ASSUME IInv, Saved, txns # << >>, txns' = Tail(txns), Apply(Head(txns)),
           UNCHANGED <<phase, binToMarker>>
    PROVE  Saved'
<1>1. TypeInv
  BY DEF IInv
<1>2. /\ Head(txns) = txns[1] /\ 1 \in 1..Len(txns) /\ Head(txns) \in Txn
      /\ \A i \in 1..Len(txns') : txns'[i] = txns[i + 1] /\ i + 1 \in 1..Len(txns)
      /\ \A i \in 1..Len(txns) : i = 1 \/ \E j \in 1..Len(txns') : txns'[j] = txns[i]
  BY <1>1, AnswerTakes
<1>3. /\ diskBins' = IF Head(txns).saves THEN Head(txns).bins ELSE diskBins
      /\ owed' = IF Head(txns).result = "covered" THEN owed \cup {BinOf[Head(txns).thing]}
                 ELSE IF Head(txns).result = "done" THEN owed \ {Head(txns).thing} ELSE owed
  BY DEF Apply
<1>4. CASE Head(txns).kind = "finish"
  <2>1. Promises(Head(txns))
    BY <1>2, <1>4 DEF Saved
  <2>2. diskBins' = binToMarker
    BY <1>3, <2>1 DEF Promises
  <2>3. owed' \subseteq binToMarker
    BY <1>3, <2>1 DEF Promises
  <2>4. NoFinish(txns')
    BY <1>4, Arriving
  <2>5. \A i \in 1..Len(txns') : txns'[i].kind # "finish" /\ Mute(txns'[i])
    <3> SUFFICES ASSUME NEW i \in 1..Len(txns')
                 PROVE  txns'[i].kind # "finish" /\ Mute(txns'[i])
      OBVIOUS
    <3>1. txns'[i] = txns[i + 1] /\ i + 1 \in 1..Len(txns)
      BY <1>2
    <3>2. txns'[i].kind # "finish"
      BY <2>4 DEF NoFinish
    <3>3. Mute(txns[i + 1])
      BY <3>1, <3>2 DEF Saved
    <3> QED BY <3>1, <3>2, <3>3
  <2> QED BY <2>2, <2>3, <2>5 DEF Saved
<1>5. CASE Head(txns).kind # "finish"
  <2>1. Mute(Head(txns))
    BY <1>2, <1>5 DEF Saved
  <2>2. diskBins' = diskBins
    BY <1>3, <2>1 DEF Mute
  <2>3. owed' \subseteq owed
    BY <1>3, <2>1 DEF Mute
  <2>4. NoFinish(txns') => NoFinish(txns)
    <3> SUFFICES ASSUME NoFinish(txns'), NEW i \in 1..Len(txns) PROVE txns[i].kind # "finish"
      BY DEF NoFinish
    <3>1. CASE i = 1
      BY <1>2, <1>5, <3>1
    <3>2. CASE i # 1
      <4>1. PICK j \in 1..Len(txns') : txns'[j] = txns[i]
        BY <1>2, <3>2
      <4>2. txns'[j].kind # "finish"
        BY DEF NoFinish
      <4> QED BY <4>1, <4>2
    <3> QED BY <3>1, <3>2
  <2>5. ASSUME NEW i \in 1..Len(txns')
        PROVE  IF txns'[i].kind = "finish" THEN Promises(txns[i])' ELSE Mute(txns'[i])
    <3>1. txns'[i] = txns[i + 1] /\ i + 1 \in 1..Len(txns)
      BY <1>2
    <3>2. IF txns[i + 1].kind = "finish" THEN Promises(txns[i + 1]) ELSE Mute(txns[i + 1])
      BY <3>1 DEF Saved
    <3> QED BY <2>2, <2>3, <3>1, <3>2 DEF Promises
  <2>6. owed \subseteq diskBins /\ (phase = "up" /\ NoFinish(txns) => diskBins = binToMarker)
    BY DEF Saved
  <2> QED BY <2>2, <2>3, <2>4, <2>5, <2>6 DEF Saved
<1> QED BY <1>4, <1>5

LEMMA SavedStep ==
    ASSUME MaxAborts = 0 PROVE IInv /\ Saved /\ [Next]_vars => Saved'
<1> SUFFICES ASSUME IInv, Saved, [Next]_vars PROVE Saved'
  OBVIOUS
<1>1. CASE UNCHANGED vars \/ Boot \/ LoadTasks \/ TimerFires
  BY <1>1, SavedSame DEF vars, disk, bins, hist, Boot, LoadTasks, TimerFires
<1>2. CASE Crash
  <2>1. txns' = << >> /\ phase' = "off" /\ UNCHANGED <<diskBins, owed>>
    BY <1>2 DEF Crash, disk
  <2> QED BY <2>1 DEF Saved
<1>3. ASSUME NEW new \in Batches, Schedule(new) PROVE Saved'
  <2>1. /\ Submit("add", NoThing, "done", FALSE, new) /\ TypeInv /\ NoThing \notin Bins
        /\ UNCHANGED <<diskBins, binToMarker, owed, phase>>
        /\ "add" # "finish" /\ "done" # "covered"
    BY <1>3, TaskManagerAssumption DEF Schedule, disk, bins, IInv
  <2> QED BY <2>1, MuteSubmitted
<1>4. ASSUME NEW t \in NonPersistent, ScheduleNonPersistent(t) PROVE Saved'
  BY <1>4, SavedSame DEF ScheduleNonPersistent, disk
<1>5. CASE AddCommits \/ FinishCommits \/ FailsafeCommits
  BY <1>5, RestSaved DEF AddCommits, FinishCommits, FailsafeCommits, NextTxn, bins
<1>6. ASSUME NEW announced, Aborts(announced) PROVE FALSE
  BY <1>6, NothingAborts DEF IInv
<1>7. ASSUME NEW r, ResourceAvailable(r) \/ ResourceNoLongerAvailable(r) PROVE Saved'
  BY <1>7, SavedSame DEF ResourceAvailable, ResourceNoLongerAvailable, disk, bins, hist
<1> QED BY <1>1, <1>2, <1>3, <1>4, <1>5, <1>6, <1>7, RestoreSaved, JobFinishesSaves,
           JobFailsSaved DEF Next

\* As long as the database aborts nothing: a request that was folded into a bin,
\* and whose own record is gone, is still owed by the stored binToMarker,
\* wherever the process is killed.
THEOREM OwedIsDurableHolds == ASSUME MaxAborts = 0 PROVE Spec => []OwedIsDurable
<1>1. IInv /\ Saved /\ [Next]_vars => Saved'
  BY SavedStep
<1>2. Saved => OwedIsDurable
  BY DEF Saved, OwedIsDurable
<1> QED BY <1>1, <1>2, IInvInit, IInvStep, SavedInit, PTL DEF Spec

=============================================================================
