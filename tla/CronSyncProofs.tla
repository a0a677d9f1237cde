--------------------------- MODULE CronSyncProofs ---------------------------
(***************************************************************************)
(* Cron sync's books are in order, and a cron sync that reports its end    *)
(* leaves the alarms ensured: proofs for any accounts, intervals, number   *)
(* of alarms and faults.                                                   *)
(*                                                                         *)
(* Two arguments are put side by side.  A wake lock is in one place only:  *)
(* with an alarm that is fetched, dispatched, or concluded, and a message  *)
(* about a lock is sent once, so that a turn which takes the message takes *)
(* the lock with it.  And one request of ensureSync is under way at most,  *)
(* so that the worker's promise stands for what the document is asked for: *)
(* a message, a request to the system, or an answer.                       *)
(***************************************************************************)
EXTENDS CronSync, SequenceTheorems, TLAPS

\* A lock on its way to the worker is no one else's, and its alarm has no
\* conclusion yet; neither has that of a lock that was not taken.
Unborn(l) == result[l] = "unborn" /\ l # active /\ l \notin Waiting

LocksApart ==
    /\ held \subseteq 1..(nextLock - 1)
    /\ fetching \cap Dispatched = {}
    /\ (fetching \cup Dispatched) \cap GivenBack = {}
    /\ \A l \in Locks : l \in fetching \cup Dispatched \/ l >= nextLock => Unborn(l)
    /\ \A i, j \in DOMAIN toWorker : toWorker[i].type = "alarm" /\ toWorker[i] = toWorker[j] => i = j
    /\ \A i, j \in DOMAIN waiting : waiting[i] = waiting[j] => i = j
    /\ active \notin Waiting

\* What ensureSync need not care for any more.
Seen == alarms \cup InFlight \cup failed \cup missed

\* The request is on its way to the document, or its answer to the worker.
Asking == \E i \in DOMAIN toMain : toMain[i].type = "ensureSync"
Ended  == \E i \in DOMAIN toWorker : toWorker[i] = SyncEnsured

AskedOnce == \A i, j \in DOMAIN toMain :
                toMain[i].type = "ensureSync" /\ toMain[j].type = "ensureSync" =>
                    i = j /\ toMain[i].data = asked
EndsOnce == \A i, j \in DOMAIN toWorker :
                toWorker[i] = SyncEnsured /\ toWorker[j] = SyncEnsured => i = j

OneRequest ==
    /\ AskedOnce /\ EndsOnce
    /\ Asking => promise /\ request.stage = "none" /\ ~Ended
    /\ request.stage # "none" => promise /\ ~Ended
    /\ request.stage = "getAll" => request.left = asked
    /\ request.stage = "adding" => asked \ request.left \subseteq Seen
    /\ Ended => promise /\ asked \subseteq Seen
    /\ phase # "off" /\ ~promise => asked \subseteq Seen

\* A process that is not there keeps nothing.
OffIsEmpty ==
    phase = "off" =>
        /\ fetching = {} /\ request = NoRequest /\ toMain = << >> /\ toWorker = << >>
        /\ armed = {} /\ active = NoLock /\ waiting = << >> /\ ~promise

CronInv == TypeOK /\ LocksAccounted /\ LocksApart /\ OneRequest /\ OffIsEmpty

-----------------------------------------------------------------------------
(* Types. *)

LEMMA LockNumbers == Locks \subseteq Nat /\ NoLock \notin Locks
BY CronSyncAssumption DEF Locks

LEMMA WhatIsAsked ==
    ASSUME TypeOK
    PROVE  /\ SyncData(accounts) \in SUBSET Alarm
           /\ EnsureSync(SyncData(accounts)) \in ToMain
           /\ EnsureMsgs \in Seq(ToMain)
<1>1. SyncData(accounts) \in SUBSET Alarm
  BY DEF SyncData
<1>2. EnsureSync(SyncData(accounts)) \in ToMain
  BY <1>1 DEF ToMain
<1> QED
  BY <1>1, <1>2 DEF EnsureMsgs

LEMMA UnlockIsMessage == \A l \in Locks : Unlock(l) \in ToMain /\ AlarmMsg(l) \in ToWorker
BY DEF ToMain, ToWorker

\* What Completion sends.
LEMMA CompletionSends ==
    ASSUME TypeOK, NEW ls \in Seq(Locks), UnlockAll(ls)
    PROVE  \E s \in Seq(ToMain) : 
              /\ toMain' = toMain \o s
              /\ \A k \in DOMAIN s : \E i \in DOMAIN ls : ls[i] \in armed /\ s[k] = Unlock(ls[i])
              /\ \A i \in DOMAIN ls : ls[i] \in armed => \E k \in DOMAIN s : s[k] = Unlock(ls[i])
              /\ (\A i, j \in DOMAIN ls : ls[i] = ls[j] => i = j)
                    => \A j, k \in DOMAIN s : s[j] = s[k] => j = k
<1>0. PICK n \in 0..Len(ls) : \E at \in [1..n -> DOMAIN ls] :
        /\ {at[k] : k \in 1..n} = {i \in DOMAIN ls : ls[i] \in armed}
        /\ \A j, k \in 1..n : j < k => at[j] < at[k]
        /\ toMain' = toMain \o [k \in 1..n |-> Unlock(ls[at[k]])]
  BY DEF UnlockAll
<1>1. PICK at \in [1..n -> DOMAIN ls] :
        /\ {at[k] : k \in 1..n} = {i \in DOMAIN ls : ls[i] \in armed}
        /\ \A j, k \in 1..n : j < k => at[j] < at[k]
        /\ toMain' = toMain \o [k \in 1..n |-> Unlock(ls[at[k]])]
  BY <1>0
<1> DEFINE s == [k \in 1..n |-> Unlock(ls[at[k]])]
<1>2. \A k \in 1..n : at[k] \in DOMAIN ls /\ ls[at[k]] \in armed
  BY <1>1
<1>3. n \in Nat /\ Len(ls) \in Nat /\ DOMAIN ls = 1..Len(ls)
  BY <1>1
<1>4. \A k \in 1..n : ls[at[k]] \in Locks
  BY <1>2, <1>3
<1>5. s \in Seq(ToMain) /\ DOMAIN s = 1..n
  BY <1>3, <1>4, UnlockIsMessage
<1>6. \A k \in DOMAIN s : \E i \in DOMAIN ls : ls[i] \in armed /\ s[k] = Unlock(ls[i])
  BY <1>2
<1>7. ASSUME NEW i \in DOMAIN ls, ls[i] \in armed
      PROVE  \E k \in DOMAIN s : s[k] = Unlock(ls[i])
  <2>1. PICK k \in 1..n : at[k] = i
    BY <1>1, <1>7
  <2> QED
    BY <2>1
<1>8. ASSUME \A i, j \in DOMAIN ls : ls[i] = ls[j] => i = j, NEW j \in DOMAIN s, NEW k \in DOMAIN s,
             s[j] = s[k]
      PROVE  j = k
  <2>1. ls[at[j]] = ls[at[k]]
    BY <1>8 DEF Unlock
  <2>2. at[j] = at[k] /\ at[j] \in Nat
    BY <1>2, <1>3, <1>8, <2>1
  <2> QED
    BY <1>1, <1>3, <2>2
<1> QED
  BY <1>1, <1>5, <1>6, <1>7, <1>8

LEMMA RequestTyped ==
    /\ NoRequest \in [stage : {"none", "getAll", "adding"}, left : SUBSET Alarm]
    /\ \A left \in SUBSET Alarm :
        [stage |-> "adding", left |-> left] \in [stage : {"none", "getAll", "adding"}, left : SUBSET Alarm]
BY DEF NoRequest

LEMMA InitTyped == Init => TypeOK
<1> SUFFICES ASSUME Init PROVE TypeOK
  OBVIOUS
<1>1. (CHOOSE i \in Intervals : TRUE) \in Intervals
  BY CronSyncAssumption
<1>2. [interval |-> CHOOSE i \in Intervals : TRUE, accounts |-> {}] \in Alarm
  BY <1>1 DEF Alarm
<1>3. 1 \in 1..(MaxAlarms + 1) /\ 0 \in 0..MaxFaults
  BY CronSyncAssumption
<1>4. firedAs \in [Locks -> Alarm]
  BY <1>2 DEF Init
<1>5. result \in [Locks -> Results]
  BY DEF Init, Results
<1>6. request \in [stage : {"none", "getAll", "adding"}, left : SUBSET Alarm]
  BY RequestTyped DEF Init
<1>7. toMain \in Seq(ToMain) /\ toWorker \in Seq(ToWorker) /\ waiting \in Seq(Locks)
  BY DEF Init
<1>8. nextLock \in 1..(MaxAlarms + 1) /\ faults \in 0..MaxFaults
  BY <1>3 DEF Init
<1>9. /\ alarms \in SUBSET Alarm /\ fetching \in SUBSET Locks /\ held \in SUBSET Locks
      /\ routeReady \in BOOLEAN /\ phase \in {"off", "starting", "up"}
      /\ accounts \in SUBSET Accounts /\ promise \in BOOLEAN /\ armed \in SUBSET Locks
      /\ active \in Locks \cup {NoLock} /\ listening \in Nat
  BY DEF Init
<1>10. /\ syncing \in SUBSET Accounts /\ work \in SUBSET (Accounts \cup {Other})
       /\ blocked \in SUBSET Accounts /\ told \in {"none", "complete", "fail"}
       /\ asked \in SUBSET Alarm /\ young \in SUBSET Alarm
       /\ failed \in SUBSET Alarm /\ missed \in SUBSET Alarm /\ starved \in SUBSET Locks
  BY DEF Init
<1> QED
  BY <1>4, <1>5, <1>6, <1>7, <1>8, <1>9, <1>10 DEF TypeOK

\* The parts of an alarm's turn.
LEMMA AlarmTyped ==
    ASSUME TypeOK, NEW l \in Locks, NEW notified, OnAlarm(l, notified)
    PROVE  TypeOK'
<1> USE DEF TypeOK
<1>1. firedAs[l] \in Alarm
  OBVIOUS
<1>2. Issued(l) \subseteq Accounts /\ Scheduled(l, notified) \subseteq Accounts \cup {Other}
  BY DEF Issued, Scheduled
<1>3. toWorker' \in Seq(ToWorker)
  BY DEF OnAlarm
<1>4. /\ promise' \in BOOLEAN /\ asked' \in SUBSET Alarm
      /\ failed' \in SUBSET Alarm /\ missed' \in SUBSET Alarm
  BY <1>1, WhatIsAsked DEF OnAlarm, Ensured
<1>5. CASE HandOff(l)
  <2>1. active \in Locks /\ Unlocks(active) \in Seq(ToMain)
    BY <1>5, UnlockIsMessage DEF HandOff, Unlocks
  <2>2. toMain' \in Seq(ToMain)
    BY <1>5, <2>1, WhatIsAsked, ConcatProperties DEF HandOff
  <2>3. result' \in [Locks -> Results]
    BY <1>5 DEF HandOff, Results
  <2> QED
    BY <1>2, <1>3, <1>4, <1>5, <2>2, <2>3 DEF OnAlarm, HandOff, mainVars
<1>6. CASE NoHandOff(l)
  <2>1. <<Unlock(l)>> \in Seq(ToMain)
    BY UnlockIsMessage
  <2>2. toMain' \in Seq(ToMain)
    BY <1>6, <2>1, WhatIsAsked, ConcatProperties DEF NoHandOff
  <2>3. result' \in [Locks -> Results]
    BY <1>6 DEF NoHandOff, Results
  <2> QED
    BY <1>2, <1>3, <1>4, <1>6, <2>2, <2>3 DEF OnAlarm, NoHandOff, mainVars
<1>7. CASE Begin(l, notified)
  <2>1. toMain' \in Seq(ToMain)
    BY <1>7, WhatIsAsked, ConcatProperties DEF Begin
  <2>2. result' \in [Locks -> Results]
    BY <1>7 DEF Begin, Results
  <2> QED
    BY SMTT(30), <1>2, <1>3, <1>4, <1>7, <2>1, <2>2 DEF OnAlarm, Begin, mainVars
<1> QED
  BY <1>5, <1>6, <1>7 DEF OnAlarm

LEMMA CompletionTyped ==
    ASSUME TypeOK, NEW ls \in Seq(Locks), Completion(ls)
    PROVE  /\ toMain' \in Seq(ToMain)
           /\ armed' \in SUBSET Locks
           /\ result' \in [Locks -> Results]
           /\ told' \in {"none", "complete", "fail"}
<1>1. PICK s \in Seq(ToMain) : toMain' = toMain \o s
  BY CompletionSends DEF Completion
<1>5. toMain' \in Seq(ToMain)
  BY <1>1, ConcatProperties DEF TypeOK
<1>2. armed' \in SUBSET Locks
  BY DEF Completion, Disarm, TypeOK
<1>3. result' \in [Locks -> Results]
  BY DEF Completion, Conclude, TypeOK, Results
<1>4. told' \in {"none", "complete", "fail"}
  BY DEF Completion, TypeOK
<1> QED
  BY <1>5, <1>2, <1>3, <1>4

\* A cron sync whose end taskQueueEmpty announces is active.
LEMMA EmptiedTyped ==
    ASSUME TypeOK, LocksAccounted, Emptied
    PROVE  /\ toMain' \in Seq(ToMain) /\ armed' \in SUBSET Locks
           /\ active' \in Locks \cup {NoLock} /\ listening' \in Nat
           /\ waiting' \in Seq(Locks) /\ result' \in [Locks -> Results]
           /\ told' \in {"none", "complete", "fail"}
<1>1. CASE work' = {} /\ listening > 0
  <2>1. VictoriousCompletion
    BY <1>1 DEF Emptied
  <2>2. active \in Locks
    BY <1>1 DEF LocksAccounted, TypeOK
  <2>3. <<active>> \in Seq(Locks)
    BY <2>2
  <2>4. active' = NoLock /\ listening' = 0
    BY <2>1 DEF VictoriousCompletion
  <2>5. CASE promise
    <3>1. waiting' = Append(waiting, active)
      BY <2>1, <2>5 DEF VictoriousCompletion
    <3>2. waiting' \in Seq(Locks)
      BY <2>2, <3>1, AppendProperties DEF TypeOK
    <3> QED
      BY <2>1, <2>4, <2>5, <3>2 DEF VictoriousCompletion, TypeOK
  <2>6. CASE ~promise
    <3>1. Completion(<<active>>) /\ waiting' = waiting
      BY <2>1, <2>6 DEF VictoriousCompletion
    <3> QED
      BY <2>3, <2>4, <3>1, CompletionTyped DEF TypeOK
  <2> QED
    BY <2>5, <2>6
<1>2. CASE ~(work' = {} /\ listening > 0)
  BY <1>2 DEF Emptied, locking, TypeOK
<1> QED
  BY <1>1, <1>2

LEMMA NextTyped == TypeOK /\ LocksAccounted /\ [Next]_vars => TypeOK'
<1> SUFFICES ASSUME TypeOK, LocksAccounted, [Next]_vars PROVE TypeOK'
  OBVIOUS
<1> USE DEF TypeOK
<1>1. ASSUME ComesUp
      PROVE  /\ phase' = "starting" /\ promise' = TRUE /\ toMain' \in Seq(ToMain)
             /\ asked' \in SUBSET Alarm /\ failed' = {} /\ missed' = {}
             /\ work' \in SUBSET (Accounts \cup {Other})
  BY <1>1, WhatIsAsked DEF ComesUp
<1>2. CASE Boot
  BY <1>1, <1>2 DEF Boot, mainVars, locking
<1>3. CASE SystemReady
  <2>1. Hello \in ToMain
    BY DEF ToMain
  <2> QED
    BY <1>3, <2>1 DEF SystemReady, mainVars, locking, tasks, seen
<1>4. CASE Close
  <2>1. result' \in [Locks -> Results]
    BY <1>4 DEF Close, Results
  <2>3. faults' \in 0..MaxFaults
    BY <1>4, CronSyncAssumption DEF Close, Fault
  <2>4. toMain' \in Seq(ToMain) /\ toWorker' \in Seq(ToWorker) /\ waiting' \in Seq(Locks)
    BY <1>4 DEF Close
  <2>2. request' \in [stage : {"none", "getAll", "adding"}, left : SUBSET Alarm]
    BY <1>4, RequestTyped DEF Close
  <2> QED
    BY <1>4, <2>1, <2>2, <2>3, <2>4 DEF Close
<1>5. CASE AccountsChange
  BY <1>5, CronSyncAssumption DEF AccountsChange, Fault, mainVars, channels, locking, tasks, seen
<1>6. ASSUME NEW x \in Alarm, AlarmFires(x) PROVE TypeOK'
  <2>1. /\ nextLock \in Locks /\ nextLock' \in 1..(MaxAlarms + 1)
        /\ firedAs' \in [Locks -> Alarm]
    BY <1>6, CronSyncAssumption DEF AlarmFires, Locks
  <2>2. CASE ComesUp /\ UNCHANGED <<syncing, blocked, young, starved>>
    BY <1>1, <1>6, <2>1, <2>2 DEF AlarmFires, locking
  <2>3. CASE phase # "off" /\ UNCHANGED <<phase, promise, toMain, tasks, seen>>
    BY <1>6, <2>1, <2>3 DEF AlarmFires, locking, tasks, seen
  <2> QED
    BY <1>6, <2>2, <2>3 DEF AlarmFires
<1>7. ASSUME NEW left \in SUBSET Alarm, EnsureEnds(left)
      PROVE  /\ request' \in [stage : {"none", "getAll", "adding"}, left : SUBSET Alarm]
             /\ toWorker' \in Seq(ToWorker)
  <2>1. SyncEnsured \in ToWorker
    BY DEF ToWorker
  <2> QED
    <3>1. CASE left = {}
      <4>1. request' = NoRequest /\ toWorker' = Append(toWorker, SyncEnsured)
        BY <1>7, <3>1 DEF EnsureEnds
      <4>2. toWorker' \in Seq(ToWorker)
        BY <2>1, <4>1, AppendProperties
      <4> QED
        BY <4>1, <4>2, RequestTyped
    <3>2. CASE left # {}
      BY <1>7, <3>2, RequestTyped DEF EnsureEnds
    <3> QED
      BY <3>1, <3>2
<1>8. ASSUME NEW x \in Alarm, AlarmAdded(x) \/ AddFails(x) PROVE TypeOK'
  <2>1. request.left \ {x} \in SUBSET Alarm /\ EnsureEnds(request.left \ {x})
    BY <1>8 DEF AlarmAdded, AddFails
  <2>2. CASE AlarmAdded(x)
    BY <1>7, <2>1, <2>2 DEF AlarmAdded, locking, tasks
  <2>3. CASE AddFails(x)
    BY <1>7, <2>1, <2>3, CronSyncAssumption DEF AddFails, Fault, locking, tasks
  <2> QED
    BY <1>8, <2>2, <2>3
<1>9. ASSUME NEW l \in Locks, AlarmDispatch(l) PROVE TypeOK'
  BY <1>9, UnlockIsMessage DEF AlarmDispatch, locking, tasks, seen
<1>10. ASSUME NEW l \in Locks, TimeoutUnlock(l) PROVE TypeOK'
  BY <1>10, UnlockIsMessage, CronSyncAssumption DEF TimeoutUnlock, Fault, mainVars, tasks, seen
<1>11. CASE MainReceives
  <2>1. Head(toMain) \in ToMain /\ Tail(toMain) \in Seq(ToMain)
    BY <1>11 DEF MainReceives
  <2>2. Head(toMain).type = "ensureSync" => Head(toMain).data \in SUBSET Alarm
    BY <2>1 DEF ToMain, Hello, EnsureSync, Unlock
  <2> QED
    BY <1>11, <2>1, <2>2 DEF MainReceives, locking, tasks, seen
<1>12. CASE GotAlarms
  <2>1. request.left \ alarms \in SUBSET Alarm /\ EnsureEnds(request.left \ alarms)
    BY <1>12 DEF GotAlarms
  <2> QED
    BY <1>7, <1>12, <2>1 DEF GotAlarms, locking, tasks, seen
<1>13. CASE GetAlarmsFails
  BY RequestTyped, <1>13, CronSyncAssumption DEF GetAlarmsFails, Fault, channels, locking, tasks, seen
<1>14. ASSUME NEW t \in Accounts \cup {Other}, TaskEnds(t) PROVE TypeOK'
  BY <1>14, EmptiedTyped DEF TaskEnds, mainVars, seen
<1>15. ASSUME NEW a \in Accounts, SyncBlocks(a) PROVE TypeOK'
  BY <1>15, EmptiedTyped, CronSyncAssumption DEF SyncBlocks, Fault, mainVars, seen
<1>16. ASSUME NEW a \in Accounts, SyncUnblocks(a) PROVE TypeOK'
  BY <1>16 DEF SyncUnblocks, mainVars, channels, locking, seen
<1>17. CASE OnSyncEnsured
  <2>1. Completion(waiting) /\ toWorker' \in Seq(ToWorker)
    BY <1>17 DEF OnSyncEnsured
  <2> QED
    <3>1. waiting \in Seq(Locks) /\ waiting' \in Seq(Locks)
      BY <1>17 DEF OnSyncEnsured
    <3>2. /\ toMain' \in Seq(ToMain) /\ armed' \in SUBSET Locks
          /\ result' \in [Locks -> Results] /\ told' \in {"none", "complete", "fail"}
      BY <2>1, <3>1, CompletionTyped
    <3> QED
      BY <1>17, <2>1, <3>1, <3>2 DEF OnSyncEnsured, mainVars, tasks
<1>18. CASE UNCHANGED vars
  BY <1>18 DEF vars, mainVars, channels, locking, tasks, seen
<1> QED
  BY <1>2, <1>3, <1>4, <1>5, <1>6, <1>8, <1>9, <1>10, <1>11, <1>12, <1>13, <1>14,
     <1>15, <1>16, <1>17, <1>18, AlarmTyped DEF Next

-----------------------------------------------------------------------------
(* The channels. *)

LEMMA MessageShape ==
    /\ \A m \in ToMain : /\ m.lock \in Locks \cup {NoLock}
                         /\ m.type = "unlock" <=> m.lock \in Locks
                         /\ m.type = "unlock" => m = Unlock(m.lock)
    /\ \A m \in ToWorker : /\ m.lock \in Locks \cup {NoLock}
                           /\ m.type = "alarm" <=> m.lock \in Locks
                           /\ m.type = "alarm" => m = AlarmMsg(m.lock)
                           /\ m.type # "alarm" <=> m = SyncEnsured
BY LockNumbers DEF ToMain, ToWorker, Hello, EnsureSync, Unlock, AlarmMsg, SyncEnsured

\* No lock is given back by two messages.
OnceEach == \A i, j \in DOMAIN toMain :
                toMain[i].type = "unlock" /\ toMain[i] = toMain[j] => i = j

\* No alarm is dispatched twice.
OnceDispatched == \A i, j \in DOMAIN toWorker :
                      toWorker[i].type = "alarm" /\ toWorker[i] = toWorker[j] => i = j

LocksOf(s) == {s[k].lock : k \in DOMAIN s} \ {NoLock}

LEMMA Sent ==
    ASSUME TypeOK, NEW s \in Seq(ToMain), toMain' = toMain \o s
    PROVE  /\ GivenBack' = GivenBack \cup LocksOf(s)
           /\ OnceEach /\ LocksOf(s) \cap GivenBack = {}
               /\ (\A j, k \in DOMAIN s : s[j].type = "unlock" /\ s[j] = s[k] => j = k)
                 => OnceEach'
<1>1. /\ toMain \in Seq(ToMain) /\ Len(toMain) \in Nat /\ Len(s) \in Nat
      /\ DOMAIN toMain = 1..Len(toMain) /\ DOMAIN s = 1..Len(s)
  BY DEF TypeOK
<1>2. /\ DOMAIN toMain' = 1..(Len(toMain) + Len(s))
      /\ \A i \in 1..Len(toMain) : toMain'[i] = toMain[i]
      /\ \A k \in 1..Len(s) : toMain'[Len(toMain) + k] = s[k]
  BY <1>1
<1>3. \A i \in DOMAIN toMain' : \/ i \in DOMAIN toMain
                                \/ \E k \in DOMAIN s : i = Len(toMain) + k
  <2>1. ASSUME NEW i \in DOMAIN toMain', i \notin DOMAIN toMain
        PROVE  i - Len(toMain) \in DOMAIN s /\ i = Len(toMain) + (i - Len(toMain))
    BY <1>1, <1>2, <2>1
  <2> QED
    BY <2>1
<1>4. \A k \in DOMAIN s : Len(toMain) + k \in DOMAIN toMain'
  BY <1>1, <1>2
<1>5. GivenBack' = GivenBack \cup LocksOf(s)
  <2>1. \A i \in DOMAIN toMain : i \in DOMAIN toMain' /\ toMain'[i] = toMain[i]
    BY <1>1, <1>2
  <2>2. \A k \in DOMAIN s : toMain'[Len(toMain) + k] = s[k]
    BY <1>1, <1>2
  <2>3. GivenBack' \subseteq GivenBack \cup LocksOf(s)
    <3> SUFFICES ASSUME NEW i \in DOMAIN toMain', toMain'[i].lock # NoLock
                 PROVE  toMain'[i].lock \in GivenBack \cup LocksOf(s)
      BY DEF GivenBack
    <3>1. CASE i \in DOMAIN toMain
      BY <2>1, <3>1 DEF GivenBack
    <3>2. ASSUME NEW k \in DOMAIN s, i = Len(toMain) + k
          PROVE  toMain'[i].lock \in GivenBack \cup LocksOf(s)
      <4>1. toMain'[i] = s[k]
        BY <2>2, <3>2
      <4> QED
        BY <4>1 DEF LocksOf
    <3> QED
      BY <1>3, <3>1, <3>2
  <2>4. GivenBack \subseteq GivenBack'
    BY <2>1 DEF GivenBack
  <2>5. LocksOf(s) \subseteq GivenBack'
    <3> SUFFICES ASSUME NEW k \in DOMAIN s, s[k].lock # NoLock PROVE s[k].lock \in GivenBack'
      BY DEF LocksOf
    <3>1. Len(toMain) + k \in DOMAIN toMain' /\ toMain'[Len(toMain) + k].lock = s[k].lock
      BY <1>4, <2>2
    <3> QED
      BY <3>1 DEF GivenBack
  <2> QED
    BY <2>3, <2>4, <2>5
<1>6. ASSUME OnceEach, LocksOf(s) \cap GivenBack = {},
             \A j, k \in DOMAIN s : s[j].type = "unlock" /\ s[j] = s[k] => j = k,
             NEW i \in DOMAIN toMain', NEW j \in DOMAIN toMain',
             toMain'[i].type = "unlock", toMain'[i] = toMain'[j]
      PROVE  i = j
  <2>1. CASE i \in DOMAIN toMain /\ j \in DOMAIN toMain
    BY <1>1, <1>2, <1>6, <2>1 DEF OnceEach
  <2>2. ASSUME NEW a \in DOMAIN toMain, NEW k \in DOMAIN s PROVE
               ~(toMain[a].type = "unlock" /\ toMain[a] = s[k])
    <3> SUFFICES ASSUME toMain[a].type = "unlock", toMain[a] = s[k] PROVE FALSE
      OBVIOUS
    <3>1. toMain[a] \in ToMain
      BY <1>1
    <3>2. s[k].lock \in Locks /\ toMain[a].lock \in Locks
      BY <3>1, MessageShape
    <3>3. s[k].lock \in LocksOf(s) /\ toMain[a].lock \in GivenBack
      BY <3>2, LockNumbers DEF LocksOf, GivenBack
    <3> QED
      BY <1>6, <3>3
  <2>3. CASE i \notin DOMAIN toMain /\ j \notin DOMAIN toMain
    <3>1. PICK a \in DOMAIN s, b \in DOMAIN s : i = Len(toMain) + a /\ j = Len(toMain) + b
      BY <1>3, <2>3
    <3>2. toMain'[i] = s[a] /\ toMain'[j] = s[b]
      BY <1>1, <1>2, <3>1
    <3> QED
      BY <1>6, <3>1, <3>2
  <2>4. CASE i \in DOMAIN toMain /\ j \notin DOMAIN toMain
    <3>1. PICK b \in DOMAIN s : j = Len(toMain) + b
      BY <1>3, <2>4
    <3> QED
      BY <1>1, <1>2, <1>6, <2>2, <2>4, <3>1
  <2>5. CASE i \notin DOMAIN toMain /\ j \in DOMAIN toMain
    <3>1. PICK b \in DOMAIN s : i = Len(toMain) + b
      BY <1>3, <2>5
    <3> QED
      BY <1>1, <1>2, <1>6, <2>2, <2>5, <3>1
  <2> QED
    BY <2>1, <2>3, <2>4, <2>5
<1> QED
  BY <1>5, <1>6 DEF OnceEach

LEMMA Received ==
    ASSUME TypeOK, OnceEach, toMain # << >>, toMain' = Tail(toMain)
    PROVE  /\ Head(toMain) \in ToMain
           /\ GivenBack' = GivenBack \ {Head(toMain).lock}
           /\ Head(toMain).lock # NoLock => Head(toMain).lock \in GivenBack
           /\ OnceEach'
<1>1. /\ toMain \in Seq(ToMain) /\ Len(toMain) \in Nat /\ Len(toMain) # 0
      /\ DOMAIN toMain = 1..Len(toMain) /\ Head(toMain) = toMain[1]
      /\ DOMAIN toMain' = 1..(Len(toMain) - 1)
      /\ \A i \in 1..(Len(toMain) - 1) : toMain'[i] = toMain[i + 1] /\ i + 1 \in DOMAIN toMain
  BY DEF TypeOK
<1>2. 1 \in DOMAIN toMain /\ \A i \in DOMAIN toMain : i = 1 \/ i - 1 \in DOMAIN toMain'
  BY <1>1
<1>3. \A i \in DOMAIN toMain : toMain[i] \in ToMain
  BY <1>1
<1>4. ASSUME NEW i \in DOMAIN toMain, i # 1, toMain[i].lock # NoLock
      PROVE  toMain[i].lock # toMain[1].lock
  <2> SUFFICES ASSUME toMain[i].lock = toMain[1].lock PROVE FALSE
    OBVIOUS
  <2>1. toMain[i].type = "unlock" /\ toMain[1].type = "unlock"
    BY <1>2, <1>3, <1>4, MessageShape
  <2>2. toMain[i] = toMain[1]
    BY <1>2, <1>3, <2>1, MessageShape
  <2> QED
    BY <1>2, <1>4, <2>1, <2>2 DEF OnceEach
<1>5. GivenBack' \subseteq GivenBack \ {toMain[1].lock}
  BY <1>1, <1>4 DEF GivenBack
<1>6. GivenBack \ {toMain[1].lock} \subseteq GivenBack'
  <2> SUFFICES ASSUME NEW i \in DOMAIN toMain, toMain[i].lock # NoLock, toMain[i].lock # toMain[1].lock
               PROVE  toMain[i].lock \in GivenBack'
    BY DEF GivenBack
  <2>1. i - 1 \in DOMAIN toMain' /\ toMain'[i - 1] = toMain[i]
    BY <1>1, <1>2
  <2> QED
    BY <2>1 DEF GivenBack
<1>7. OnceEach'
  BY <1>1 DEF OnceEach
<1> QED
  BY <1>1, <1>2, <1>3, <1>5, <1>6, <1>7 DEF GivenBack

LEMMA Posted ==
    ASSUME TypeOK, NEW m \in ToWorker, toWorker' = Append(toWorker, m)
    PROVE  /\ Dispatched' = Dispatched \cup ({m.lock} \ {NoLock})
           /\ OnceDispatched /\ m.lock \notin Dispatched => OnceDispatched'
<1>1. /\ toWorker \in Seq(ToWorker) /\ Len(toWorker) \in Nat
      /\ DOMAIN toWorker = 1..Len(toWorker)
      /\ DOMAIN toWorker' = 1..(Len(toWorker) + 1)
      /\ toWorker'[Len(toWorker) + 1] = m
      /\ \A i \in DOMAIN toWorker : toWorker'[i] = toWorker[i]
  BY DEF TypeOK
<1>2. /\ DOMAIN toWorker' = DOMAIN toWorker \cup {Len(toWorker) + 1}
      /\ \A i \in DOMAIN toWorker : toWorker[i] \in ToWorker
  BY <1>1
<1>3. Dispatched' = Dispatched \cup ({m.lock} \ {NoLock})
  BY <1>1, <1>2 DEF Dispatched
<1>4. ASSUME m.lock \notin Dispatched, NEW i \in DOMAIN toWorker
      PROVE  ~(m.type = "alarm" /\ toWorker[i] = m)
  <2> SUFFICES ASSUME m.type = "alarm", toWorker[i] = m PROVE FALSE
    OBVIOUS
  <2>1. m.lock \in Locks /\ m.lock # NoLock
    BY MessageShape, LockNumbers
  <2> QED
    BY <1>4, <2>1 DEF Dispatched
<1> QED
  BY <1>1, <1>2, <1>3, <1>4 DEF OnceDispatched

LEMMA Taken ==
    ASSUME TypeOK, OnceDispatched, toWorker # << >>, toWorker' = Tail(toWorker)
    PROVE  /\ Dispatched' = Dispatched \ {Head(toWorker).lock}
           /\ Head(toWorker).lock # NoLock => Head(toWorker).lock \in Dispatched
           /\ OnceDispatched'
<1>1. /\ toWorker \in Seq(ToWorker) /\ Len(toWorker) \in Nat /\ Len(toWorker) # 0
      /\ DOMAIN toWorker = 1..Len(toWorker) /\ Head(toWorker) = toWorker[1]
      /\ DOMAIN toWorker' = 1..(Len(toWorker) - 1)
      /\ \A i \in 1..(Len(toWorker) - 1) : toWorker'[i] = toWorker[i + 1] /\ i + 1 \in DOMAIN toWorker
  BY DEF TypeOK
<1>2. 1 \in DOMAIN toWorker /\ \A i \in DOMAIN toWorker : i = 1 \/ i - 1 \in DOMAIN toWorker'
  BY <1>1
<1>3. \A i \in DOMAIN toWorker : toWorker[i] \in ToWorker
  BY <1>1
<1>4. ASSUME NEW i \in DOMAIN toWorker, i # 1, toWorker[i].lock # NoLock
      PROVE  toWorker[i].lock # toWorker[1].lock
  <2> SUFFICES ASSUME toWorker[i].lock = toWorker[1].lock PROVE FALSE
    OBVIOUS
  <2>1. toWorker[i].type = "alarm" /\ toWorker[1].type = "alarm"
    BY <1>2, <1>3, <1>4, MessageShape
  <2>2. toWorker[i] = toWorker[1]
    BY <1>2, <1>3, <2>1, MessageShape
  <2> QED
    BY <1>2, <1>4, <2>1, <2>2 DEF OnceDispatched
<1>5. Dispatched' \subseteq Dispatched \ {toWorker[1].lock}
  BY <1>1, <1>4 DEF Dispatched
<1>6. Dispatched \ {toWorker[1].lock} \subseteq Dispatched'
  <2> SUFFICES ASSUME NEW i \in DOMAIN toWorker, toWorker[i].lock # NoLock,
                      toWorker[i].lock # toWorker[1].lock
               PROVE  toWorker[i].lock \in Dispatched'
    BY DEF Dispatched
  <2>1. i - 1 \in DOMAIN toWorker' /\ toWorker'[i - 1] = toWorker[i]
    BY <1>1, <1>2
  <2> QED
    BY <2>1 DEF Dispatched
<1>7. OnceDispatched'
  BY <1>1 DEF OnceDispatched
<1> QED
  BY <1>1, <1>2, <1>5, <1>6, <1>7 DEF Dispatched

-----------------------------------------------------------------------------
(* Wake locks. *)

LocksInv == LocksAccounted /\ LocksApart

LEMMA InitLocks == Init => LocksInv /\ OffIsEmpty
<1> SUFFICES ASSUME Init PROVE LocksInv /\ OffIsEmpty
  OBVIOUS
<1>1. Dispatched = {} /\ GivenBack = {} /\ Waiting = {}
  BY DEF Init, Dispatched, GivenBack, Waiting
<1>2. OnceEach /\ OnceDispatched /\ \A i, j \in DOMAIN waiting : waiting[i] = waiting[j] => i = j
  BY DEF Init, OnceEach, OnceDispatched
<1>3. {l \in Locks : result[l] = "open"} = {}
  BY DEF Init
<1>4. \A l \in Locks : Unborn(l)
  BY <1>1, LockNumbers DEF Init, Unborn
<1>5. LocksAccounted
  BY <1>1, <1>2, <1>3 DEF Init, LocksAccounted, OnceEach
<1>6. LocksApart
  BY <1>1, <1>2, <1>4 DEF Init, LocksApart, OnceDispatched
<1> QED
  BY <1>5, <1>6 DEF Init, OffIsEmpty, LocksInv

\* The requests and greetings of the worker are about no lock.
LEMMA NoLocksIn ==
    ASSUME TypeOK
    PROVE  /\ LocksOf(EnsureMsgs) = {} /\ LocksOf(<<Hello>>) = {}
           /\ \A k \in DOMAIN EnsureMsgs : EnsureMsgs[k].type # "unlock"
BY DEF LocksOf, EnsureMsgs, EnsureSync, Hello

LEMMA ComesUpLocks ==
    ASSUME OffIsEmpty, ComesUp
    PROVE  GivenBack = {} /\ GivenBack' = {} /\ OnceEach'
<1>1. toMain = << >> /\ toMain' = <<EnsureSync(SyncData(accounts))>>
  BY DEF OffIsEmpty, ComesUp
<1>2. DOMAIN toMain' = {1} /\ toMain'[1].lock = NoLock
  BY <1>1 DEF EnsureSync
<1> QED
  BY <1>1, <1>2 DEF GivenBack, OnceEach

LEMMA WaitingAreLocks == TypeOK => Waiting \subseteq Locks /\ NoLock \notin Waiting /\ NoLock \notin Locks
<1> SUFFICES ASSUME TypeOK PROVE Waiting \subseteq Locks
  BY LockNumbers
<1>1. \A i \in DOMAIN waiting : waiting[i] \in Locks
  BY DEF TypeOK
<1> QED
  BY <1>1 DEF Waiting

LEMMA CompletionLocks ==
    ASSUME TypeOK, LocksInv, NEW ls \in Seq(Locks), Completion(ls),
           \A i, j \in DOMAIN ls : ls[i] = ls[j] => i = j
    PROVE  LET R == {ls[i] : i \in DOMAIN ls} IN
           /\ GivenBack' = GivenBack \cup (armed \cap R)
           /\ OnceEach'
           /\ armed' = armed \ R
           /\ \A l \in R : result'[l] \notin {"open", "unborn"}
           /\ \A l \in Locks \ R : result'[l] = result[l]
<1> DEFINE R == {ls[i] : i \in DOMAIN ls}
<1>0. UnlockAll(ls)
  BY DEF Completion
<1>9. \E s \in Seq(ToMain) :
        /\ toMain' = toMain \o s
        /\ \A k \in DOMAIN s : \E i \in DOMAIN ls : ls[i] \in armed /\ s[k] = Unlock(ls[i])
        /\ \A i \in DOMAIN ls : ls[i] \in armed => \E k \in DOMAIN s : s[k] = Unlock(ls[i])
        /\ (\A i, j \in DOMAIN ls : ls[i] = ls[j] => i = j)
              => \A j, k \in DOMAIN s : s[j] = s[k] => j = k
  BY <1>0, CompletionSends
<1>1. PICK s \in Seq(ToMain) :
        /\ toMain' = toMain \o s
        /\ \A k \in DOMAIN s : \E i \in DOMAIN ls : ls[i] \in armed /\ s[k] = Unlock(ls[i])
        /\ \A i \in DOMAIN ls : ls[i] \in armed => \E k \in DOMAIN s : s[k] = Unlock(ls[i])
        /\ \A j, k \in DOMAIN s : s[j] = s[k] => j = k
  BY <1>9
<1>2. R \subseteq Locks /\ NoLock \notin R
  BY LockNumbers
<1>3. \A l : Unlock(l).lock = l
  BY DEF Unlock
<1>4. LocksOf(s) = armed \cap R
  <2>1. LocksOf(s) \subseteq armed \cap R
    BY <1>1, <1>3 DEF LocksOf
  <2>2. armed \cap R \subseteq LocksOf(s)
    <3> SUFFICES ASSUME NEW i \in DOMAIN ls, ls[i] \in armed PROVE ls[i] \in LocksOf(s)
      OBVIOUS
    <3>1. PICK k \in DOMAIN s : s[k] = Unlock(ls[i])
      BY <1>1
    <3>2. s[k].lock = ls[i] /\ ls[i] # NoLock
      BY <1>2, <1>3, <3>1
    <3> QED
      BY <3>2 DEF LocksOf
  <2> QED
    BY <2>1, <2>2
<1>5. armed \cap GivenBack = {} /\ OnceEach
  BY DEF LocksInv, LocksAccounted, OnceEach
<1>6. GivenBack' = GivenBack \cup (armed \cap R) /\ OnceEach'
  BY <1>1, <1>4, <1>5, Sent
<1>7. armed' = armed \ R
  BY DEF Completion, Disarm
<1>8. \A l \in Locks : result'[l] = IF l \in R THEN (IF active' = NoLock THEN "success" ELSE "left open")
                                   ELSE result[l]
  BY DEF Completion, Conclude
<1> QED
  BY <1>2, <1>6, <1>7, <1>8

\* The end of a cron sync, at once or when its alarms are ensured.
LEMMA EmptiedLocks ==
    ASSUME TypeOK, LocksInv, Emptied, UNCHANGED <<fetching, held, nextLock, toWorker>>
    PROVE  LocksInv'
<1>0. Dispatched' = Dispatched /\ (OnceDispatched => OnceDispatched')
  BY DEF Dispatched, OnceDispatched
<1>1. CASE ~(work' = {} /\ listening > 0)
  <2>1. UNCHANGED <<armed, active, listening, waiting, result, told, toMain>>
    BY <1>1 DEF Emptied, locking
  <2> QED
    BY <2>1 DEF LocksInv, LocksAccounted, LocksApart, Dispatched, GivenBack, Waiting, Unborn
<1>2. CASE work' = {} /\ listening > 0
  <2>1. VictoriousCompletion /\ active' = NoLock /\ listening' = 0
    BY <1>2 DEF Emptied, VictoriousCompletion
  <2>2. active \in Locks /\ active # NoLock
    BY <1>2, LockNumbers DEF LocksInv, LocksAccounted, TypeOK
  <2>3. CASE promise
    <3>1. waiting' = Append(waiting, active) /\ UNCHANGED <<toMain, armed, result>>
      BY <2>1, <2>3 DEF VictoriousCompletion
    <3>2. /\ Waiting' = Waiting \cup {active}
          /\ \A i, j \in DOMAIN waiting' : waiting'[i] = waiting'[j] => i = j
      <4>1. /\ waiting \in Seq(Locks) /\ Len(waiting) \in Nat /\ DOMAIN waiting = 1..Len(waiting)
            /\ DOMAIN waiting' = DOMAIN waiting \cup {Len(waiting) + 1}
            /\ waiting'[Len(waiting) + 1] = active
            /\ \A i \in DOMAIN waiting : waiting'[i] = waiting[i]
        BY <3>1, <2>2 DEF TypeOK
      <4>2. /\ active \notin Waiting
            /\ \A i, j \in DOMAIN waiting : waiting[i] = waiting[j] => i = j
        BY DEF LocksInv, LocksApart
      <4>3. \A i \in DOMAIN waiting : waiting[i] # active
        BY <4>2 DEF Waiting
      <4> QED
        BY <4>1, <4>2, <4>3 DEF Waiting
    <3>3. GivenBack' = GivenBack /\ (OnceEach => OnceEach')
      BY <3>1 DEF GivenBack, OnceEach
    <3>4. LocksAccounted'
      BY <1>0, <2>1, <2>2, <3>1, <3>2, <3>3 DEF LocksInv, LocksAccounted, OnceEach
    <3>5. \A l \in Locks : Unborn(l) => Unborn(l)'
      BY <2>1, <2>2, <3>1, <3>2, LockNumbers DEF Unborn
    <3>6. NoLock \notin Waiting'
      BY <2>2, <3>2, WaitingAreLocks
    <3>7. LocksApart'
      BY <1>0, <2>1, <3>2, <3>3, <3>5, <3>6 DEF LocksInv, LocksApart, OnceDispatched
    <3> QED
      BY <3>4, <3>7 DEF LocksInv
  <2>4. CASE ~promise
    <3>1. Completion(<<active>>) /\ waiting' = waiting
      BY <2>1, <2>4 DEF VictoriousCompletion
    <3>2. <<active>> \in Seq(Locks) /\ {<<active>>[i] : i \in DOMAIN <<active>>} = {active}
          /\ \A i, j \in DOMAIN <<active>> : <<active>>[i] = <<active>>[j] => i = j
      BY <2>2
    <3>3. /\ GivenBack' = GivenBack \cup (armed \cap {active})
          /\ OnceEach'
          /\ armed' = armed \ {active}
          /\ result'[active] \notin {"open", "unborn"}
          /\ \A l \in Locks \ {active} : result'[l] = result[l]
      BY <3>1, <3>2, CompletionLocks
    <3>4. Waiting' = Waiting /\ active \notin Waiting
      BY <3>1 DEF Waiting, LocksInv, LocksApart
    <3>5. {l \in Locks : result'[l] = "open"} = Waiting
      BY <2>2, <3>3, <3>4 DEF LocksInv, LocksAccounted
    <3>6. LocksAccounted'
      BY <1>0, <2>1, <3>3, <3>4, <3>5 DEF LocksInv, LocksAccounted, OnceEach
    <3>7. \A l \in Locks : Unborn(l) => Unborn(l)'
      BY <2>1, <3>3, <3>4, LockNumbers DEF Unborn
    <3>8. active \notin fetching \cup Dispatched
      BY <2>2 DEF LocksInv, LocksApart, Unborn
    <3>9. NoLock \notin Waiting'
      BY <3>4, WaitingAreLocks
    <3>10. LocksApart'
      BY <1>0, <2>1, <3>1, <3>3, <3>4, <3>7, <3>8, <3>9 DEF LocksInv, LocksApart, OnceDispatched
    <3> QED
      BY <3>6, <3>10 DEF LocksInv
  <2> QED
    BY <2>3, <2>4
<1> QED
  BY <1>1, <1>2

\* The turn of an alarm: its lock becomes the active one's, or is given back.
LEMMA AlarmLocks ==
    ASSUME TypeOK, LocksInv, NEW l \in Locks, NEW notified, OnAlarm(l, notified)
    PROVE  LocksInv'
<1> USE DEF LocksInv
<1>1. /\ toWorker # << >> /\ Head(toWorker).lock = l /\ toWorker' = Tail(toWorker)
      /\ UNCHANGED <<fetching, held, nextLock, waiting>>
  BY DEF OnAlarm, AlarmMsg, mainVars
<1>2. OnceDispatched /\ OnceEach
  BY DEF LocksApart, OnceDispatched, LocksAccounted, OnceEach
<1>3. l \in Dispatched /\ Dispatched' = Dispatched \ {l} /\ OnceDispatched'
  BY <1>1, <1>2, Taken, LockNumbers
<1>4. /\ Waiting' = Waiting /\ active \notin Waiting
      /\ \A i, j \in DOMAIN waiting' : waiting'[i] = waiting'[j] => i = j
  BY <1>1 DEF Waiting, LocksApart
<1>5. /\ l # active /\ l \notin Waiting /\ result[l] = "unborn"
      /\ l \notin fetching /\ l \notin GivenBack /\ l \notin armed /\ l \in held
  BY <1>3 DEF LocksApart, Unborn, LocksAccounted
<1>6. ~(l >= nextLock) /\ l # NoLock
  BY <1>5, LockNumbers DEF LocksApart, TypeOK, Locks
<1>7. EnsureMsgs \in Seq(ToMain) /\ toMain \in Seq(ToMain) /\ LocksOf(EnsureMsgs) = {}
  BY WhatIsAsked, NoLocksIn DEF TypeOK
<1>8. ASSUME NEW s \in Seq(ToMain), toMain' = toMain \o EnsureMsgs \o s,
             s = << >> \/ \E k \in Locks \ GivenBack : s = <<Unlock(k)>>
      PROVE  /\ GivenBack' = GivenBack \cup LocksOf(s)
             /\ OnceEach'
  <2> DEFINE t == EnsureMsgs \o s
  <2>1. t \in Seq(ToMain) /\ toMain' = toMain \o t
    BY SMTT(30), <1>7, <1>8, ConcatProperties, ConcatAssociative
  <2>2. /\ LocksOf(t) = LocksOf(s)
        /\ \A j, k \in DOMAIN t : t[j].type = "unlock" /\ t[j] = t[k] => j = k
    <3>1. CASE s = << >>
      <4>1. t = EnsureMsgs
        BY <1>7, <3>1
      <4>2. LocksOf(s) = {}
        BY <3>1 DEF LocksOf
      <4> QED
        BY <1>7, <4>1, <4>2, NoLocksIn
    <3>2. ASSUME NEW k \in Locks, s = <<Unlock(k)>>
          PROVE  /\ LocksOf(t) = LocksOf(s)
                 /\ \A i, j \in DOMAIN t : t[i].type = "unlock" /\ t[i] = t[j] => i = j
      <4>0. Unlock(k).type = "unlock"
        BY DEF Unlock
      <4>1. CASE EnsureMsgs = << >>
        <5>1. t = s /\ DOMAIN s = {1}
          BY <3>2, <4>1, <1>8
        <5> QED
          BY <5>1
      <4>2. CASE EnsureMsgs = <<EnsureSync(SyncData(accounts))>>
        <5>1. DOMAIN t = {1, 2} /\ t[1] = EnsureSync(SyncData(accounts)) /\ t[2] = Unlock(k)
          BY <3>2, <4>2
        <5>2. DOMAIN s = {1} /\ s[1] = Unlock(k)
          BY <3>2
        <5>3. t[1].lock = NoLock /\ t[1].type = "ensureSync"
          BY <5>1 DEF EnsureSync
        <5>4. t[1] # t[2] /\ t[2] # t[1]
          BY <4>0, <5>1, <5>3
        <5>5. LocksOf(t) = LocksOf(s)
          BY <5>1, <5>2, <5>3 DEF LocksOf
        <5> QED
          BY <5>1, <5>4, <5>5
      <4> QED
        BY <4>1, <4>2 DEF EnsureMsgs
    <3> QED
      BY <1>8, <3>1, <3>2
  <2>3. LocksOf(s) \cap GivenBack = {}
    <3>1. CASE s = << >>
      BY <3>1 DEF LocksOf
    <3>2. ASSUME NEW k \in Locks \ GivenBack, s = <<Unlock(k)>> PROVE LocksOf(s) \cap GivenBack = {}
      <4>1. DOMAIN s = {1} /\ s[1].lock = k
        BY <3>2 DEF Unlock
      <4> QED
        BY <4>1 DEF LocksOf
    <3> QED
      BY <1>8, <3>1, <3>2
  <2> HIDE DEF t
  <2> QED
    BY <1>2, <2>1, <2>2, <2>3, Sent
<1>9. \A k \in Locks : LocksOf(<<Unlock(k)>>) = {k}
  BY LockNumbers DEF LocksOf, Unlock
<1>10. LocksOf(<< >>) = {}
  BY DEF LocksOf
<1>11. CASE HandOff(l)
  <2>1. /\ active \in Locks /\ active # NoLock /\ active' = l
        /\ toMain' = toMain \o EnsureMsgs \o Unlocks(active)
        /\ armed' = (armed \ {active}) \cup {l}
        /\ listening' = listening
        /\ result' = [result EXCEPT ![active] = "superseded", ![l] = "open"]
    BY <1>11 DEF HandOff, TypeOK
  <2>2. GivenBack' = GivenBack \cup (armed \cap {active}) /\ OnceEach'
    <3>1. CASE active \in armed
      <4>1. active \in Locks \ GivenBack /\ Unlocks(active) = <<Unlock(active)>>
        BY <2>1, <3>1 DEF LocksAccounted, Unlocks
      <4>2. Unlocks(active) \in Seq(ToMain)
        BY <4>1, UnlockIsMessage
      <4> QED
        BY <1>8, <1>9, <2>1, <3>1, <4>1, <4>2
    <3>2. CASE active \notin armed
      <4>1. Unlocks(active) = << >> /\ << >> \in Seq(ToMain)
        BY <3>2 DEF Unlocks
      <4> QED
        BY <1>8, <1>10, <2>1, <3>2, <4>1
    <3> QED
      BY <3>1, <3>2
  <2>3. /\ result'[l] = "open" /\ result'[active] = "superseded"
        /\ \A k \in Locks \ {l, active} : result'[k] = result[k]
    BY <1>5, <2>1 DEF TypeOK
  <2>4. {k \in Locks : result'[k] = "open"} = {l} \cup Waiting
    BY <1>4, <1>5, <2>1, <2>3 DEF LocksAccounted
  <2>5. listening' = 1
    BY <2>1 DEF LocksAccounted
  <2>6. LocksAccounted'
    <3>1. held' = fetching' \cup Dispatched' \cup armed' \cup GivenBack'
      BY <1>1, <1>3, <1>4, <1>5, <2>1, <2>2 DEF LocksAccounted
    <3>2. armed' \subseteq {active'} \cup Waiting'
      BY <1>4, <2>1 DEF LocksAccounted
    <3>3. armed' \cap (fetching' \cup Dispatched' \cup GivenBack') = {}
      BY <1>1, <1>3, <1>5, <2>1, <2>2 DEF LocksAccounted
    <3>4. {k \in Locks : result'[k] = "open"} = ({active'} \ {NoLock}) \cup Waiting'
      BY <1>4, <1>6, <2>1, <2>4
    <3> QED
      BY <1>6, <2>1, <2>2, <2>5, <3>1, <3>2, <3>3, <3>4 DEF LocksAccounted, OnceEach
  <2>7. \A k \in Locks \ {l} : Unborn(k) => Unborn(k)'
    BY <1>4, <2>1, <2>3 DEF Unborn
  <2>8. LocksApart'
    BY ZenonT(30), <1>1, <1>3, <1>4, <1>5, <1>6, <2>1, <2>2, <2>7 DEF LocksApart, OnceDispatched, Unborn
  <2> QED
    BY <2>6, <2>8
<1>12. CASE NoHandOff(l)
  <2>1. /\ toMain' = toMain \o EnsureMsgs \o <<Unlock(l)>>
        /\ result' = [result EXCEPT ![l] = "ignored"]
        /\ UNCHANGED <<armed, active, listening>>
    BY <1>12 DEF NoHandOff
  <2>2. GivenBack' = GivenBack \cup {l} /\ OnceEach'
    <3>1. <<Unlock(l)>> \in Seq(ToMain) /\ l \in Locks \ GivenBack
      BY <1>5, UnlockIsMessage
    <3> QED
      BY <1>8, <1>9, <2>1, <3>1
  <2>3. result'[l] = "ignored" /\ \A k \in Locks \ {l} : result'[k] = result[k]
    BY <2>1 DEF TypeOK
  <2>4. {k \in Locks : result'[k] = "open"} = {k \in Locks : result[k] = "open"}
    BY <1>5, <2>3
  <2>6. LocksAccounted'
    BY <1>1, <1>3, <1>4, <1>5, <2>1, <2>2, <2>4 DEF LocksAccounted, OnceEach
  <2>7. \A k \in Locks \ {l} : Unborn(k) => Unborn(k)'
    BY <1>4, <2>1, <2>3 DEF Unborn
  <2>8. LocksApart'
    BY <1>1, <1>3, <1>4, <1>5, <1>6, <2>1, <2>2, <2>7 DEF LocksApart, OnceDispatched
  <2> QED
    BY <2>6, <2>8
<1>13. CASE Begin(l, notified)
  <2>1. /\ active = NoLock /\ active' = l
        /\ toMain' = toMain \o EnsureMsgs
        /\ armed' = armed \cup {l}
        /\ listening' = listening + 1
        /\ result' = [result EXCEPT ![l] = "open"]
    BY <1>13 DEF Begin
  <2>2. GivenBack' = GivenBack /\ OnceEach'
    <3>1. << >> \in Seq(ToMain) /\ toMain' = toMain \o EnsureMsgs \o << >>
      BY <1>7, <2>1
    <3> QED
      BY <1>8, <1>10, <3>1
  <2>3. result'[l] = "open" /\ \A k \in Locks \ {l} : result'[k] = result[k]
    BY <2>1 DEF TypeOK
  <2>4. {k \in Locks : result'[k] = "open"} = {l} \cup Waiting
    BY <2>1, <2>3 DEF LocksAccounted
  <2>5. listening' = 1
    BY <2>1 DEF LocksAccounted
  <2>6. LocksAccounted'
    <3>1. held' = fetching' \cup Dispatched' \cup armed' \cup GivenBack'
      BY <1>1, <1>3, <1>4, <1>5, <2>1, <2>2 DEF LocksAccounted
    <3>2. armed' \subseteq {active'} \cup Waiting'
      BY <1>4, <2>1, LockNumbers DEF LocksAccounted, TypeOK
    <3>3. armed' \cap (fetching' \cup Dispatched' \cup GivenBack') = {}
      BY <1>1, <1>3, <1>5, <2>1, <2>2 DEF LocksAccounted
    <3>4. {k \in Locks : result'[k] = "open"} = ({active'} \ {NoLock}) \cup Waiting'
      BY <1>4, <1>6, <2>1, <2>4
    <3> QED
      BY <1>6, <2>1, <2>2, <2>5, <3>1, <3>2, <3>3, <3>4 DEF LocksAccounted, OnceEach
  <2>7. \A k \in Locks \ {l} : Unborn(k) => Unborn(k)'
    BY <1>4, <2>1, <2>3 DEF Unborn
  <2>8. LocksApart'
    BY <1>1, <1>3, <1>4, <1>5, <1>6, <2>1, <2>2, <2>7 DEF LocksApart, OnceDispatched
  <2> QED
    BY <2>6, <2>8
<1> QED
  BY <1>11, <1>12, <1>13 DEF OnAlarm

LEMMA NextLocks == TypeOK /\ LocksInv /\ OffIsEmpty /\ [Next]_vars => LocksInv'
<1> SUFFICES ASSUME TypeOK, LocksInv, OffIsEmpty, [Next]_vars PROVE LocksInv'
  OBVIOUS
<1> USE DEF LocksInv
<1>0. OnceDispatched /\ OnceEach
  BY DEF LocksApart, OnceDispatched, LocksAccounted, OnceEach
<1>1. ASSUME UNCHANGED <<fetching, held, nextLock, toWorker, toMain, armed, active, listening,
                         waiting, result>>
      PROVE  LocksInv'
  BY <1>1 DEF LocksAccounted, LocksApart, Dispatched, GivenBack, Waiting, Unborn
<1>2. ASSUME GivenBack' = GivenBack, OnceEach',
             UNCHANGED <<fetching, held, nextLock, toWorker, armed, active, listening,
                         waiting, result>>
      PROVE  LocksInv'
  BY <1>2 DEF LocksAccounted, LocksApart, Dispatched, Waiting, Unborn, OnceEach
<1>3. CASE Boot
  BY <1>2, <1>3, ComesUpLocks DEF Boot, mainVars, locking
<1>4. CASE SystemReady
  <2>1. <<Hello>> \in Seq(ToMain) /\ toMain' = toMain \o <<Hello>>
    BY <1>4 DEF SystemReady, ToMain, TypeOK
  <2>2. LocksOf(<<Hello>>) = {} /\ \A k \in DOMAIN <<Hello>> : <<Hello>>[k].type # "unlock"
    BY DEF LocksOf, Hello
  <2>3. GivenBack' = GivenBack /\ OnceEach'
    BY <1>0, <2>1, <2>2, Sent
  <2> QED
    BY <1>2, <1>4, <2>3 DEF SystemReady, mainVars, locking
<1>5. CASE Close
  <2>1. Dispatched' = {} /\ GivenBack' = {} /\ Waiting' = {}
    BY <1>5 DEF Close, Dispatched, GivenBack, Waiting
  <2>2. OnceEach' /\ OnceDispatched' /\ \A i, j \in DOMAIN waiting' : waiting'[i] = waiting'[j] => i = j
    BY <1>5 DEF Close, OnceEach, OnceDispatched
  <2>3. {l \in Locks : result'[l] = "open"} = {}
    BY <1>5 DEF Close
  <2>4. \A l \in Locks : Unborn(l)'
    BY <1>5, <2>1, LockNumbers DEF Close, Unborn
  <2>5. LocksAccounted'
    BY <1>5, <2>1, <2>2, <2>3 DEF Close, LocksAccounted, OnceEach
  <2>6. LocksApart'
    BY <1>5, <2>1, <2>2, <2>4 DEF Close, LocksApart, OnceDispatched
  <2> QED
    BY <2>5, <2>6
<1>6. CASE AccountsChange
  BY <1>1, <1>6 DEF AccountsChange, mainVars, channels, locking
<1>7. ASSUME NEW x \in Alarm, AlarmFires(x) PROVE LocksInv'
  <2>1. /\ nextLock \in Locks /\ nextLock' = nextLock + 1
        /\ held' = held \cup {nextLock} /\ fetching' = fetching \cup {nextLock}
        /\ UNCHANGED <<toWorker, armed, active, listening, waiting, result>>
    BY <1>7 DEF AlarmFires, locking, TypeOK, Locks
  <2>2. GivenBack' = GivenBack /\ OnceEach'
    <3>1. CASE ComesUp
      BY <3>1, ComesUpLocks
    <3>2. CASE UNCHANGED toMain
      BY <1>0, <3>2 DEF GivenBack, OnceEach
    <3> QED
      BY <1>7, <3>1, <3>2 DEF AlarmFires
  <2>3. Dispatched' = Dispatched /\ Waiting' = Waiting /\ OnceDispatched'
    BY <1>0, <2>1 DEF Dispatched, Waiting, OnceDispatched
  <2>4. nextLock \in Nat /\ nextLock \notin held /\ Unborn(nextLock)
    BY <2>1, LockNumbers DEF LocksApart
  <2>5. nextLock \notin fetching \cup Dispatched \cup armed \cup GivenBack
    BY <2>4 DEF LocksAccounted
  <2>6. LocksAccounted'
    BY <2>1, <2>2, <2>3, <2>5 DEF LocksAccounted, OnceEach
  <2>7. \A l \in Locks : Unborn(l)' <=> Unborn(l)
    BY <2>1, <2>3 DEF Unborn
  <2>8. held' \subseteq 1..(nextLock' - 1)
    BY <2>1, <2>4 DEF LocksApart, TypeOK
  <2>9. \A l \in Locks : l \in fetching' \cup Dispatched' \/ l >= nextLock' => Unborn(l)'
    BY <2>1, <2>3, <2>4, <2>7, LockNumbers DEF LocksApart
  <2>10. LocksApart'
    BY <2>1, <2>2, <2>3, <2>5, <2>8, <2>9 DEF LocksApart, OnceDispatched
  <2> QED
    BY <2>6, <2>10
<1>8. ASSUME NEW left, EnsureEnds(left),
             UNCHANGED <<fetching, held, nextLock, toMain, armed, active, listening, waiting, result>>
      PROVE  LocksInv'
  <2>1. CASE left = {}
    <3>1. SyncEnsured \in ToWorker /\ SyncEnsured.lock = NoLock /\ NoLock \notin Dispatched
      BY DEF ToWorker, SyncEnsured, Dispatched
    <3>2. Dispatched' = Dispatched /\ OnceDispatched'
      BY <1>0, <1>8, <2>1, <3>1, Posted DEF EnsureEnds
    <3> QED
      BY <1>8, <3>2 DEF LocksAccounted, LocksApart, GivenBack, Waiting, Unborn, OnceDispatched
  <2>2. CASE left # {}
    BY <1>1, <1>8, <2>2 DEF EnsureEnds
  <2> QED
    BY <2>1, <2>2
<1>9. ASSUME NEW x \in Alarm, AlarmAdded(x) PROVE LocksInv'
  BY <1>8, <1>9 DEF AlarmAdded, locking
<1>10. ASSUME NEW x \in Alarm, AddFails(x) PROVE LocksInv'
  BY <1>8, <1>10 DEF AddFails, locking
<1>11. CASE GotAlarms
  BY <1>8, <1>11 DEF GotAlarms, locking
<1>12. ASSUME NEW l \in Locks, AlarmDispatch(l) PROVE LocksInv'
  <2>1. /\ l \in fetching /\ fetching' = fetching \ {l}
        /\ toWorker' = Append(toWorker, AlarmMsg(l))
        /\ UNCHANGED <<held, nextLock, toMain, armed, active, listening, waiting, result>>
    BY <1>12 DEF AlarmDispatch, locking
  <2>2. AlarmMsg(l) \in ToWorker /\ AlarmMsg(l).lock = l /\ l # NoLock
    BY UnlockIsMessage, LockNumbers DEF AlarmMsg
  <2>3. l \notin Dispatched
    BY <2>1 DEF LocksApart
  <2>4. Dispatched' = Dispatched \cup {l} /\ OnceDispatched'
    BY <1>0, <2>1, <2>2, <2>3, Posted
  <2>5. GivenBack' = GivenBack /\ Waiting' = Waiting /\ OnceEach'
    BY <1>0, <2>1 DEF GivenBack, Waiting, OnceEach
  <2>6. LocksAccounted'
    BY <2>1, <2>4, <2>5 DEF LocksAccounted, OnceEach
  <2>7. \A k \in Locks : Unborn(k)' <=> Unborn(k)
    BY <2>1, <2>5 DEF Unborn
  <2>8. LocksApart'
    BY <2>1, <2>3, <2>4, <2>5, <2>7 DEF LocksApart, OnceDispatched
  <2> QED
    BY <2>6, <2>8
<1>13. ASSUME NEW l \in Locks, TimeoutUnlock(l) PROVE LocksInv'
  <2>1. /\ l \in armed /\ armed' = armed \ {l} /\ toMain' = toMain \o <<Unlock(l)>>
        /\ UNCHANGED <<fetching, held, nextLock, toWorker, active, listening, waiting, result>>
    BY <1>13 DEF TimeoutUnlock, mainVars, TypeOK
  <2>2. <<Unlock(l)>> \in Seq(ToMain) /\ LocksOf(<<Unlock(l)>>) = {l}
    BY UnlockIsMessage, LockNumbers DEF LocksOf, Unlock
  <2>3. l \notin fetching \cup Dispatched \cup GivenBack
    BY <2>1 DEF LocksAccounted
  <2>4. \A j, k \in DOMAIN <<Unlock(l)>> : j = k
    OBVIOUS
  <2>5. GivenBack' = GivenBack \cup {l} /\ OnceEach'
    BY <1>0, <2>1, <2>2, <2>3, <2>4, Sent
  <2>6. Dispatched' = Dispatched /\ Waiting' = Waiting /\ OnceDispatched'
    BY <1>0, <2>1 DEF Dispatched, Waiting, OnceDispatched
  <2>7. LocksAccounted'
    BY <2>1, <2>3, <2>5, <2>6 DEF LocksAccounted, OnceEach
  <2>8. \A k \in Locks : Unborn(k)' <=> Unborn(k)
    BY <2>1, <2>6 DEF Unborn
  <2>9. LocksApart'
    BY <2>1, <2>3, <2>5, <2>6, <2>8 DEF LocksApart, OnceDispatched
  <2> QED
    BY <2>7, <2>9
<1>14. CASE MainReceives
  <2> DEFINE k == Head(toMain).lock
  <2>1. /\ toMain # << >> /\ toMain' = Tail(toMain) /\ held' = held \ {k}
        /\ UNCHANGED <<fetching, nextLock, toWorker, armed, active, listening, waiting, result>>
    BY <1>14 DEF MainReceives, locking
  <2>2. GivenBack' = GivenBack \ {k} /\ OnceEach' /\ (k # NoLock => k \in GivenBack)
    BY <1>0, <2>1, Received
  <2>3. k \notin fetching \cup Dispatched \cup armed
    <3>1. CASE k = NoLock
      BY <3>1, LockNumbers DEF TypeOK, Dispatched
    <3>2. CASE k # NoLock
      BY <2>2, <3>2 DEF LocksAccounted, LocksApart
    <3> QED
      BY <3>1, <3>2
  <2>4. Dispatched' = Dispatched /\ Waiting' = Waiting /\ OnceDispatched'
    BY <1>0, <2>1 DEF Dispatched, Waiting, OnceDispatched
  <2> HIDE DEF k
  <2>5. LocksAccounted'
    BY <2>1, <2>2, <2>3, <2>4 DEF LocksAccounted, OnceEach
  <2>6. \A l \in Locks : Unborn(l)' <=> Unborn(l)
    BY <2>1, <2>4 DEF Unborn
  <2>7. LocksApart'
    BY <2>1, <2>2, <2>4, <2>6 DEF LocksApart, OnceDispatched
  <2> QED
    BY <2>5, <2>7
<1>15. CASE GetAlarmsFails
  BY <1>1, <1>15 DEF GetAlarmsFails, channels, locking
<1>16. ASSUME NEW t \in Accounts \cup {Other}, TaskEnds(t) PROVE LocksInv'
  BY <1>16, EmptiedLocks DEF TaskEnds, mainVars
<1>17. ASSUME NEW a \in Accounts, SyncBlocks(a) PROVE LocksInv'
  BY <1>17, EmptiedLocks DEF SyncBlocks, mainVars
<1>18. ASSUME NEW a \in Accounts, SyncUnblocks(a) PROVE LocksInv'
  BY <1>1, <1>18 DEF SyncUnblocks, mainVars, channels, locking
<1>19. CASE OnSyncEnsured
  <2>1. /\ toWorker # << >> /\ Head(toWorker).lock = NoLock /\ toWorker' = Tail(toWorker)
        /\ waiting' = << >> /\ Completion(waiting)
        /\ UNCHANGED <<fetching, held, nextLock, active, listening>>
    BY <1>19 DEF OnSyncEnsured, SyncEnsured, mainVars
  <2>2. Dispatched' = Dispatched /\ OnceDispatched'
    <3>1. Dispatched' = Dispatched \ {NoLock} /\ OnceDispatched'
      BY <1>0, <2>1, Taken
    <3> QED
      BY <3>1 DEF Dispatched
  <2>3. /\ waiting \in Seq(Locks) /\ {waiting[i] : i \in DOMAIN waiting} = Waiting
        /\ \A i, j \in DOMAIN waiting : waiting[i] = waiting[j] => i = j
    BY DEF TypeOK, Waiting, LocksApart
  <2>4. /\ GivenBack' = GivenBack \cup (armed \cap Waiting)
        /\ OnceEach'
        /\ armed' = armed \ Waiting
        /\ \A l \in Waiting : result'[l] \notin {"open", "unborn"}
        /\ \A l \in Locks \ Waiting : result'[l] = result[l]
    BY <2>1, <2>3, CompletionLocks
  <2>5. Waiting' = {} /\ \A i, j \in DOMAIN waiting' : waiting'[i] = waiting'[j] => i = j
    BY <2>1 DEF Waiting
  <2>6. active \notin Waiting
    BY DEF LocksApart
  <2>7. {l \in Locks : result'[l] = "open"} = {active} \ {NoLock}
    BY <2>4, <2>6, WaitingAreLocks DEF LocksAccounted
  <2>8. LocksAccounted'
    BY <2>1, <2>2, <2>4, <2>5, <2>7 DEF LocksAccounted, OnceEach
  <2>9. \A l \in Locks : Unborn(l) => Unborn(l)'
    BY <2>1, <2>4, <2>5 DEF Unborn
  <2>10. \A l \in Waiting : l \notin fetching \cup Dispatched
    BY WaitingAreLocks DEF LocksApart, Unborn
  <2>11. LocksApart'
    BY <2>1, <2>2, <2>4, <2>5, <2>9, <2>10 DEF LocksApart, OnceDispatched
  <2> QED
    BY <2>8, <2>11
<1>20. CASE UNCHANGED vars
  BY <1>1, <1>20 DEF vars, mainVars, channels, locking
<1> QED
  BY <1>3, <1>4, <1>5, <1>6, <1>7, <1>9, <1>10, <1>11, <1>12, <1>13, <1>14, <1>15,
     <1>16, <1>17, <1>18, <1>19, <1>20, AlarmLocks DEF Next

-----------------------------------------------------------------------------
(* ensureSync. *)

LEMMA InitRequest == Init => OneRequest
BY DEF Init, OneRequest, NoRequest, AskedOnce, EndsOnce, Asking, Ended

LEMMA NextOff == OffIsEmpty /\ [Next]_vars => OffIsEmpty'
<1> SUFFICES ASSUME OffIsEmpty, [Next]_vars, phase' = "off"
             PROVE  OffIsEmpty'
  BY DEF OffIsEmpty
<1>1. CASE Close
  BY <1>1 DEF Close, OffIsEmpty
<1>2. CASE phase = "off" /\ ~Close
  <2>1. /\ fetching = {} /\ request.stage = "none" /\ toMain = << >> /\ toWorker = << >>
        /\ armed = {} /\ active = NoLock /\ waiting = << >> /\ ~promise
    BY <1>2 DEF OffIsEmpty, NoRequest
  <2>2. CASE AccountsChange \/ UNCHANGED vars
    BY <1>2, <2>2 DEF OffIsEmpty, AccountsChange, vars, mainVars, channels, locking
  <2>3. ASSUME NEW a \in Accounts, SyncUnblocks(a) PROVE OffIsEmpty'
    BY <1>2, <2>3 DEF OffIsEmpty, SyncUnblocks, mainVars, channels, locking
  <2>4. ~Boot /\ \A x \in Alarm : ~AlarmFires(x)
    BY <1>2 DEF Boot, ComesUp, AlarmFires
  <2>5. ~SystemReady /\ ~MainReceives /\ ~OnSyncEnsured /\ ~GotAlarms /\ ~GetAlarmsFails
    BY <1>2, <2>1 DEF SystemReady, MainReceives, OnSyncEnsured, GotAlarms, GetAlarmsFails
  <2>6. \A x \in Alarm : ~AlarmAdded(x) /\ ~AddFails(x)
    BY <2>1 DEF AlarmAdded, AddFails
  <2>7. \A l \in Locks : ~AlarmDispatch(l) /\ ~TimeoutUnlock(l)
    BY <2>1 DEF AlarmDispatch, TimeoutUnlock
  <2>8. \A l \in Locks, notified \in SUBSET Accounts : ~OnAlarm(l, notified)
    BY <2>1 DEF OnAlarm
  <2>9. (\A t \in Accounts \cup {Other} : ~TaskEnds(t)) /\ \A a \in Accounts : ~SyncBlocks(a)
    BY <1>2 DEF TaskEnds, SyncBlocks
  <2> QED
    BY <1>2, <2>2, <2>3, <2>4, <2>5, <2>6, <2>7, <2>8, <2>9 DEF Next
<1>3. CASE phase # "off" /\ ~Close
  <2>1. ASSUME UNCHANGED phase PROVE FALSE
    BY <1>3, <2>1
  <2> QED
    BY <1>3, <2>1
    DEF Next, vars, mainVars, channels, locking, tasks, seen, Boot, ComesUp, SystemReady, AccountsChange, AlarmFires,
        AlarmAdded, AddFails, AlarmDispatch, TimeoutUnlock, MainReceives, GotAlarms,
        GetAlarmsFails, OnAlarm, TaskEnds, SyncBlocks, SyncUnblocks, OnSyncEnsured
<1> QED
  BY <1>1, <1>2, <1>3

\* Messages that ask for nothing.
LEMMA SentNoRequest ==
    ASSUME TypeOK, NEW s \in Seq(ToMain), toMain' = toMain \o s, asked' = asked,
           \A k \in DOMAIN s : s[k].type # "ensureSync"
    PROVE  (AskedOnce => AskedOnce') /\ (Asking' => Asking)
<1>1. /\ toMain \in Seq(ToMain) /\ Len(toMain) \in Nat /\ Len(s) \in Nat
      /\ DOMAIN toMain = 1..Len(toMain) /\ DOMAIN s = 1..Len(s)
  BY DEF TypeOK
<1>2. /\ DOMAIN toMain' = 1..(Len(toMain) + Len(s))
      /\ \A i \in 1..Len(toMain) : toMain'[i] = toMain[i]
      /\ \A k \in 1..Len(s) : toMain'[Len(toMain) + k] = s[k]
  BY <1>1
<1>3. ASSUME NEW i \in DOMAIN toMain', toMain'[i].type = "ensureSync"
      PROVE  i \in DOMAIN toMain /\ toMain'[i] = toMain[i]
  <2>1. CASE i \notin DOMAIN toMain
    <3>1. i - Len(toMain) \in DOMAIN s /\ i = Len(toMain) + (i - Len(toMain))
      BY <1>1, <1>2, <2>1
    <3>2. toMain'[i] = s[i - Len(toMain)]
      BY <1>1, <1>2, <3>1
    <3> QED
      BY <1>3, <3>1, <3>2
  <2> QED
    BY <1>1, <1>2, <2>1
<1> QED
  BY <1>3 DEF AskedOnce, Asking

LEMMA ReceivedRequest ==
    ASSUME TypeOK, AskedOnce, toMain # << >>, toMain' = Tail(toMain), asked' = asked
    PROVE  /\ AskedOnce' /\ (Asking' => Asking)
           /\ Head(toMain).type = "ensureSync" => Asking /\ ~Asking' /\ Head(toMain).data = asked
<1>1. /\ toMain \in Seq(ToMain) /\ Len(toMain) \in Nat /\ Len(toMain) # 0
      /\ DOMAIN toMain = 1..Len(toMain) /\ Head(toMain) = toMain[1]
      /\ DOMAIN toMain' = 1..(Len(toMain) - 1)
      /\ \A i \in 1..(Len(toMain) - 1) : toMain'[i] = toMain[i + 1]
  BY DEF TypeOK
<1>2. 1 \in DOMAIN toMain
  BY <1>1
<1>3. \A i \in DOMAIN toMain' : i + 1 \in DOMAIN toMain /\ i + 1 # 1 /\ toMain'[i] = toMain[i + 1] /\ i \in Int
  BY <1>1
<1>4. AskedOnce'
  BY <1>3 DEF AskedOnce
<1> QED
  BY <1>1, <1>2, <1>3, <1>4 DEF AskedOnce, Asking

LEMMA PostedEnd ==
    ASSUME TypeOK, NEW m \in ToWorker, toWorker' = Append(toWorker, m)
    PROVE  /\ m # SyncEnsured => (EndsOnce => EndsOnce') /\ (Ended' => Ended)
           /\ ~Ended => EndsOnce'
<1>1. /\ toWorker \in Seq(ToWorker) /\ Len(toWorker) \in Nat
      /\ DOMAIN toWorker = 1..Len(toWorker)
      /\ DOMAIN toWorker' = 1..(Len(toWorker) + 1)
      /\ toWorker'[Len(toWorker) + 1] = m
      /\ \A i \in DOMAIN toWorker : toWorker'[i] = toWorker[i]
  BY DEF TypeOK
<1>2. DOMAIN toWorker' = DOMAIN toWorker \cup {Len(toWorker) + 1}
  BY <1>1
<1> QED
  BY <1>1, <1>2 DEF EndsOnce, Ended

LEMMA TakenEnd ==
    ASSUME TypeOK, EndsOnce, toWorker # << >>, toWorker' = Tail(toWorker)
    PROVE  /\ EndsOnce' /\ (Ended' => Ended)
           /\ Head(toWorker) = SyncEnsured => Ended /\ ~Ended'
<1>1. /\ toWorker \in Seq(ToWorker) /\ Len(toWorker) \in Nat /\ Len(toWorker) # 0
      /\ DOMAIN toWorker = 1..Len(toWorker) /\ Head(toWorker) = toWorker[1]
      /\ DOMAIN toWorker' = 1..(Len(toWorker) - 1)
      /\ \A i \in 1..(Len(toWorker) - 1) : toWorker'[i] = toWorker[i + 1]
  BY DEF TypeOK
<1>2. 1 \in DOMAIN toWorker
  BY <1>1
<1>3. \A i \in DOMAIN toWorker' : i + 1 \in DOMAIN toWorker /\ i + 1 # 1 /\ toWorker'[i] = toWorker[i + 1] /\ i \in Int
  BY <1>1
<1>4. EndsOnce'
  BY <1>3 DEF EndsOnce
<1> QED
  BY <1>1, <1>2, <1>3, <1>4 DEF EndsOnce, Ended

\* A request is made when none is under way.
LEMMA ComesUpRequest ==
    ASSUME OffIsEmpty, ComesUp, UNCHANGED <<request, toWorker>>
    PROVE  OneRequest'
<1>1. /\ toMain' = <<EnsureSync(SyncData(accounts))>> /\ asked' = SyncData(accounts)
      /\ toWorker' = << >> /\ request'.stage = "none" /\ promise'
  BY DEF OffIsEmpty, ComesUp, NoRequest
<1>2. DOMAIN toMain' = {1} /\ toMain'[1].data = asked'
  BY <1>1 DEF EnsureSync
<1>3. AskedOnce' /\ EndsOnce' /\ ~Ended'
  BY <1>1, <1>2 DEF AskedOnce, EndsOnce, Ended
<1> QED
  BY <1>1, <1>3 DEF OneRequest

\* Steps that leave ensureSync alone.
LEMMA QuietRequest ==
    ASSUME OneRequest, AskedOnce', EndsOnce', Asking' => Asking, Ended' => Ended,
           UNCHANGED <<request, asked, promise>>, phase' = phase \/ phase # "off", Seen \subseteq Seen'
    PROVE  OneRequest'
BY DEF OneRequest

LEMMA SameChannels ==
    ASSUME OneRequest, UNCHANGED <<toMain, toWorker, asked>>
    PROVE  /\ AskedOnce' /\ EndsOnce' /\ Asking' = Asking /\ Ended' = Ended
           /\ Dispatched' = Dispatched
BY DEF OneRequest, AskedOnce, EndsOnce, Asking, Ended, Dispatched

\* Completion and taskQueueEmpty send unlocks only.
LEMMA CompletionRequest ==
    ASSUME TypeOK, NEW ls \in Seq(Locks), Completion(ls), asked' = asked
    PROVE  (AskedOnce => AskedOnce') /\ (Asking' => Asking)
<1>0. UnlockAll(ls)
  BY DEF Completion
<1>3. \E s \in Seq(ToMain) :
        /\ toMain' = toMain \o s
        /\ \A k \in DOMAIN s : \E i \in DOMAIN ls : ls[i] \in armed /\ s[k] = Unlock(ls[i])
        /\ \A i \in DOMAIN ls : ls[i] \in armed => \E k \in DOMAIN s : s[k] = Unlock(ls[i])
        /\ (\A i, j \in DOMAIN ls : ls[i] = ls[j] => i = j)
              => \A j, k \in DOMAIN s : s[j] = s[k] => j = k
  BY <1>0, CompletionSends
<1>1. PICK s \in Seq(ToMain) :
        /\ toMain' = toMain \o s
        /\ \A k \in DOMAIN s : \E i \in DOMAIN ls : ls[i] \in armed /\ s[k] = Unlock(ls[i])
  BY <1>3
<1>2. \A k \in DOMAIN s : s[k].type # "ensureSync"
  BY <1>1 DEF Unlock
<1> QED
  BY <1>1, <1>2, SentNoRequest

LEMMA EmptiedRequest ==
    ASSUME TypeOK, LocksInv, Emptied, asked' = asked
    PROVE  (AskedOnce => AskedOnce') /\ (Asking' => Asking)
<1>1. CASE toMain' = toMain
  BY <1>1 DEF AskedOnce, Asking
<1>2. ASSUME work' = {}, listening > 0, ~promise, VictoriousCompletion
      PROVE  (AskedOnce => AskedOnce') /\ (Asking' => Asking)
  <2>1. active \in Locks /\ Completion(<<active>>)
    BY <1>2 DEF LocksInv, LocksAccounted, TypeOK, VictoriousCompletion
  <2>2. <<active>> \in Seq(Locks)
    BY <2>1
  <2> QED
    BY <2>1, <2>2, CompletionRequest
<1> QED
  BY <1>1, <1>2 DEF Emptied, VictoriousCompletion

\* What the turn of an alarm sends besides unlocks.
LEMMA AlarmRequest ==
    ASSUME TypeOK, LocksInv, OneRequest, NEW l \in Locks, NEW notified, OnAlarm(l, notified)
    PROVE  OneRequest'
<1>1. /\ toWorker # << >> /\ Head(toWorker) = AlarmMsg(l) /\ toWorker' = Tail(toWorker)
      /\ Head(toWorker).lock = l
      /\ UNCHANGED <<fetching, firedAs, alarms, request, phase>> /\ Ensured(l)
  BY DEF OnAlarm, AlarmMsg, mainVars
<1>2. EndsOnce' /\ (Ended' => Ended)
  BY <1>1, TakenEnd DEF OneRequest
<1>3. OnceDispatched
  BY DEF LocksInv, LocksApart, OnceDispatched
<1>4. Dispatched' = Dispatched \ {l}
  BY <1>1, <1>3, Taken
<1>5. InFlight \subseteq InFlight' \cup {firedAs[l]}
  BY <1>1, <1>4 DEF InFlight
<1>6. \E s \in Seq(ToMain) : /\ toMain' = toMain \o EnsureMsgs \o s
                            /\ \A k \in DOMAIN s : s[k].type # "ensureSync"
  <2>1. << >> \in Seq(ToMain) /\ \A k \in DOMAIN << >> : << >>[k].type # "ensureSync"
    OBVIOUS
  <2>2. ASSUME NEW k \in Locks
        PROVE  <<Unlock(k)>> \in Seq(ToMain) /\ \A i \in DOMAIN <<Unlock(k)>> : <<Unlock(k)>>[i].type # "ensureSync"
    <3>1. Unlock(k) \in ToMain /\ Unlock(k).type # "ensureSync"
      BY UnlockIsMessage DEF Unlock
    <3> QED
      BY <3>1
  <2>3. CASE HandOff(l)
    <3>1. active \in Locks /\ toMain' = toMain \o EnsureMsgs \o Unlocks(active)
      BY <2>3 DEF HandOff, TypeOK
    <3> QED
      BY <2>1, <2>2, <3>1 DEF Unlocks
  <2>4. CASE NoHandOff(l)
    BY <2>2, <2>4 DEF NoHandOff
  <2>5. CASE Begin(l, notified)
    <3>1. toMain' = toMain \o EnsureMsgs /\ toMain \in Seq(ToMain) /\ EnsureMsgs \in Seq(ToMain)
      BY <2>5, WhatIsAsked DEF Begin, TypeOK
    <3>2. toMain' = toMain \o EnsureMsgs \o << >>
      BY <3>1
    <3> QED
      BY <2>1, <3>2
  <2> QED
    BY <2>3, <2>4, <2>5 DEF OnAlarm
<1>7. PICK s \in Seq(ToMain) : /\ toMain' = toMain \o EnsureMsgs \o s
                              /\ \A k \in DOMAIN s : s[k].type # "ensureSync"
  BY <1>6
<1>8. toMain \in Seq(ToMain) /\ EnsureMsgs \in Seq(ToMain)
  BY WhatIsAsked DEF TypeOK
<1>9. CASE promise
  <2>1. EnsureMsgs = << >> /\ UNCHANGED <<promise, asked, failed>>
    BY <1>1, <1>9 DEF EnsureMsgs, Ensured
  <2>2. toMain' = toMain \o s
    BY <1>7, <1>8, <2>1
  <2>3. (AskedOnce => AskedOnce') /\ (Asking' => Asking)
    BY <1>7, <2>1, <2>2, SentNoRequest
  <2>4. CASE Looked
    <3>1. Seen \subseteq Seen'
      BY <1>1, <1>5, <1>9, <2>1, <2>4 DEF Seen, Ensured
    <3> QED
      BY <1>1, <1>2, <2>1, <2>3, <3>1 DEF OneRequest
  <2>5. CASE ~Looked
    <3>1. request.stage # "adding" /\ ~Ended
      BY <2>5 DEF Looked, Ended
    <3> QED
      BY <1>1, <1>2, <1>9, <2>1, <2>3, <3>1 DEF OneRequest
  <2> QED
    BY <2>4, <2>5
<1>10. CASE ~promise
  <2> DEFINE m == EnsureSync(SyncData(accounts))
  <2>1. /\ EnsureMsgs = <<m>> /\ promise' /\ asked' = SyncData(accounts)
        /\ m \in ToMain /\ m.type = "ensureSync" /\ m.data = asked'
    BY <1>1, <1>10, WhatIsAsked DEF EnsureMsgs, Ensured, EnsureSync
  <2>2. ~Asking /\ ~Ended /\ request.stage = "none" /\ request'.stage = "none"
    BY <1>1, <1>10 DEF OneRequest, TypeOK
  <2> HIDE DEF m
  <2>3. /\ Len(toMain) \in Nat /\ Len(s) \in Nat
        /\ DOMAIN toMain = 1..Len(toMain) /\ DOMAIN s = 1..Len(s)
        /\ DOMAIN toMain' = 1..(Len(toMain) + 1 + Len(s))
        /\ \A i \in 1..Len(toMain) : toMain'[i] = toMain[i]
        /\ toMain'[Len(toMain) + 1] = m
        /\ \A k \in 1..Len(s) : toMain'[Len(toMain) + 1 + k] = s[k]
    BY <1>7, <1>8, <2>1
  <2>4. ASSUME NEW i \in DOMAIN toMain', toMain'[i].type = "ensureSync"
        PROVE  i = Len(toMain) + 1
    <3>1. CASE i \in 1..Len(toMain)
      BY <2>2, <2>3, <2>4, <3>1 DEF Asking
    <3>2. CASE i > Len(toMain) + 1
      <4>0. i \in Nat /\ i <= Len(toMain) + 1 + Len(s) /\ Len(toMain) \in Nat /\ Len(s) \in Nat
        BY <2>3
      <4>1. i - Len(toMain) - 1 \in 1..Len(s) /\ i = Len(toMain) + 1 + (i - Len(toMain) - 1)
        BY <3>2, <4>0
      <4>2. toMain'[i] = s[i - Len(toMain) - 1]
        BY <2>3, <4>1
      <4> QED
        BY <1>7, <2>3, <2>4, <4>1, <4>2
    <3> QED
      BY <2>3, <3>1, <3>2
  <2>5. AskedOnce'
    BY <2>1, <2>3, <2>4 DEF AskedOnce
  <2> QED
    BY <1>2, <2>1, <2>2, <2>5 DEF OneRequest
<1> QED
  BY <1>9, <1>10

\* The end of a request: the answer is on its way.
LEMMA EndsRequest ==
    ASSUME TypeOK, OneRequest, request.stage # "none", NEW left \in SUBSET Alarm, EnsureEnds(left),
           UNCHANGED <<toMain, asked, promise, phase>>, asked \ left \subseteq Seen'
    PROVE  OneRequest'
<1>1. ~Ended /\ ~Asking /\ promise /\ AskedOnce' /\ ~Asking' /\ promise'
  BY DEF OneRequest, AskedOnce, Asking
<1>2. CASE left = {}
  <2>1. SyncEnsured \in ToWorker /\ toWorker' = Append(toWorker, SyncEnsured)
    BY <1>2 DEF EnsureEnds, ToWorker
  <2>2. EndsOnce'
    BY <1>1, <2>1, PostedEnd
  <2>3. request'.stage = "none" /\ asked' \subseteq Seen'
    BY <1>2 DEF EnsureEnds, NoRequest
  <2> QED
    BY <1>1, <2>2, <2>3 DEF OneRequest
<1>3. CASE left # {}
  <2>1. request'.stage = "adding" /\ request'.left = left /\ toWorker' = toWorker
    BY <1>3 DEF EnsureEnds
  <2>2. EndsOnce' /\ ~Ended'
    BY <1>1, <2>1 DEF OneRequest, EndsOnce, Ended
  <2> QED
    BY <1>1, <2>1, <2>2 DEF OneRequest
<1> QED
  BY <1>2, <1>3

LEMMA EndKeepsFlight ==
    ASSUME TypeOK, NEW left \in SUBSET Alarm, EnsureEnds(left), UNCHANGED <<fetching, firedAs>>
    PROVE  InFlight' = InFlight
<1>1. Dispatched' = Dispatched
  <2>1. CASE left = {}
    <3>1. SyncEnsured \in ToWorker /\ SyncEnsured.lock = NoLock /\ toWorker' = Append(toWorker, SyncEnsured)
      BY <2>1 DEF EnsureEnds, ToWorker, SyncEnsured
    <3>2. Dispatched' = Dispatched \cup ({SyncEnsured.lock} \ {NoLock})
      BY <3>1, Posted
    <3> QED
      BY <3>1, <3>2
  <2>2. CASE left # {}
    BY <2>2 DEF EnsureEnds, Dispatched
  <2> QED
    BY <2>1, <2>2
<1> QED
  BY <1>1 DEF InFlight

LEMMA NextRequest == TypeOK /\ LocksInv /\ OneRequest /\ OffIsEmpty /\ [Next]_vars => OneRequest'
<1> SUFFICES ASSUME TypeOK, LocksInv, OneRequest, OffIsEmpty, [Next]_vars PROVE OneRequest'
  OBVIOUS
<1>0. AskedOnce /\ EndsOnce /\ OnceDispatched
  BY DEF OneRequest, LocksInv, LocksApart, OnceDispatched
<1>1. ASSUME UNCHANGED <<alarms, fetching, firedAs, toMain, toWorker, request, promise, asked,
                         failed, missed>>,
             phase' = phase \/ phase # "off"
      PROVE  OneRequest'
  <2>1. Seen' = Seen
    BY <1>1, SameChannels DEF Seen, InFlight
  <2> QED
    BY <1>1, <2>1, SameChannels, QuietRequest
<1>2. ASSUME UNCHANGED <<alarms, fetching, firedAs, toWorker, request, promise, asked,
                         failed, missed>>,
             phase' = phase \/ phase # "off", AskedOnce', Asking' => Asking
      PROVE  OneRequest'
  <2>1. Dispatched' = Dispatched /\ EndsOnce' /\ Ended' = Ended
    BY <1>0, <1>2 DEF Dispatched, EndsOnce, Ended
  <2>2. Seen' = Seen
    BY <1>2, <2>1 DEF Seen, InFlight
  <2> QED
    BY <1>2, <2>1, <2>2, QuietRequest
<1>3. CASE Boot
  BY <1>3, ComesUpRequest DEF Boot, mainVars
<1>4. CASE SystemReady
  <2>1. <<Hello>> \in Seq(ToMain) /\ toMain' = toMain \o <<Hello>>
    BY <1>4 DEF SystemReady, ToMain, TypeOK
  <2>2. \A k \in DOMAIN <<Hello>> : <<Hello>>[k].type # "ensureSync"
    BY DEF Hello
  <2>3. phase # "off" /\ asked' = asked
    BY <1>4 DEF SystemReady, seen
  <2>4. AskedOnce' /\ (Asking' => Asking)
    BY <1>0, <2>1, <2>2, <2>3, SentNoRequest
  <2> QED
    BY <1>2, <1>4, <2>3, <2>4 DEF SystemReady, mainVars, seen
<1>5. CASE Close
  BY <1>5 DEF Close, OneRequest, AskedOnce, EndsOnce, Asking, Ended, NoRequest
<1>6. CASE AccountsChange
  BY <1>1, <1>6 DEF AccountsChange, mainVars, channels, seen
<1>7. ASSUME NEW x \in Alarm, AlarmFires(x) PROVE OneRequest'
  <2>1. CASE ComesUp
    BY <1>7, <2>1, ComesUpRequest DEF AlarmFires
  <2>2. CASE UNCHANGED <<phase, promise, toMain, tasks, seen>>
    <3>1. /\ alarms' = alarms \ {x} /\ nextLock \in Locks
          /\ firedAs' = [firedAs EXCEPT ![nextLock] = x]
          /\ fetching' = fetching \cup {nextLock}
          /\ UNCHANGED <<toWorker, request>>
      BY <1>7 DEF AlarmFires, TypeOK, Locks
    <3>2. nextLock \notin fetching \cup Dispatched
      BY <3>1, LockNumbers DEF LocksInv, LocksApart, LocksAccounted
    <3>3. Dispatched' = Dispatched /\ Dispatched \subseteq Locks /\ fetching \subseteq Locks
      <4>1. \A i \in DOMAIN toWorker : toWorker[i] \in ToWorker
        BY DEF TypeOK
      <4>2. Dispatched \subseteq Locks
        BY <4>1, MessageShape DEF Dispatched
      <4> QED
        BY <3>1, <4>2 DEF Dispatched, TypeOK
    <3>4. firedAs'[nextLock] = x /\ \A l \in Locks \ {nextLock} : firedAs'[l] = firedAs[l]
      BY <3>1 DEF TypeOK
    <3>5. InFlight \cup {x} \subseteq InFlight'
      BY <3>1, <3>2, <3>3, <3>4 DEF InFlight
    <3>6. Seen \subseteq Seen'
      BY <2>2, <3>1, <3>5 DEF Seen, seen
    <3>7. /\ AskedOnce' /\ EndsOnce' /\ (Asking' => Asking) /\ (Ended' => Ended)
      BY <1>0, <2>2, <3>1, SameChannels DEF seen
    <3> QED
      BY <2>2, <3>1, <3>6, <3>7, QuietRequest DEF seen
  <2> QED
    BY <1>7, <2>1, <2>2 DEF AlarmFires
<1>8. ASSUME NEW x \in Alarm, AlarmAdded(x) PROVE OneRequest'
  <2>1. /\ request.stage = "adding" /\ alarms' = alarms \cup {x} /\ EnsureEnds(request.left \ {x})
        /\ UNCHANGED <<fetching, firedAs, toMain, asked, promise, phase, failed, missed>>
    BY <1>8 DEF AlarmAdded
  <2>2. request.left \ {x} \in SUBSET Alarm
    BY DEF TypeOK
  <2>3. InFlight' = InFlight
    BY <2>1, <2>2, EndKeepsFlight
  <2>4. asked \ (request.left \ {x}) \subseteq Seen'
    BY <2>1, <2>3 DEF OneRequest, Seen
  <2> QED
    BY <2>1, <2>2, <2>4, EndsRequest
<1>9. ASSUME NEW x \in Alarm, AddFails(x) PROVE OneRequest'
  <2>1. /\ request.stage = "adding" /\ failed' = failed \cup {x} /\ EnsureEnds(request.left \ {x})
        /\ UNCHANGED <<fetching, firedAs, toMain, asked, promise, phase, alarms, missed>>
    BY <1>9 DEF AddFails
  <2>2. request.left \ {x} \in SUBSET Alarm
    BY DEF TypeOK
  <2>3. InFlight' = InFlight
    BY <2>1, <2>2, EndKeepsFlight
  <2>4. asked \ (request.left \ {x}) \subseteq Seen'
    BY <2>1, <2>3 DEF OneRequest, Seen
  <2> QED
    BY <2>1, <2>2, <2>4, EndsRequest
<1>10. CASE GotAlarms
  <2>1. /\ request.stage = "getAll" /\ alarms' = alarms \cap request.left
        /\ EnsureEnds(request.left \ alarms)
        /\ UNCHANGED <<fetching, firedAs, toMain, asked, promise, phase, failed, missed>>
    BY <1>10 DEF GotAlarms, seen
  <2>2. request.left \ alarms \in SUBSET Alarm /\ request.left = asked
    BY <2>1 DEF TypeOK, OneRequest
  <2>4. asked \ (request.left \ alarms) \subseteq Seen'
    BY <2>1, <2>2 DEF Seen
  <2> QED
    BY <2>1, <2>2, <2>4, EndsRequest
<1>11. CASE GetAlarmsFails
  <2>1. /\ request.stage # "none" /\ request'.stage = "none"
        /\ UNCHANGED <<alarms, fetching, firedAs, toMain, toWorker, promise, asked, failed, missed, phase>>
    BY <1>11 DEF GetAlarmsFails, NoRequest, channels, seen
  <2>2. /\ AskedOnce' /\ EndsOnce' /\ Asking' = Asking /\ Ended' = Ended
    BY <2>1, SameChannels
  <2> QED
    BY <2>1, <2>2 DEF OneRequest
<1>12. ASSUME NEW l \in Locks, AlarmDispatch(l) PROVE OneRequest'
  <2>1. /\ l \in fetching /\ fetching' = fetching \ {l}
        /\ toWorker' = Append(toWorker, AlarmMsg(l))
        /\ UNCHANGED <<alarms, firedAs, request, toMain, phase, promise, asked, failed, missed>>
    BY <1>12 DEF AlarmDispatch, seen
  <2>2. AlarmMsg(l) \in ToWorker /\ AlarmMsg(l).lock = l /\ l # NoLock /\ AlarmMsg(l) # SyncEnsured
    BY UnlockIsMessage, LockNumbers DEF AlarmMsg, SyncEnsured
  <2>3. Dispatched' = Dispatched \cup {l}
    BY <2>1, <2>2, Posted
  <2>4. InFlight' = InFlight
    BY <2>1, <2>3 DEF InFlight
  <2>5. EndsOnce' /\ (Ended' => Ended)
    BY <1>0, <2>1, <2>2, PostedEnd
  <2>6. AskedOnce' /\ (Asking' => Asking) /\ Seen' = Seen
    BY <1>0, <2>1, <2>4 DEF AskedOnce, Asking, Seen
  <2> QED
    BY <2>1, <2>5, <2>6, QuietRequest
<1>13. ASSUME NEW l \in Locks, TimeoutUnlock(l) PROVE OneRequest'
  <2>0. toMain' = Append(toMain, Unlock(l)) /\ UNCHANGED <<mainVars, toWorker, phase, promise, seen>>
    BY <1>13 DEF TimeoutUnlock
  <2>4. Unlock(l) \in ToMain /\ toMain \in Seq(ToMain)
    BY UnlockIsMessage DEF TypeOK
  <2>1. /\ toMain' = toMain \o <<Unlock(l)>> /\ <<Unlock(l)>> \in Seq(ToMain)
        /\ UNCHANGED <<mainVars, toWorker, phase, promise, seen>>
    BY <2>0, <2>4
  <2>2. \A k \in DOMAIN <<Unlock(l)>> : <<Unlock(l)>>[k].type # "ensureSync"
    <3>1. Unlock(l).type # "ensureSync"
      BY DEF Unlock
    <3> QED
      BY <3>1
  <2>3. AskedOnce' /\ (Asking' => Asking)
    BY <1>0, <2>1, <2>2, SentNoRequest DEF seen
  <2> QED
    BY <1>2, <2>1, <2>3 DEF mainVars, seen
<1>14. CASE MainReceives
  <2>1. /\ toMain # << >> /\ toMain' = Tail(toMain)
        /\ request' = IF Head(toMain).type = "ensureSync"
                      THEN [stage |-> "getAll", left |-> Head(toMain).data] ELSE request
        /\ UNCHANGED <<alarms, fetching, firedAs, toWorker, promise, asked, failed, missed, phase>>
    BY <1>14 DEF MainReceives, seen
  <2>2. /\ AskedOnce' /\ (Asking' => Asking)
        /\ Head(toMain).type = "ensureSync" => Asking /\ ~Asking' /\ Head(toMain).data = asked
    BY <1>0, <2>1, ReceivedRequest
  <2>3. CASE Head(toMain).type = "ensureSync"
    <3>1. /\ promise /\ ~Ended /\ ~Asking' /\ request'.stage = "getAll" /\ request'.left = asked
      BY <2>1, <2>2, <2>3 DEF OneRequest
    <3>2. EndsOnce' /\ ~Ended'
      BY <1>0, <2>1, <3>1 DEF EndsOnce, Ended
    <3> QED
      BY <2>1, <2>2, <3>1, <3>2 DEF OneRequest
  <2>4. CASE Head(toMain).type # "ensureSync"
    BY <1>2, <2>1, <2>2, <2>4
  <2> QED
    BY <2>3, <2>4
<1>15. ASSUME NEW t \in Accounts \cup {Other}, TaskEnds(t) PROVE OneRequest'
  <2>1. Emptied /\ UNCHANGED <<mainVars, toWorker, phase, promise, seen>>
    BY <1>15 DEF TaskEnds
  <2>2. AskedOnce' /\ (Asking' => Asking)
    BY <1>0, <2>1, EmptiedRequest DEF seen
  <2> QED
    BY <1>2, <2>1, <2>2 DEF mainVars, seen
<1>16. ASSUME NEW a \in Accounts, SyncBlocks(a) PROVE OneRequest'
  <2>1. Emptied /\ UNCHANGED <<mainVars, toWorker, phase, promise, seen>>
    BY <1>16 DEF SyncBlocks
  <2>2. AskedOnce' /\ (Asking' => Asking)
    BY <1>0, <2>1, EmptiedRequest DEF seen
  <2> QED
    BY <1>2, <2>1, <2>2 DEF mainVars, seen
<1>17. ASSUME NEW a \in Accounts, SyncUnblocks(a) PROVE OneRequest'
  BY <1>1, <1>17 DEF SyncUnblocks, mainVars, channels, seen
<1>18. CASE OnSyncEnsured
  <2>1. /\ toWorker # << >> /\ Head(toWorker) = SyncEnsured /\ Head(toWorker).lock = NoLock
        /\ toWorker' = Tail(toWorker)
        /\ ~promise' /\ Completion(waiting)
        /\ UNCHANGED <<alarms, fetching, firedAs, request, phase, asked, failed, missed>>
    BY <1>18 DEF OnSyncEnsured, SyncEnsured, mainVars
  <2>2. /\ EndsOnce' /\ Ended /\ ~Ended'
    BY <1>0, <2>1, TakenEnd
  <2>3. waiting \in Seq(Locks)
    BY DEF TypeOK
  <2>4. AskedOnce' /\ (Asking' => Asking)
    BY <1>0, <2>1, <2>3, CompletionRequest
  <2>5. Dispatched' = Dispatched
    <3>1. Dispatched' = Dispatched \ {NoLock}
      BY <1>0, <2>1, Taken
    <3> QED
      BY <3>1 DEF Dispatched
  <2>6. Seen' = Seen
    BY <2>1, <2>5 DEF Seen, InFlight
  <2>7. ~Asking /\ request.stage = "none" /\ asked \subseteq Seen
    BY <2>2 DEF OneRequest
  <2> QED
    BY <2>1, <2>2, <2>4, <2>6, <2>7 DEF OneRequest
<1>19. CASE UNCHANGED vars
  BY <1>1, <1>19 DEF vars, mainVars, channels, seen
<1> QED
  BY <1>3, <1>4, <1>5, <1>6, <1>7, <1>8, <1>9, <1>10, <1>11, <1>12, <1>13, <1>14,
     <1>15, <1>16, <1>17, <1>18, <1>19, AlarmRequest DEF Next

-----------------------------------------------------------------------------
(* The theorems. *)

LEMMA CronInvHolds == Spec => []CronInv
<1>1. Init => CronInv
  BY InitTyped, InitLocks, InitRequest DEF CronInv, LocksInv
<1>2. CronInv /\ [Next]_vars => CronInv'
  BY NextTyped, NextLocks, NextRequest, NextOff DEF CronInv, LocksInv
<1> QED
  BY <1>1, <1>2, PTL DEF Spec

\* Every wake lock the document holds is accounted for by one party only, and
\* ensureSync keeps its promise, for any number of accounts, intervals, alarms
\* and faults: what wakelocks-main, SmartWakeLock and cronsync_support do
\* together.
THEOREM CronInStepHolds == Spec => []CronInStep
<1>1. CronInv => CronInStep
  BY DEF CronInv, CronInStep, OneRequest, AlarmsEnsuredUnlessMissed, Seen
<1> QED
  BY <1>1, CronInvHolds, PTL

\* A step that reports the end of a cron sync is a task's end with no
\* ensureSync under way, or the answer of ensureSync.
LEMMA CompleteStep ==
    ASSUME CronInv, [Next]_vars, told' = "complete", told # "complete"
    PROVE  ~promise' /\ asked' \subseteq Seen'
<1> USE DEF CronInv
<1>1. CronInv'
  BY NextTyped, NextLocks, NextRequest, NextOff DEF LocksInv
<1>2. ASSUME Emptied PROVE ~promise
  BY <1>2 DEF Emptied, VictoriousCompletion, locking
<1>3. ASSUME NEW t \in Accounts \cup {Other}, TaskEnds(t) PROVE ~promise' /\ phase' # "off"
  BY <1>2, <1>3 DEF TaskEnds
<1>4. ASSUME NEW a \in Accounts, SyncBlocks(a) PROVE ~promise' /\ phase' # "off"
  BY <1>2, <1>4 DEF SyncBlocks
<1>5. CASE OnSyncEnsured
  <2>1. ~promise' /\ toWorker # << >>
    BY <1>5 DEF OnSyncEnsured
  <2>2. phase' # "off"
    BY <1>5, <2>1 DEF OnSyncEnsured, OffIsEmpty
  <2> QED
    BY <1>1, <2>1, <2>2 DEF OneRequest
<1>6. \/ OnSyncEnsured
      \/ \E t \in Accounts \cup {Other} : TaskEnds(t)
      \/ \E a \in Accounts : SyncBlocks(a)
  BY DEF Next, vars, mainVars, channels, locking, tasks, seen, Boot, ComesUp, SystemReady, Close,
         AccountsChange, AlarmFires, AlarmAdded, AddFails, AlarmDispatch, TimeoutUnlock,
         MainReceives, GotAlarms, GetAlarmsFails, OnAlarm, SyncUnblocks
<1> QED
  BY <1>1, <1>3, <1>4, <1>5, <1>6 DEF OneRequest

\* When cron sync tells the front end that it is complete, and the front end
\* may close the process, no ensureSync is under way and every alarm that was
\* asked for is set, in flight, failed or missed.
THEOREM CompleteIsSafeHolds == Spec => CompleteIsSafe
<1>1. CronInv /\ [Next]_vars =>
        [told' = "complete" /\ told # "complete" =>
            /\ ~promise'
            /\ asked' \subseteq alarms' \cup InFlight' \cup failed' \cup missed']_vars
  BY CompleteStep DEF Seen
<1> QED
  BY <1>1, CronInvHolds, PTL DEF Spec, CompleteIsSafe

=============================================================================
