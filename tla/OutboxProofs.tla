---------------------------- MODULE OutboxProofs ----------------------------
(***************************************************************************)
(* The outbox keeps its books, a message goes out once for each time it    *)
(* was sent, and drafts stay at home: proofs for any messages and any      *)
(* number of commands, crashes and failures.                               *)
(*                                                                         *)
(* The invariant has five parts.  What is counted: orders, sends and       *)
(* attachments never outrun the commands.  What is queued: each task's     *)
(* draft continues the one before it.  What is tracked: every entry of     *)
(* messageIdsToSend has its own order, and its marker, its job or its      *)
(* exception.  What went out: a tracked message is owed one more delivery, *)
(* but for the one that the server has just accepted.  What the cache      *)
(* knows of a message is not older than the message was when it was sent,  *)
(* and it is the message unless a save has come since.                     *)
(***************************************************************************)
EXTENDS Outbox, FiniteSetTheorems, TLAPS

Counted ==
    /\ counter + Len(queue) <= asked
    /\ \A m \in Messages :
        /\ sends[m] <= counter
        /\ files[m] + Len(queue) <= asked
        /\ wanted[m] # None => wanted[m].files <= asked
        /\ interrupted[m] <= faults

\* A message that was never made leaves no trace, and one that is to be made
\* has no other task yet.
Known ==
    /\ \A m \in Messages :
        /\ folder[m] # "none" => wanted[m] # None
        /\ wanted[m] = None => OnDisk(m) = NoContent /\ toSend[m] = None /\ Of(m) = {}
    /\ \A i \in DOMAIN queue : queue[i].type = "create" =>
        /\ folder[queue[i].msg] = "none" /\ toSend[queue[i].msg] = None
        /\ Of(queue[i].msg) = {i}
    /\ \A i \in DOMAIN queue : queue[i].type # "setPaused" => queue[i].msg \in Messages

\* A content that the message has, or had before a save that came after the send.
Current(m, content) ==
    /\ content.text <= text[m]
    /\ content.text = text[m] => content = OnDisk(m)
    /\ toSend[m] # None => toSend[m].date <= content.text

JobKnown ==
    \/ job = NoJob
    \/ /\ up /\ job.type = "attach" /\ job.stage = "writing" /\ job.msg \in Messages
       /\ folder[job.msg] # "none"
       /\ queue # << >> /\ Head(queue).type = "attach" /\ Head(queue).msg = job.msg
    \/ /\ up /\ job.type = "send" /\ job.stage \in {"sending", "accepted", "hung"}
       /\ job.msg \in Messages /\ toSend[job.msg] # None /\ folder[job.msg] = "outbox"
       /\ Current(job.msg, job.carries)

OrdersApart ==
    \A m \in Tracked :
        /\ toSend[m].order < counter
        /\ markers[m] # None => markers[m] = toSend[m].order
        /\ \A n \in Tracked : toSend[m].order = toSend[n].order => m = n

Owed(m) == IF toSend[m] # None /\ ~(job.stage = "accepted" /\ job.msg = m) THEN 1 ELSE 0

Balance == \A m \in Messages :
    /\ Times(m, delivered) + Owed(m) <= sends[m] + interrupted[m]
    /\ appends[m] <= sends[m]
    /\ keeps = "append" => appends[m] + interrupted[m] + Noting(m) = Times(m, delivered)

\* Drafts that are there, or are about to be.
Made(m) == folder[m] # "none" \/ \E i \in Of(m) : queue[i].type = "create"

Chained == \A m \in Messages \ lost : Made(m) => AddsUp(m)

\* Each save that is queued has a later text than what is on disk and than the
\* saves before it.
Later ==
    /\ \A m \in Messages : text[m] <= asked
    /\ \A i \in DOMAIN queue : queue[i].type = "save" =>
        /\ text[queue[i].msg] < queue[i].draft.text /\ queue[i].draft.text <= asked
        /\ \A j \in DOMAIN queue :
            i < j /\ queue[j].type = "save" /\ queue[j].msg = queue[i].msg
                => queue[i].draft.text < queue[j].draft.text

CacheKnown == \A m \in Messages :
    /\ toSend[m] # None => toSend[m].date <= text[m]
    /\ cache[m] \in Content => folder[m] # "none" /\ Current(m, cache[m])

OutboxInv ==
    /\ TypeOK /\ Counted /\ Known /\ JobKnown
    /\ Accounted /\ Driven /\ InOrder /\ OrdersApart
    /\ Balance /\ Chained /\ Later /\ CacheKnown

\* A step that does more than tell the cache or empty it.
Moves == User \/ Plan \/ Executes \/ Server \/ SendFails \/ ConnectionCloses \/ Crash \/ Restart

-----------------------------------------------------------------------------
(* The queue and the drafts. *)

LEMMA NoneApart ==
    /\ None \notin Messages /\ None \notin Nat /\ None \notin Content /\ None \notin Order
    /\ MaxCommands \in Nat /\ MaxFaults \in Nat /\ NoContent \in Content
    /\ {"setPaused"} \cap Transient = {} /\ "create" \notin Persistent
    /\ Absent # None /\ Absent \notin Content
BY OutboxAssumption DEF NoContent, Content, Transient, Persistent

LEMMA QueueFacts ==
    ASSUME TypeOK
    PROVE  /\ queue \in Seq(Command) /\ Len(queue) \in Nat /\ DOMAIN queue = 1..Len(queue)
           /\ \A i \in DOMAIN queue : queue[i] \in Command
BY DEF TypeOK

LEMMA Grown ==
    ASSUME TypeOK, NEW c \in Command, queue' = Append(queue, c)
    PROVE  /\ queue' \in Seq(Command) /\ Len(queue') = Len(queue) + 1
           /\ DOMAIN queue' = DOMAIN queue \cup {Len(queue) + 1}
           /\ Len(queue) + 1 \notin DOMAIN queue
           /\ \A i \in DOMAIN queue : queue'[i] = queue[i] /\ i < Len(queue) + 1 /\ i \in Nat
           /\ queue'[Len(queue) + 1] = c
BY QueueFacts

LEMMA Shrunk ==
    ASSUME TypeOK, queue # << >>, Planned
    PROVE  /\ queue' \in Seq(Command) /\ Len(queue') = Len(queue) - 1 /\ Len(queue) \in Nat \ {0}
           /\ 1 \in DOMAIN queue /\ Head(queue) = queue[1] /\ Head(queue) \in Command
           /\ \A i \in DOMAIN queue' : i \in Nat /\ i + 1 \in DOMAIN queue /\ queue'[i] = queue[i + 1] /\ 1 < i + 1
           /\ \A i \in DOMAIN queue : i \in Nat /\ 1 <= i /\ (i = 1 \/ i - 1 \in DOMAIN queue')
<1>1. /\ queue \in Seq(Command) /\ queue # << >> /\ queue' = Tail(queue)
  BY DEF TypeOK, Planned
<1> QED
  BY <1>1

\* What is left of the queue after a crash.
LEMMA Survived ==
    ASSUME TypeOK, Survive
    PROVE  \E n \in Nat : \E at \in [1..n -> DOMAIN queue] :
              /\ queue' \in Seq(Command) /\ Len(queue') = n /\ n <= Len(queue) /\ DOMAIN queue' = 1..n
              /\ \A k \in 1..n : /\ queue'[k] = queue[at[k]] /\ at[k] \in DOMAIN queue
                               /\ queue[at[k]].type \in Persistent
              /\ \A i \in DOMAIN queue : queue[i].type \in Persistent => \E k \in 1..n : at[k] = i
              /\ \A j, k \in 1..n : j < k <=> at[j] < at[k]
<1>1. PICK n \in 0..Len(queue) : \E at \in [1..n -> DOMAIN queue] :
        /\ {at[k] : k \in 1..n} = {i \in DOMAIN queue : queue[i].type \in Persistent}
        /\ \A j, k \in 1..n : j < k => at[j] < at[k]
        /\ queue' = [k \in 1..n |-> queue[at[k]]]
  BY DEF Survive
<1>2. PICK at \in [1..n -> DOMAIN queue] :
        /\ {at[k] : k \in 1..n} = {i \in DOMAIN queue : queue[i].type \in Persistent}
        /\ \A j, k \in 1..n : j < k => at[j] < at[k]
        /\ queue' = [k \in 1..n |-> queue[at[k]]]
  BY <1>1
<1>3. n \in Nat /\ n <= Len(queue) /\ DOMAIN queue' = 1..n
  BY <1>2, QueueFacts
<1>4. \A k \in 1..n : /\ queue'[k] = queue[at[k]] /\ at[k] \in DOMAIN queue /\ at[k] \in Nat
                     /\ queue[at[k]].type \in Persistent
  BY <1>2, QueueFacts
<1>5. queue' \in Seq(Command) /\ Len(queue') = n
  BY <1>2, <1>3, <1>4, QueueFacts
<1>6. \A i \in DOMAIN queue : queue[i].type \in Persistent => \E k \in 1..n : at[k] = i
  BY <1>2
<1>7. ASSUME NEW j \in 1..n, NEW k \in 1..n, at[j] < at[k] PROVE j < k
  <2>1. j \in Nat /\ k \in Nat /\ at[j] \in Nat /\ at[k] \in Nat
    BY <1>3, <1>4
  <2>2. CASE k < j
    BY <1>2, <1>7, <2>1, <2>2
  <2>3. CASE k = j
    BY <1>7, <2>1, <2>3
  <2> QED
    BY <2>1, <2>2, <2>3
<1> QED
  BY <1>2, <1>3, <1>4, <1>5, <1>6, <1>7

\* The chain of drafts goes on ...
LEMMA ChainGrows ==
    ASSUME TypeOK, NEW m \in Messages, NEW c \in Command, queue' = Append(queue, c),
           AddsUp(m), OnDisk(m)' = OnDisk(m),
           c.msg = m => c.draft = wanted'[m] /\ c.draft = Applied(wanted[m], c),
           c.msg # m => wanted'[m] = wanted[m]
    PROVE  AddsUp(m)'
<1> DEFINE n == Len(queue) + 1
<1>1. /\ DOMAIN queue' = DOMAIN queue \cup {n} /\ n \notin DOMAIN queue
      /\ \A i \in DOMAIN queue : queue'[i] = queue[i] /\ i < n /\ i \in Nat
      /\ queue'[n] = c /\ n \in Nat
  BY Grown, QueueFacts
<1> HIDE DEF n
<1>2. Of(m) \subseteq DOMAIN queue /\ Of(m)' = Of(m) \cup (IF c.msg = m THEN {n} ELSE {})
  BY <1>1 DEF Of
<1>3. CASE c.msg # m
  <2>1. Of(m)' = Of(m)
    BY <1>2, <1>3
  <2>2. /\ Of(m) = {} => OnDisk(m)' = wanted'[m]
        /\ \A i \in Of(m) :
            /\ (\A k \in Of(m) : i <= k) => queue'[i].draft = Applied(OnDisk(m)', queue'[i])
            /\ (\A k \in Of(m) : k <= i) => queue'[i].draft = wanted'[m]
            /\ \A j \in Of(m) : j < i /\ (\A k \in Of(m) : k <= j \/ i <= k) =>
                queue'[i].draft = Applied(queue'[j].draft, queue'[i])
    BY <1>1, <1>2, <1>3 DEF AddsUp
  <2> QED
    BY <2>1, <2>2 DEF AddsUp
<1>4. CASE c.msg = m
  <2>1. Of(m)' = Of(m) \cup {n} /\ \A k \in Of(m) : k < n /\ k \in Nat /\ queue'[k] = queue[k]
    BY <1>1, <1>2, <1>4
  <2>2. Of(m)' # {}
    BY <2>1
  <2>3. ASSUME NEW i \in Of(m)', \A k \in Of(m)' : i <= k
        PROVE  queue'[i].draft = Applied(OnDisk(m), queue'[i])
    <3>1. CASE i = n
      <4>1. Of(m) = {}
        BY <1>1, <2>1, <2>3, <3>1
      <4> QED
        BY <1>1, <1>4, <3>1, <4>1 DEF AddsUp
    <3>2. CASE i \in Of(m)
      BY <2>1, <2>3, <3>2 DEF AddsUp
    <3> QED
      BY <2>1, <3>1, <3>2
  <2>4. ASSUME NEW i \in Of(m)', \A k \in Of(m)' : k <= i
        PROVE  queue'[i].draft = wanted'[m]
    <3>1. i = n
      BY <1>1, <2>1, <2>4
    <3> QED
      BY <1>1, <1>4, <3>1
  <2>5. ASSUME NEW i \in Of(m)', NEW j \in Of(m)', j < i, \A k \in Of(m)' : k <= j \/ i <= k
        PROVE  queue'[i].draft = Applied(queue'[j].draft, queue'[i])
    <3>1. j \in Of(m)
      BY <1>1, <2>1, <2>5
    <3>2. CASE i = n
      <4>1. \A k \in Of(m) : k <= j
        BY <1>1, <2>1, <2>5, <3>2
      <4>2. queue[j].draft = wanted[m]
        BY <3>1, <4>1 DEF AddsUp
      <4> QED
        BY <1>1, <1>4, <2>1, <3>1, <3>2, <4>2
    <3>3. CASE i \in Of(m)
      BY <2>1, <2>5, <3>1, <3>3 DEF AddsUp
    <3> QED
      BY <2>1, <3>2, <3>3
  <2> QED
    BY <2>2, <2>3, <2>4, <2>5 DEF AddsUp
<1> QED
  BY <1>3, <1>4

\* ... loses its first task, once that has reached the disk ...
LEMMA HeadDraft ==
    ASSUME TypeOK, NEW m \in Messages, AddsUp(m), queue # << >>, Head(queue).msg = m
    PROVE  Head(queue).draft = Applied(OnDisk(m), Head(queue))
<1>1. 1 \in Of(m) /\ Head(queue) = queue[1] /\ \A k \in Of(m) : 1 <= k
  BY QueueFacts DEF Of
<1> QED
  BY <1>1 DEF AddsUp

LEMMA ChainSteps ==
    ASSUME TypeOK, NEW m \in Messages, queue # << >>, Planned, AddsUp(m),
           wanted'[m] = wanted[m],
           Head(queue).msg = m => OnDisk(m)' = Head(queue).draft,
           Head(queue).msg # m => OnDisk(m)' = OnDisk(m)
    PROVE  AddsUp(m)'
<1>1. /\ 1 \in DOMAIN queue /\ Head(queue) = queue[1]
      /\ \A i \in DOMAIN queue' : i \in Nat /\ i + 1 \in DOMAIN queue /\ queue'[i] = queue[i + 1]
      /\ \A i \in DOMAIN queue : i \in Nat /\ 1 <= i /\ (i = 1 \/ i - 1 \in DOMAIN queue')
  BY Shrunk
<1>2. \A i \in Of(m)' : /\ i \in Nat /\ i \in DOMAIN queue' /\ i + 1 \in Of(m)
                         /\ queue'[i] = queue[i + 1] /\ 1 <= i
  <2> SUFFICES ASSUME NEW i \in Of(m)'
               PROVE  /\ i \in Nat /\ i \in DOMAIN queue' /\ i + 1 \in Of(m)
                      /\ queue'[i] = queue[i + 1] /\ 1 <= i
    OBVIOUS
  <2>1. i \in DOMAIN queue' /\ queue'[i].msg = m
    BY DEF Of
  <2>2. 1 <= i
    BY <2>1, QueueFacts, Shrunk
  <2> QED
    BY <1>1, <2>1, <2>2 DEF Of
<1>3. \A i \in Of(m) : i \in Nat /\ 1 <= i /\ (i # 1 => i - 1 \in Of(m)')
  <2> SUFFICES ASSUME NEW i \in Of(m) PROVE i \in Nat /\ 1 <= i /\ (i # 1 => i - 1 \in Of(m)')
    OBVIOUS
  <2>1. i \in DOMAIN queue /\ queue[i].msg = m
    BY DEF Of
  <2>2. ASSUME i # 1 PROVE i - 1 \in DOMAIN queue' /\ queue'[i - 1].msg = m
    <3>1. i - 1 \in DOMAIN queue' /\ queue'[i - 1] = queue[(i - 1) + 1] /\ (i - 1) + 1 = i
      BY <1>1, <2>1, <2>2
    <3> QED
      BY <2>1, <3>1
  <2> QED
    BY <1>1, <2>1, <2>2 DEF Of
<1>4. 1 \in Of(m) <=> Head(queue).msg = m
  BY <1>1 DEF Of
<1>5. \A i \in Of(m)' : (\A k \in Of(m)' : k <= i) => (\A k \in Of(m) : k <= i + 1)
  <2> SUFFICES ASSUME NEW i \in Of(m)', \A k \in Of(m)' : k <= i, NEW k \in Of(m)
               PROVE  k <= i + 1
    OBVIOUS
  <2>1. CASE k = 1
    BY <1>2, <2>1
  <2>2. CASE k # 1
    <3>1. k - 1 \in Of(m)' /\ k \in Nat /\ i \in Nat
      BY <1>2, <1>3, <2>2
    <3>2. k - 1 <= i
      BY <3>1
    <3> QED
      BY <3>1, <3>2
  <2> QED
    BY <2>1, <2>2
<1>6. Of(m)' = {} => OnDisk(m)' = wanted'[m]
  <2> SUFFICES ASSUME Of(m)' = {} PROVE OnDisk(m)' = wanted'[m]
    OBVIOUS
  <2>1. \A i \in Of(m) : i = 1
    BY <1>3
  <2>2. CASE Of(m) = {}
    BY <1>4, <2>2 DEF AddsUp
  <2>3. CASE 1 \in Of(m)
    <3>1. \A k \in Of(m) : k <= 1
      BY <2>1
    <3>2. queue[1].draft = wanted[m]
      BY <2>3, <3>1 DEF AddsUp
    <3> QED
      BY <1>1, <1>4, <2>3, <3>2
  <2> QED
    BY <2>1, <2>2, <2>3
<1>7. ASSUME NEW i \in Of(m)', \A k \in Of(m)' : i <= k
      PROVE  queue'[i].draft = Applied(OnDisk(m)', queue'[i])
  <2>1. i \in Nat /\ i + 1 \in Of(m) /\ queue'[i] = queue[i + 1] /\ 1 < i + 1
    BY <1>2, <1>7
  <2>2. \A k \in Of(m) : k <= 1 \/ i + 1 <= k
    <3> SUFFICES ASSUME NEW k \in Of(m), k # 1 PROVE i + 1 <= k
      BY <1>3
    <3>1. k \in Nat /\ k - 1 \in Of(m)'
      BY <1>3
    <3>2. i <= k - 1
      BY <1>7, <3>1
    <3> QED
      BY <2>1, <3>1, <3>2
  <2>3. CASE Head(queue).msg = m
    BY <1>1, <1>4, <2>1, <2>2, <2>3 DEF AddsUp
  <2>4. CASE Head(queue).msg # m
    <3>1. \A k \in Of(m) : i + 1 <= k
      BY <1>3, <1>4, <2>2, <2>4
    <3> QED
      BY <2>1, <2>4, <3>1 DEF AddsUp
  <2> QED
    BY <2>3, <2>4
<1>8. ASSUME NEW i \in Of(m)', \A k \in Of(m)' : k <= i PROVE queue'[i].draft = wanted'[m]
  BY <1>2, <1>5, <1>8 DEF AddsUp
<1>9. ASSUME NEW i \in Of(m)', NEW j \in Of(m)', j < i, \A k \in Of(m)' : k <= j \/ i <= k
      PROVE  queue'[i].draft = Applied(queue'[j].draft, queue'[i])
  <2>1. /\ i \in Nat /\ i + 1 \in Of(m) /\ queue'[i] = queue[i + 1]
        /\ j \in Nat /\ j + 1 \in Of(m) /\ queue'[j] = queue[j + 1] /\ j + 1 < i + 1
    BY <1>2, <1>9
  <2>2. \A k \in Of(m) : k <= j + 1 \/ i + 1 <= k
    <3> SUFFICES ASSUME NEW k \in Of(m), k # 1 PROVE k <= j + 1 \/ i + 1 <= k
      BY <1>3, <2>1
    <3>1. k \in Nat /\ k - 1 \in Of(m)'
      BY <1>3
    <3>2. k - 1 <= j \/ i <= k - 1
      BY <1>9, <3>1
    <3> QED
      BY <2>1, <3>1, <3>2
  <2> QED
    BY <2>1, <2>2 DEF AddsUp
<1> QED
  BY <1>6, <1>7, <1>8, <1>9 DEF AddsUp

\* ... and is the same after a crash, unless it loses a task.
LEMMA ChainSurvives ==
    ASSUME TypeOK, NEW m \in Messages, Survive, AddsUp(m),
           OnDisk(m)' = OnDisk(m), wanted'[m] = wanted[m],
           \A i \in Of(m) : queue[i].type \in Persistent
    PROVE  AddsUp(m)'
<1>1. \E n \in Nat : \E at \in [1..n -> DOMAIN queue] :
        /\ queue' \in Seq(Command) /\ Len(queue') = n /\ n <= Len(queue) /\ DOMAIN queue' = 1..n
        /\ \A k \in 1..n : /\ queue'[k] = queue[at[k]] /\ at[k] \in DOMAIN queue
                           /\ queue[at[k]].type \in Persistent
        /\ \A i \in DOMAIN queue : queue[i].type \in Persistent => \E k \in 1..n : at[k] = i
        /\ \A j, k \in 1..n : j < k <=> at[j] < at[k]
  BY Survived
<1>2. PICK n \in Nat : \E at \in [1..n -> DOMAIN queue] :
        /\ queue' \in Seq(Command) /\ Len(queue') = n /\ n <= Len(queue) /\ DOMAIN queue' = 1..n
        /\ \A k \in 1..n : /\ queue'[k] = queue[at[k]] /\ at[k] \in DOMAIN queue
                           /\ queue[at[k]].type \in Persistent
        /\ \A i \in DOMAIN queue : queue[i].type \in Persistent => \E k \in 1..n : at[k] = i
        /\ \A j, k \in 1..n : j < k <=> at[j] < at[k]
  BY <1>1
<1>3. PICK at \in [1..n -> DOMAIN queue] :
        /\ queue' \in Seq(Command) /\ Len(queue') = n /\ n <= Len(queue) /\ DOMAIN queue' = 1..n
        /\ \A k \in 1..n : /\ queue'[k] = queue[at[k]] /\ at[k] \in DOMAIN queue
                           /\ queue[at[k]].type \in Persistent
        /\ \A i \in DOMAIN queue : queue[i].type \in Persistent => \E k \in 1..n : at[k] = i
        /\ \A j, k \in 1..n : j < k <=> at[j] < at[k]
  BY <1>2
<1>4. \A k \in Of(m)' : k \in 1..n /\ at[k] \in Of(m) /\ queue'[k] = queue[at[k]]
  BY <1>3 DEF Of
<1>5. \A i \in Of(m) : \E k \in Of(m)' : at[k] = i
  <2> SUFFICES ASSUME NEW i \in Of(m) PROVE \E k \in Of(m)' : at[k] = i
    OBVIOUS
  <2>1. i \in DOMAIN queue /\ queue[i].msg = m /\ queue[i].type \in Persistent
    BY DEF Of
  <2>2. PICK k \in 1..n : at[k] = i
    BY <1>3, <2>1
  <2>3. k \in DOMAIN queue' /\ queue'[k].msg = m
    BY <1>3, <2>1, <2>2
  <2> QED
    BY <2>2, <2>3 DEF Of
<1>6. \A j, k \in Of(m)' : j <= k <=> at[j] <= at[k]
  <2> SUFFICES ASSUME NEW j \in Of(m)', NEW k \in Of(m)' PROVE j <= k <=> at[j] <= at[k]
    OBVIOUS
  <2>1. j \in 1..n /\ k \in 1..n /\ at[j] \in Nat /\ at[k] \in Nat /\ j \in Nat /\ k \in Nat
    BY <1>3, <1>4, QueueFacts
  <2>2. (k < j <=> at[k] < at[j]) /\ (j < k <=> at[j] < at[k])
    BY <1>3, <2>1
  <2> QED
    BY <2>1, <2>2
<1>7. \A j, k \in Of(m)' : j < k <=> at[j] < at[k]
  BY <1>3, <1>4
<1>8. Of(m)' = {} => OnDisk(m)' = wanted'[m]
  BY <1>5 DEF AddsUp
<1>9. ASSUME NEW i \in Of(m)', \A k \in Of(m)' : i <= k
      PROVE  queue'[i].draft = Applied(OnDisk(m)', queue'[i])
  <2>1. \A k \in Of(m) : at[i] <= k
    BY <1>5, <1>6, <1>9
  <2> QED
    BY <1>4, <2>1 DEF AddsUp
<1>10. ASSUME NEW i \in Of(m)', \A k \in Of(m)' : k <= i PROVE queue'[i].draft = wanted'[m]
  <2>1. \A k \in Of(m) : k <= at[i]
    BY <1>5, <1>6, <1>10
  <2> QED
    BY <1>4, <2>1 DEF AddsUp
<1>11. ASSUME NEW i \in Of(m)', NEW j \in Of(m)', j < i, \A k \in Of(m)' : k <= j \/ i <= k
       PROVE  queue'[i].draft = Applied(queue'[j].draft, queue'[i])
  <2>1. \A k \in Of(m) : k <= at[j] \/ at[i] <= k
    BY <1>5, <1>6, <1>11
  <2>2. at[j] < at[i] /\ at[i] \in Of(m) /\ at[j] \in Of(m)
    BY <1>4, <1>7, <1>11
  <2> QED
    BY <1>4, <2>1, <2>2 DEF AddsUp
<1> QED
  BY <1>8, <1>9, <1>10, <1>11 DEF AddsUp

LEMMA ChainSame ==
    ASSUME NEW m \in Messages, queue' = queue, OnDisk(m)' = OnDisk(m),
           wanted'[m] = wanted[m], AddsUp(m)
    PROVE  AddsUp(m)'
<1>1. Of(m)' = Of(m)
  BY DEF Of
<1> QED
  BY <1>1 DEF AddsUp

-----------------------------------------------------------------------------
(* What is counted stays in bounds. *)

Track == Accounted /\ Driven /\ InOrder /\ OrdersApart

\* Whoever reads and forgets changes nothing else.
LEMMA Untouched ==
    ASSUME OutboxInv, UNCHANGED <<disk, queue, memory, keeps, delivered, seen, asked, faults>>
    PROVE  /\ Counted' /\ Known' /\ JobKnown' /\ Track' /\ Balance' /\ Chained' /\ Later'
           /\ cache' \in [Messages -> Content \cup {None, Absent}] => TypeOK'
<1> USE DEF disk, memory, seen
<1>0. \A m \in Messages : OnDisk(m)' = OnDisk(m)
  BY DEF OnDisk
<1>1. cache' \in [Messages -> Content \cup {None, Absent}] => TypeOK'
  BY DEF OutboxInv, TypeOK
<1>2. Counted' /\ JobKnown' /\ Accounted'
  BY ZenonT(60) DEF OutboxInv, Counted, JobKnown, OnDisk, Accounted, Tracked, Current
<1>3. Driven' /\ InOrder' /\ OrdersApart'
  BY ZenonT(60) DEF OutboxInv, Driven, InOrder, OrdersApart, Tracked
<1>4. Known' /\ Later'
  BY DEF OutboxInv, Known, OnDisk, Of, Later
<1>5. Balance'
  BY DEF OutboxInv, Balance, Owed, Noting, Times
<1>6. \A m \in Messages : Made(m)' = Made(m)
  BY DEF Made, Of
<1>7. Chained'
  BY <1>0, <1>6, ChainSame DEF OutboxInv, Chained
<1> QED
  BY <1>1, <1>2, <1>3, <1>4, <1>5, <1>7 DEF Track

LEMMA Stutters ==
    ASSUME OutboxInv, UNCHANGED vars
    PROVE  OutboxInv'
<1>1. UNCHANGED <<disk, queue, memory, keeps, delivered, seen, asked, faults>> /\ cache' = cache
  BY DEF vars
<1>2. cache' \in [Messages -> Content \cup {None, Absent}]
  BY <1>1 DEF OutboxInv, TypeOK
<1>3. CacheKnown'
  <2>1. folder' = folder /\ text' = text /\ toSend' = toSend /\ files' = files
    BY <1>1 DEF disk
  <2> QED
    BY <1>1, <2>1 DEF OutboxInv, CacheKnown, Current, OnDisk
<1> QED
  BY <1>1, <1>2, <1>3, Untouched DEF OutboxInv, Track

LEMMA CachingSteps ==
    ASSUME OutboxInv, Caching
    PROVE  OutboxInv'
<1>1. UNCHANGED <<disk, queue, memory, keeps, delivered, seen, asked, faults>>
  BY DEF Caching, EmptyCache, Reads
<1>2. folder' = folder /\ text' = text /\ toSend' = toSend /\ files' = files
  BY <1>1 DEF disk
<1> DEFINE New(m) == cache'[m] = OnDisk(m) /\ folder[m] # "none"
<1>3. \A m \in Messages : cache'[m] = cache[m] \/ cache'[m] = Absent \/ New(m)
  <2>1. CASE EmptyCache
    BY <2>1 DEF EmptyCache
  <2>2. ASSUME NEW m \in Messages, Reads(m)
        PROVE  \A n \in Messages : cache'[n] = cache[n] \/ New(n)
    BY <2>2 DEF Reads, Looks, Looked, OutboxInv, TypeOK
  <2> QED
    BY <2>1, <2>2 DEF Caching
<1>4. cache' \in [Messages -> Content \cup {None, Absent}]
  <2>1. \A m \in Messages : OnDisk(m) \in Content
    BY DEF OutboxInv, TypeOK, OnDisk, Content
  <2>2. CASE EmptyCache
    BY <2>2 DEF EmptyCache
  <2>3. ASSUME NEW m \in Messages, Reads(m) PROVE cache' \in [Messages -> Content \cup {None, Absent}]
    BY <2>1, <2>3 DEF Reads, Looks, Looked, OutboxInv, TypeOK
  <2> QED
    BY <2>2, <2>3 DEF Caching
<1>5. CacheKnown'
  <2> SUFFICES ASSUME NEW m \in Messages, cache'[m] \in Content
               PROVE  folder[m] # "none" /\ Current(m, cache[m])'
    BY <1>2 DEF CacheKnown, OutboxInv
  <2>1. /\ toSend[m] # None => toSend[m].date <= text[m]
        /\ cache[m] \in Content => folder[m] # "none" /\ Current(m, cache[m])
    BY DEF OutboxInv, CacheKnown
  <2>2. CASE cache'[m] = cache[m]
    BY <1>2, <2>1, <2>2 DEF Current, OnDisk
  <2>3. CASE cache'[m] = OnDisk(m) /\ folder[m] # "none"
    <3>1. text[m] \in Nat /\ OnDisk(m)' = OnDisk(m) /\ OnDisk(m).text = text[m]
      BY <1>2, NoneApart DEF OnDisk, OutboxInv, TypeOK
    <3>2. cache'[m] = OnDisk(m)' /\ cache'[m].text = text'[m]
      BY <1>2, <2>3, <3>1
    <3> QED
      BY <1>2, <2>1, <2>3, <3>1, <3>2 DEF Current
  <2> QED
    BY <1>3, <2>2, <2>3, NoneApart
<1> QED
  BY <1>1, <1>4, <1>5, Untouched DEF OutboxInv, Track

\* A job's kinds, apart.
LEMMA JobFacts ==
    ASSUME TypeOK, JobKnown
    PROVE  /\ job = NoJob <=> job.type = "none"
           /\ job.type = "none" => job.msg = None /\ job.stage = "none" /\ job.msg \notin Messages
           /\ job.type = "attach" => /\ up /\ job.stage = "writing" /\ job.msg \in Messages
                                    /\ folder[job.msg] # "none"
                                    /\ queue # << >> /\ Head(queue).type = "attach"
                                    /\ Head(queue).msg = job.msg
           /\ job.type = "send" => /\ up /\ job.stage \in {"sending", "accepted", "hung"}
                                  /\ job.msg \in Messages /\ toSend[job.msg] # None
                                  /\ folder[job.msg] = "outbox"
                                  /\ Current(job.msg, job.carries)
           /\ job.stage \in {"sending", "accepted", "hung"} <=> job.type = "send"
           /\ job.carries \in Content
BY NoneApart DEF TypeOK, JobKnown, NoJob

LEMMA ContentEdits ==
    ASSUME NEW d \in Content, NEW k \in 0..MaxCommands
    PROVE  /\ [d EXCEPT !.text = k] \in Content /\ [d EXCEPT !.text = k].files = d.files
           /\ [d EXCEPT !.files = k] \in Content /\ [d EXCEPT !.files = k].files = k
           /\ d.files \in 0..MaxCommands /\ d.text \in 0..MaxCommands
BY DEF Content

LEMMA EditedTyped ==
    ASSUME OutboxInv, NEW m \in Messages, NEW t \in Persistent \cup Transient, Asks(m, t)
    PROVE  /\ Edited(m, t) \in Content /\ Edited(m, t).files <= asked'
           /\ [type |-> t, msg |-> m, draft |-> Edited(m, t)] \in Command
<1> SUFFICES Edited(m, t) \in Content /\ Edited(m, t).files <= asked'
  BY DEF Command
<1>1. /\ asked \in Nat /\ asked + 1 \in 0..MaxCommands /\ asked' = asked + 1 /\ MaxCommands \in Nat
      /\ wanted[m] \in Content \cup {None} /\ (t # "create" => folder[m] # "none")
  BY NoneApart DEF Asks, OutboxInv, TypeOK
<1>2. t # "create" => /\ wanted[m] \in Content /\ wanted[m].files <= asked
                      /\ wanted[m].files \in 0..MaxCommands
  BY <1>1, ContentEdits DEF OutboxInv, Known, Counted
<1>3. t = "detach" => wanted[m].files > 0
  BY DEF Asks
<1>4. CASE t = "create"
  <2>1. Edited(m, t) = NoContent /\ NoContent.files = 0
    BY <1>4 DEF Edited, NoContent
  <2> QED
    BY <1>1, <2>1, NoneApart
<1>5. CASE t = "save"
  <2>1. Edited(m, t) = [wanted[m] EXCEPT !.text = asked + 1]
    BY <1>5 DEF Edited
  <2>2. wanted[m] \in Content /\ wanted[m].files <= asked' /\ asked + 1 \in 0..MaxCommands
    BY <1>1, <1>2, <1>5
  <2>3. /\ [wanted[m] EXCEPT !.text = asked + 1] \in Content
        /\ [wanted[m] EXCEPT !.text = asked + 1].files = wanted[m].files
    BY <2>2, ContentEdits
  <2> QED
    BY <2>1, <2>2, <2>3
<1>6. CASE t = "attach"
  <2>1. Edited(m, t) = [wanted[m] EXCEPT !.files = wanted[m].files + 1]
    BY <1>6 DEF Edited
  <2>2. /\ wanted[m] \in Content /\ wanted[m].files + 1 <= asked'
        /\ wanted[m].files + 1 \in 0..MaxCommands
    BY <1>1, <1>2, <1>6
  <2> QED
    BY ZenonT(60), <2>1, <2>2, ContentEdits
<1>7. CASE t = "detach"
  <2>1. Edited(m, t) = [wanted[m] EXCEPT !.files = wanted[m].files - 1]
    BY <1>7 DEF Edited
  <2>2. /\ wanted[m] \in Content /\ wanted[m].files - 1 <= asked'
        /\ wanted[m].files - 1 \in 0..MaxCommands
    BY <1>1, <1>2, <1>3, <1>7
  <2> QED
    BY ZenonT(60), <2>1, <2>2, ContentEdits
<1>8. CASE t \notin {"create", "save", "attach", "detach"}
  <2>1. Edited(m, t) = wanted[m]
    BY <1>8 DEF Edited
  <2> QED
    BY <1>1, <1>2, <1>8, <2>1
<1> QED
  BY <1>4, <1>5, <1>6, <1>7, <1>8

\* What is found is Current, and so is what is written.
LEMMA FoundCurrent ==
    ASSUME OutboxInv, NEW m \in Messages
    PROVE  /\ OnDisk(m) \in Content /\ Current(m, OnDisk(m)) /\ text[m] \in Nat
           /\ Found(m) \in Content \cup {None}
           /\ Looked(m) \in Content \cup {None, Absent}
           /\ Found(m) # None => folder[m] # "none" /\ Current(m, Found(m))
           /\ Looked(m) \in Content => folder[m] # "none" /\ Current(m, Looked(m))
<1>1. OnDisk(m) \in Content /\ text[m] \in Nat /\ OnDisk(m).text = text[m]
  BY NoneApart DEF OutboxInv, TypeOK, OnDisk, Content
<1>2. Current(m, OnDisk(m))
  BY <1>1 DEF OutboxInv, CacheKnown, Current
<1>3. /\ cache[m] \in Content \cup {None, Absent}
      /\ cache[m] \in Content => folder[m] # "none" /\ Current(m, cache[m])
  BY DEF OutboxInv, TypeOK, CacheKnown
<1>4. /\ Found(m) \in Content \cup {None}
      /\ Found(m) # None => folder[m] # "none" /\ Current(m, Found(m))
  <2>1. CASE cache[m] # Absent
    BY <1>3, <2>1 DEF Found
  <2>2. CASE cache[m] = Absent /\ folder[m] # "none" /\ toSend[m].date = text[m]
    BY <1>1, <1>2, <2>2 DEF Found
  <2>3. CASE cache[m] = Absent /\ ~(folder[m] # "none" /\ toSend[m].date = text[m])
    BY <2>3 DEF Found
  <2> QED
    BY <2>1, <2>2, <2>3
<1>5. /\ Looked(m) \in Content \cup {None, Absent}
      /\ Looked(m) \in Content => folder[m] # "none" /\ Current(m, Looked(m))
  BY <1>1, <1>2, <1>3, NoneApart DEF Looked
<1> QED
  BY <1>1, <1>2, <1>4, <1>5

LEMMA CacheTyped ==
    ASSUME OutboxInv, Moves
    PROVE  cache' \in [Messages -> Content \cup {None, Absent}]
<1> USE DEF disk, memory, seen
<1> DEFINE T == [Messages -> Content \cup {None, Absent}]
<1>0. TypeOK /\ JobKnown /\ Counted /\ cache \in T
  BY DEF OutboxInv, TypeOK
<1>a. ASSUME NEW m \in Messages, NEW c \in Content \cup {None, Absent}, Caches(m, c) PROVE cache' \in T
  BY <1>0, <1>a DEF Caches
<1>b. ASSUME UNCHANGED cache PROVE cache' \in T
  BY <1>0, <1>b
<1> HIDE DEF T
<1>1. ASSUME User PROVE cache' \in T
  BY <1>b, <1>1 DEF User, Asks, AsksPause
<1>2. ASSUME NEW m \in Messages, PlanCreate(m) \/ PlanDelete(m) \/ PlanSend(m) \/ PlanAbort(m) \/ PlanAttach(m)
      PROVE  cache' \in T
  <2>1. Caches(m, OnDisk(m)) \/ Caches(m, Absent) \/ UNCHANGED cache
    BY <1>2 DEF PlanCreate, PlanDelete, PlanSend, PlanAbort, PlanAttach, Moot
  <2> QED
    BY <1>a, <1>b, <2>1, FoundCurrent
<1>3. ASSUME NEW m \in Messages, PlanSave(m) PROVE cache' \in T
  <2>1. \/ CachesRedated(m, [OnDisk(m) EXCEPT !.text = Head(queue).draft.text])
        \/ UNCHANGED cache
    BY <1>3 DEF PlanSave, Moot
  <2>2. Head(queue).draft.text \in 0..MaxCommands
    <3>1. Head(queue) \in Command
      BY <1>0, <1>3, QueueFacts DEF PlanSave, Planning
    <3> QED
      BY <3>1 DEF Command, Content
  <2>3. [OnDisk(m) EXCEPT !.text = Head(queue).draft.text] \in Content
    BY <2>2, FoundCurrent, ContentEdits
  <2> QED
    BY <1>a, <1>b, <2>1, <2>3 DEF CachesRedated
<1>4. ASSUME NEW m \in Messages, PlanDetach(m) PROVE cache' \in T
  <2>1. \/ files[m] > 0 /\ Caches(m, [OnDisk(m) EXCEPT !.files = OnDisk(m).files - 1])
        \/ Looks(m)
    BY <1>4 DEF PlanDetach
  <2>2. files[m] > 0 => [OnDisk(m) EXCEPT !.files = OnDisk(m).files - 1] \in Content
    <3>1. files[m] > 0 => OnDisk(m).files - 1 \in 0..MaxCommands
      BY SMTT(30), <1>0, NoneApart DEF TypeOK, OnDisk
    <3> QED
      BY ZenonT(60), <3>1, FoundCurrent, ContentEdits
  <2>3. Looks(m) => Caches(m, Looked(m))
    BY DEF Looks, Caches
  <2> QED
    BY <1>a, <2>1, <2>2, <2>3, FoundCurrent
<1>5. ASSUME AttachEnds PROVE cache' \in T
  <2>1. /\ Caches(job.msg, [OnDisk(job.msg) EXCEPT !.files = OnDisk(job.msg).files + 1])
        /\ Planned /\ job.msg \in Messages /\ queue # << >>
    BY <1>0, <1>5, JobFacts DEF AttachEnds
  <2>2. OnDisk(job.msg).files + 1 \in 0..MaxCommands
    <3>1. /\ files[job.msg] + Len(queue) <= asked /\ asked \in 0..MaxCommands
          /\ files[job.msg] \in 0..MaxCommands
      BY <1>0, <2>1 DEF Counted, TypeOK
    <3>2. Len(queue) \in Nat /\ 1 <= Len(queue)
      BY <1>0, <2>1, Shrunk
    <3>3. OnDisk(job.msg).files = files[job.msg]
      BY DEF OnDisk
    <3> QED
      BY <3>1, <3>2, <3>3, NoneApart
  <2>3. [OnDisk(job.msg) EXCEPT !.files = OnDisk(job.msg).files + 1] \in Content
    BY ZenonT(60), <2>1, <2>2, FoundCurrent, ContentEdits
  <2> QED
    BY <1>a, <2>1, <2>3
<1>6. ASSUME NEW m \in Messages, Execute(m) \/ ExecuteThrows(m) \/ ExecuteStale(m) PROVE cache' \in T
  <2>1. Caches(m, Found(m)) \/ UNCHANGED cache
    BY <1>6 DEF Execute, ExecuteThrows, ExecuteStale
  <2> QED
    BY <1>a, <1>b, <2>1, FoundCurrent
<1>7. ASSUME SendSucceeds PROVE cache' \in T
  <2>1. /\ job.msg \in Messages
        /\ Caches(job.msg, OnDisk(job.msg)) \/ Caches(job.msg, Absent)
    BY <1>0, <1>7, JobFacts DEF SendSucceeds
  <2> QED
    BY <1>a, <2>1, FoundCurrent
<1>8. ASSUME SendFails PROVE cache' \in T
  <2>1. job.msg \in Messages /\ Caches(job.msg, Looked(job.msg))
    BY <1>0, <1>8, JobFacts DEF SendFails, Looks, Caches
  <2> QED
    BY <1>a, <2>1, FoundCurrent
<1>9. ASSUME PlanSetPaused \/ ServerAccepts \/ ConnectionCloses \/ Restart PROVE cache' \in T
  BY <1>b, <1>9 DEF PlanSetPaused, ServerAccepts, ConnectionCloses, Restart
<1>10. ASSUME Crash PROVE cache' \in T
  BY <1>10 DEF Crash, T
<1> QED
  BY <1>1, <1>2, <1>3, <1>4, <1>5, <1>6, <1>7, <1>8, <1>9, <1>10 DEF Moves, Plan, Executes, Server, T

LEMMA NextTyped ==
    ASSUME OutboxInv, Moves
    PROVE  TypeOK'
<1> USE DEF disk, memory, seen
<1>0. TypeOK /\ JobKnown /\ Counted /\ cache' \in [Messages -> Content \cup {None, Absent}]
  BY CacheTyped DEF OutboxInv
<1>1. ASSUME NEW m \in Messages, NEW t \in Persistent \cup Transient, Asks(m, t) PROVE TypeOK'
  <2>1. wanted' \in [Messages -> Content \cup {None}] /\ wanted'[m] = Edited(m, t)
    BY <1>0, <1>1, EditedTyped DEF Asks, TypeOK
  <2>2. queue' \in Seq(Command)
    BY <1>0, <1>1, <2>1, EditedTyped, Grown DEF Asks, Issues
  <2>3. asked' \in 0..MaxCommands
    BY <1>0, <1>1, NoneApart DEF Asks, TypeOK
  <2> QED
    BY <1>0, <1>1, <2>1, <2>2, <2>3 DEF Asks, TypeOK
<1>2. ASSUME AsksPause PROVE TypeOK'
  <2>1. [type |-> "setPaused", msg |-> None, draft |-> NoContent] \in Command
    BY NoneApart DEF Command, Persistent
  <2>2. queue' \in Seq(Command)
    BY <1>0, <1>2, <2>1, Grown DEF AsksPause, Issues
  <2>3. asked' \in 0..MaxCommands
    BY <1>0, <1>2, NoneApart DEF AsksPause, TypeOK
  <2> QED
    BY <1>0, <1>2, <2>2, <2>3 DEF AsksPause, TypeOK
<1>3. ASSUME queue # << >>, Planned
      PROVE  /\ queue' \in Seq(Command) /\ Head(queue) \in Command
             /\ Len(queue) \in Nat /\ 1 <= Len(queue)
  BY <1>0, <1>3, Shrunk
<1>4. ASSUME NEW m \in Messages, PlanCreate(m) \/ PlanDelete(m) PROVE TypeOK'
  BY <1>0, <1>3, <1>4 DEF PlanCreate, PlanDelete, Planning, Moot, TypeOK
<1>5. ASSUME NEW m \in Messages, PlanSave(m) PROVE TypeOK'
  <2>1. queue' \in Seq(Command) /\ Head(queue).draft.text \in 0..MaxCommands
    BY <1>3, <1>5 DEF PlanSave, Planning, Moot, Command, Content
  <2> QED
    BY <1>0, <1>5, <2>1 DEF PlanSave, Moot, TypeOK
<1>6. ASSUME NEW m \in Messages, PlanDetach(m) PROVE TypeOK'
  <2>1. queue' \in Seq(Command)
    BY <1>3, <1>6 DEF PlanDetach, Planning, Moot
  <2>2. files[m] > 0 => files[m] - 1 \in 0..MaxCommands
    BY SMTT(30), <1>0, NoneApart DEF TypeOK
  <2>3. \/ files' = files
        \/ files[m] > 0 /\ files' = [files EXCEPT ![m] = files[m] - 1]
    BY <1>6 DEF PlanDetach, Moot
  <2>4. files' \in [Messages -> 0..MaxCommands]
    BY <1>0, <2>2, <2>3 DEF TypeOK
  <2> QED
    BY <1>0, <1>6, <2>1, <2>4 DEF PlanDetach, Moot, TypeOK
<1>7. ASSUME NEW m \in Messages, PlanAttach(m) PROVE TypeOK'
  <2>1. queue' \in Seq(Command)
    BY <1>0, <1>3, <1>7 DEF PlanAttach, Planning, Moot, TypeOK
  <2>2. job' \in [type : {"none", "attach", "send"}, msg : Messages \cup {None},
                 stage : {"none", "writing", "sending", "accepted", "hung"}, carries : Content]
    <3>1. \/ job' = [type |-> "attach", msg |-> m, stage |-> "writing", carries |-> NoContent]
          \/ job' = job
      BY <1>7 DEF PlanAttach, Moot, NoJob, memory
    <3>2. NoContent \in Content
      BY NoneApart
    <3> QED
      BY <1>0, <3>1, <3>2 DEF TypeOK
  <2> QED
    BY <1>0, <1>7, <2>1, <2>2 DEF PlanAttach, Moot, TypeOK
<1>8. ASSUME AttachEnds PROVE TypeOK'
  <2>1. job.msg \in Messages /\ queue # << >>
    BY <1>0, <1>8, JobFacts DEF AttachEnds
  <2>2. queue' \in Seq(Command) /\ Len(queue) \in Nat /\ 1 <= Len(queue)
    BY <1>3, <1>8, <2>1 DEF AttachEnds
  <2>3. files[job.msg] + Len(queue) <= asked /\ asked \in 0..MaxCommands
    BY <1>0, <2>1 DEF Counted, TypeOK
  <2>4. files' \in [Messages -> 0..MaxCommands]
    BY SMTT(30), <1>0, <1>8, <2>1, <2>2, <2>3, NoneApart DEF AttachEnds, TypeOK
  <2> QED
    BY <1>0, <1>8, <2>2, <2>4, NoneApart DEF AttachEnds, TypeOK, NoJob
<1>9. ASSUME NEW m \in Messages, PlanSend(m) PROVE TypeOK'
  <2>1. queue' \in Seq(Command) /\ Len(queue) \in Nat /\ 1 <= Len(queue)
    BY <1>3, <1>9 DEF PlanSend, Planning, Moot
  <2>0. /\ counter + Len(queue) <= asked /\ sends[m] <= counter
        /\ asked \in 0..MaxCommands /\ counter \in 0..MaxCommands /\ sends[m] \in 0..MaxCommands
    BY <1>0 DEF Counted, TypeOK
  <2>2. counter + 1 \in 0..MaxCommands /\ counter \in 0..MaxCommands /\ sends[m] + 1 \in 0..MaxCommands
    BY <2>0, <2>1, NoneApart
  <2>3. CASE folder[m] = "none"
    BY <1>0, <1>9, <2>1, <2>3 DEF PlanSend, Moot, TypeOK
  <2>4. CASE folder[m] # "none"
    <3>1. [order |-> counter, date |-> text[m]] \in Order
      BY <1>0, <2>2 DEF TypeOK, Order
    <3>2. /\ toSend' \in [Messages -> Order \cup {None}]
          /\ markers' \in [Messages -> 0..MaxCommands \cup {None}]
          /\ sends' \in [Messages -> 0..MaxCommands]
      <4>1. /\ toSend' = [toSend EXCEPT ![m] = [order |-> counter, date |-> text[m]]]
            /\ markers' = [markers EXCEPT ![m] = counter]
            /\ sends' = [sends EXCEPT ![m] = sends[m] + 1]
        BY <1>9, <2>4 DEF PlanSend, Marker
      <4> QED
        BY <1>0, <2>2, <3>1, <4>1 DEF TypeOK
    <3> QED
      <4>1. folder' = [folder EXCEPT ![m] = "outbox"] /\ folder' \in [Messages -> {"none", "drafts", "outbox", "sent"}]
        BY <1>0, <1>9, <2>4 DEF PlanSend, TypeOK
      <4>2. failed' \subseteq Messages /\ stuck' \subseteq Messages /\ counter' \in 0..MaxCommands
        BY <1>0, <1>9, <2>2, <2>4 DEF PlanSend, TypeOK
      <4> QED
        <5>1. /\ UNCHANGED <<text, files, attaching, appends, up, activelySending, paused, job,
                              wanted, lost, interrupted>>
              /\ UNCHANGED <<keeps, delivered, asked, faults>>
          BY <1>9, <2>4 DEF PlanSend
        <5>2. /\ text' \in [Messages -> 0..MaxCommands] /\ files' \in [Messages -> 0..MaxCommands]
              /\ attaching' \in SUBSET Messages /\ appends' \in [Messages -> 0..MaxCommands]
              /\ up' \in BOOLEAN /\ activelySending' \in SUBSET Messages
              /\ paused' \in {FALSE, None} /\ keeps' \in AccountTypes
          BY <1>0, <5>1 DEF TypeOK
        <5>3. /\ job' \in [type : {"none", "attach", "send"}, msg : Messages \cup {None},
                           stage : {"none", "writing", "sending", "accepted", "hung"},
                           carries : Content]
              /\ delivered' \in Seq([msg : Messages, carries : Content])
              /\ wanted' \in [Messages -> Content \cup {None}]
              /\ {lost', failed', stuck'} \subseteq SUBSET Messages
              /\ interrupted' \in [Messages -> 0..MaxFaults]
              /\ asked' \in 0..MaxCommands /\ faults' \in 0..MaxFaults
          BY <1>0, <4>2, <5>1 DEF TypeOK
        <5> QED
          BY <1>0, <2>1, <3>2, <4>1, <4>2, <5>2, <5>3 DEF TypeOK
  <2> QED
    BY <2>3, <2>4
<1>10. ASSUME NEW m \in Messages, PlanAbort(m) PROVE TypeOK'
  <2>1. queue' \in Seq(Command)
    BY <1>3, <1>10 DEF PlanAbort, Planning, Moot
  <2>2. toSend' \in [Messages -> Order \cup {None}]
    BY <1>0, <1>10 DEF PlanAbort, Moot, TypeOK
  <2> QED
    BY <1>0, <1>10, <2>1, <2>2 DEF PlanAbort, Moot, TypeOK
<1>11. ASSUME PlanSetPaused PROVE TypeOK'
  <2>1. \A m \in Messages : toSend[m] # None => toSend[m].order \in 0..MaxCommands
    BY <1>0 DEF TypeOK, Order
  <2>2. markers' \in [Messages -> 0..MaxCommands \cup {None}]
    BY <1>0, <1>11, <2>1 DEF PlanSetPaused, TypeOK
  <2>3. queue' \in Seq(Command)
    BY <1>3, <1>11 DEF PlanSetPaused, Planning
  <2> QED
    BY <1>0, <1>11, <2>2, <2>3 DEF PlanSetPaused, TypeOK
<1>12. ASSUME NEW m \in Messages, Execute(m) PROVE TypeOK'
  <2>1. Found(m) \in Content
    BY <1>12, FoundCurrent DEF Execute
  <2> QED
    BY <1>0, <1>12, <2>1, NoneApart DEF Execute, Marker, TypeOK
<1>13. ASSUME NEW m \in Messages, ExecuteStale(m) PROVE TypeOK'
  BY ZenonT(60), <1>0, <1>13, NoneApart DEF ExecuteStale, Marker, TypeOK
<1>14. ASSUME NEW m \in Messages, ExecuteThrows(m) PROVE TypeOK'
  <2>1. faults' \in 0..MaxFaults
    <3>1. faults' = faults \/ (faults < MaxFaults /\ faults' = faults + 1)
      BY <1>14 DEF ExecuteThrows, Fault
    <3> QED
      BY SMTT(30), <1>0, <3>1, NoneApart DEF TypeOK
  <2>2. markers' \in [Messages -> 0..MaxCommands \cup {None}]
    BY <1>0, <1>14 DEF ExecuteThrows, Marker, TypeOK
  <2> QED
    BY ZenonT(60), <1>0, <1>14, <2>1, <2>2 DEF ExecuteThrows, TypeOK
<1>15. ASSUME ServerAccepts PROVE TypeOK'
  <2>1. [msg |-> job.msg, carries |-> job.carries] \in [msg : Messages, carries : Content]
    BY <1>0, <1>15, JobFacts DEF ServerAccepts
  <2>2. delivered' \in Seq([msg : Messages, carries : Content])
    BY <1>0, <1>15, <2>1 DEF ServerAccepts, TypeOK
  <2>3. job' \in [type : {"none", "attach", "send"}, msg : Messages \cup {None},
                 stage : {"none", "writing", "sending", "accepted", "hung"}, carries : Content]
    BY <1>0, <1>15 DEF ServerAccepts, TypeOK
  <2> QED
    BY <1>0, <1>15, <2>2, <2>3 DEF ServerAccepts, TypeOK
<1>16. ASSUME SendEnds, job.msg \in Messages
       PROVE  /\ toSend' \in [Messages -> Order \cup {None}]
              /\ activelySending' \in SUBSET Messages
              /\ job' \in [type : {"none", "attach", "send"}, msg : Messages \cup {None},
                           stage : {"none", "writing", "sending", "accepted", "hung"},
                           carries : Content]
  BY <1>0, <1>16, NoneApart DEF SendEnds, TypeOK, NoJob
<1>17. ASSUME Unnoted, faults < MaxFaults PROVE interrupted' \in [Messages -> 0..MaxFaults]
  <2>1. CASE job.stage = "accepted"
    <3>1. job.msg \in Messages
      BY <1>0, <2>1, JobFacts
    <3>2. interrupted[job.msg] + 1 \in 0..MaxFaults
      BY SMTT(30), <1>0, <1>17, <3>1, NoneApart DEF Counted, TypeOK
    <3>3. interrupted' = [interrupted EXCEPT ![job.msg] = interrupted[job.msg] + 1]
      BY <1>17, <2>1 DEF Unnoted
    <3>4. interrupted \in [Messages -> 0..MaxFaults]
      BY <1>0 DEF TypeOK
    <3> QED
      BY <3>1, <3>2, <3>3, <3>4
  <2>2. CASE job.stage # "accepted"
    BY <1>0, <1>17, <2>2 DEF Unnoted, TypeOK
  <2> QED
    BY <2>1, <2>2
<1>f. ASSUME Fault PROVE faults < MaxFaults /\ faults' \in 0..MaxFaults
  <2>1. faults \in 0..MaxFaults /\ MaxFaults \in Nat
    BY <1>0, NoneApart DEF TypeOK
  <2> QED
    BY <1>f, <2>1 DEF Fault
<1>18. ASSUME SendSucceeds PROVE TypeOK'
  <2>1. job.msg \in Messages
    BY <1>0, <1>18, JobFacts DEF SendSucceeds
  <2>2. keeps = "append" => appends[job.msg] + 1 \in 0..MaxCommands
    <3> SUFFICES ASSUME keeps = "append" PROVE appends[job.msg] + 1 \in 0..MaxCommands
      OBVIOUS
    <3>1. /\ Times(job.msg, delivered) + Owed(job.msg) <= sends[job.msg] + interrupted[job.msg]
          /\ appends[job.msg] + interrupted[job.msg] + Noting(job.msg) = Times(job.msg, delivered)
      BY <2>1 DEF OutboxInv, Balance
    <3>2. Owed(job.msg) = 0 /\ Noting(job.msg) = 1
      BY <1>18 DEF Owed, Noting, SendSucceeds
    <3>3. /\ sends[job.msg] \in 0..MaxCommands /\ interrupted[job.msg] \in Nat
          /\ appends[job.msg] \in Nat
      BY <1>0, <2>1, NoneApart DEF TypeOK
    <3> QED
      BY <3>1, <3>2, <3>3, NoneApart
  <2>3. appends' \in [Messages -> 0..MaxCommands]
    BY <1>0, <1>18, <2>1, <2>2 DEF SendSucceeds, TypeOK
  <2>4. folder' \in [Messages -> {"none", "drafts", "outbox", "sent"}]
    BY <1>0, <1>18, <2>1 DEF SendSucceeds, TypeOK
  <2> QED
    BY <1>0, <1>16, <1>18, <2>1, <2>3, <2>4 DEF SendSucceeds, TypeOK
<1>19. ASSUME SendFails PROVE TypeOK'
  <2>1. job.msg \in Messages
    BY <1>0, <1>19, JobFacts DEF SendFails
  <2>2. interrupted' \in [Messages -> 0..MaxFaults] /\ faults' \in 0..MaxFaults
    BY <1>17, <1>19, <1>f DEF SendFails, Fault
  <2>3. failed' \subseteq Messages
    BY <1>0, <1>19, <2>1 DEF SendFails, TypeOK
  <2>4. UNCHANGED <<folder, text, files, attaching, counter, appends, queue, up, markers,
                    paused, keeps, delivered, wanted, lost, sends, stuck, asked>>
    BY <1>19 DEF SendFails
  <2>5. SendEnds
    BY <1>19 DEF SendFails
  <2> QED
    BY ZenonT(60), <1>0, <1>16, <2>1, <2>2, <2>3, <2>4, <2>5 DEF TypeOK
<1>20. ASSUME ConnectionCloses PROVE TypeOK'
  <2>1. interrupted' \in [Messages -> 0..MaxFaults] /\ faults' \in 0..MaxFaults
    BY <1>17, <1>20, <1>f DEF ConnectionCloses, Fault
  <2> QED
    BY <1>0, <1>20, <2>1 DEF ConnectionCloses, TypeOK
<1>21. ASSUME Crash PROVE TypeOK'
  <2>1. interrupted' \in [Messages -> 0..MaxFaults] /\ faults' \in 0..MaxFaults
    BY <1>0, <1>17, <1>21, NoneApart DEF Crash, Fault, TypeOK
  <2>2. queue' \in Seq(Command)
    BY <1>0, <1>21, Survived DEF Crash
  <2>3. lost' \subseteq Messages
    <3>1. \A i \in DOMAIN queue : queue[i].type \in Transient => queue[i].msg \in Messages
      BY NoneApart DEF OutboxInv, Known
    <3> QED
      BY <1>0, <1>21, <3>1 DEF Crash, TypeOK
  <2>4. job' \in [type : {"none", "attach", "send"}, msg : Messages \cup {None},
                 stage : {"none", "writing", "sending", "accepted", "hung"}, carries : Content]
    BY <1>21, NoneApart DEF Crash, NoJob
  <2> QED
    BY <1>0, <1>21, <2>1, <2>2, <2>3, <2>4 DEF Crash, TypeOK
<1>22. ASSUME Restart PROVE TypeOK'
  <2>1. \A m \in Messages : toSend[m] # None => toSend[m].order \in 0..MaxCommands
    BY <1>0 DEF TypeOK, Order
  <2> QED
    BY <1>0, <1>22, <2>1 DEF Restart, TypeOK
<1> QED
  BY <1>1, <1>2, <1>4, <1>5, <1>6, <1>7, <1>8, <1>9, <1>10, <1>11, <1>12, <1>13, <1>14,
     <1>15, <1>18, <1>19, <1>20, <1>21, <1>22 DEF Moves, User, Plan, Executes, Server

\* What an order to the tasks does to their number.
LEMMA Lengths ==
    ASSUME OutboxInv
    PROVE  /\ Len(queue) \in Nat
           /\ queue # << >> /\ Planned => Len(queue') \in Nat /\ Len(queue') + 1 = Len(queue)
           /\ Survive => Len(queue') \in Nat /\ Len(queue') <= Len(queue)
<1>1. TypeOK
  BY DEF OutboxInv
<1>2. Survive => Len(queue') \in Nat /\ Len(queue') <= Len(queue)
  BY <1>1, Survived
<1>3. ASSUME queue # << >>, Planned PROVE Len(queue') \in Nat /\ Len(queue') + 1 = Len(queue)
  <2>1. Len(queue') = Len(queue) - 1 /\ Len(queue) \in Nat \ {0}
    BY <1>1, <1>3, Shrunk
  <2> QED
    BY <2>1
<1>4. Len(queue) \in Nat
  BY <1>1, QueueFacts
<1> QED
  BY <1>2, <1>3, <1>4

LEMMA Asked ==
    ASSUME OutboxInv, NEW m \in Messages, NEW t \in Persistent \cup Transient, Asks(m, t)
    PROVE  /\ wanted'[m] = Edited(m, t) /\ \A n \in Messages \ {m} : wanted'[n] = wanted[n]
           /\ queue' = Append(queue, [type |-> t, msg |-> m, draft |-> Edited(m, t)])
           /\ [type |-> t, msg |-> m, draft |-> Edited(m, t)] \in Command
<1>1. TypeOK
  BY DEF OutboxInv
<1>2. wanted'[m] = Edited(m, t) /\ \A n \in Messages \ {m} : wanted'[n] = wanted[n]
  BY <1>1 DEF Asks, TypeOK
<1> QED
  BY <1>2, EditedTyped DEF Asks, Issues

LEMMA PauseAsked ==
    ASSUME AsksPause
    PROVE  /\ queue' = Append(queue, [type |-> "setPaused", msg |-> None, draft |-> NoContent])
           /\ [type |-> "setPaused", msg |-> None, draft |-> NoContent] \in Command
BY NoneApart DEF AsksPause, Issues, Command, Persistent

LEMMA NextCounted ==
    ASSUME OutboxInv, Moves, TypeOK'
    PROVE  Counted'
<1> USE DEF disk, memory, seen
<1>0. TypeOK /\ JobKnown /\ Counted /\ Len(queue) \in Nat
  BY Lengths DEF OutboxInv
<1>t. /\ counter \in Nat /\ asked \in Nat /\ faults \in Nat
      /\ \A m \in Messages : /\ files[m] \in Nat /\ sends[m] \in Nat /\ interrupted[m] \in Nat
                             /\ wanted[m] # None => wanted[m].files \in Nat
  BY <1>0, NoneApart DEF TypeOK, Content
<1>a. ASSUME Len(queue') \in Nat, Len(queue') <= Len(queue), counter' = counter, sends' = sends,
             wanted' = wanted, asked' = asked, faults' \in Nat, faults <= faults',
             \A m \in Messages : /\ interrupted'[m] \in Nat /\ interrupted'[m] <= faults'
                                /\ files'[m] \in Nat /\ files'[m] <= files[m]
      PROVE  Counted'
  <2>1. counter' + Len(queue') <= asked'
    BY <1>0, <1>t, <1>a DEF Counted
  <2>2. ASSUME NEW m \in Messages
        PROVE  /\ sends'[m] <= counter'
               /\ files'[m] + Len(queue') <= asked'
               /\ wanted'[m] # None => wanted'[m].files <= asked'
               /\ interrupted'[m] <= faults'
    <3>1. files[m] + Len(queue) <= asked /\ sends[m] <= counter
          /\ (wanted[m] # None => wanted[m].files <= asked)
      BY <1>0 DEF Counted
    <3>2. files'[m] <= files[m] /\ files'[m] \in Nat /\ interrupted'[m] <= faults'
      BY <1>a
    <3>3. files'[m] + Len(queue') <= asked'
      BY <1>0, <1>t, <1>a, <3>1, <3>2
    <3> QED
      BY <1>a, <3>1, <3>2, <3>3
  <2> QED
    BY <2>1, <2>2 DEF Counted
<1>b. ASSUME Len(queue') = Len(queue) + 1, counter' = counter, sends' = sends, files' = files,
             interrupted' = interrupted, asked' = asked + 1, faults' = faults,
             \A m \in Messages : wanted'[m] # None /\ wanted'[m] # wanted[m] =>
                                 wanted'[m].files <= asked'
      PROVE  Counted'
  <2>1. counter' + Len(queue') <= asked'
    BY <1>0, <1>t, <1>b DEF Counted
  <2>2. ASSUME NEW m \in Messages
        PROVE  /\ sends'[m] <= counter'
               /\ files'[m] + Len(queue') <= asked'
               /\ wanted'[m] # None => wanted'[m].files <= asked'
               /\ interrupted'[m] <= faults'
    <3>1. files[m] + Len(queue) <= asked /\ sends[m] <= counter /\ interrupted[m] <= faults
          /\ (wanted[m] # None => wanted[m].files <= asked)
      BY <1>0 DEF Counted
    <3>2. files'[m] + Len(queue') <= asked'
      BY <1>0, <1>t, <1>b, <3>1
    <3>3. wanted'[m] # None => wanted'[m].files <= asked'
      BY <1>t, <1>b, <3>1
    <3> QED
      BY <1>b, <3>1, <3>2, <3>3
  <2> QED
    BY <2>1, <2>2 DEF Counted
<1>c. \A m \in Messages : interrupted[m] <= faults
  BY <1>0 DEF Counted
<1>d. ASSUME Unnoted, faults' = faults + 1
      PROVE  \A m \in Messages : interrupted'[m] \in Nat /\ interrupted'[m] <= faults'
  <2>1. CASE job.stage = "accepted"
    <3>1. \A m \in Messages : interrupted'[m] \in {interrupted[m], interrupted[m] + 1}
      BY <1>0, <1>d, <2>1 DEF Unnoted, TypeOK
    <3> QED
      BY <1>t, <1>c, <1>d, <3>1
  <2>2. CASE job.stage # "accepted"
    BY <1>t, <1>c, <1>d, <2>2 DEF Unnoted
  <2> QED
    BY <2>1, <2>2
<1>1. ASSUME NEW m \in Messages, NEW t \in Persistent \cup Transient, Asks(m, t) PROVE Counted'
  <2>1. /\ counter' = counter /\ sends' = sends /\ files' = files /\ interrupted' = interrupted
        /\ asked' = asked + 1 /\ faults' = faults
    BY <1>1 DEF Asks
  <2>2. Len(queue') = Len(queue) + 1
    BY <1>0, <1>1, Asked, Grown
  <2>3. \A n \in Messages : wanted'[n] # wanted[n] => n = m
    BY <1>1, Asked
  <2>4. wanted'[m].files <= asked'
    BY <1>1, Asked, EditedTyped
  <2> QED
    BY <1>b, <2>1, <2>2, <2>3, <2>4
<1>2. ASSUME AsksPause PROVE Counted'
  <2>1. /\ counter' = counter /\ sends' = sends /\ files' = files /\ interrupted' = interrupted
        /\ asked' = asked + 1 /\ faults' = faults /\ wanted' = wanted
    BY <1>2 DEF AsksPause
  <2>2. Len(queue') = Len(queue) + 1
    BY <1>0, <1>2, PauseAsked, Grown
  <2> QED
    BY <1>b, <2>1, <2>2
<1>3. ASSUME NEW m \in Messages,
             PlanCreate(m) \/ PlanSave(m) \/ PlanDelete(m) \/ PlanAttach(m) \/ PlanAbort(m)
      PROVE  Counted'
  <2>1. Len(queue') \in Nat /\ Len(queue') <= Len(queue)
    BY <1>0, <1>3, Lengths DEF PlanCreate, PlanSave, PlanDelete, PlanAttach, PlanAbort, Planning, Moot
  <2>2. /\ counter' = counter /\ sends' = sends /\ files' = files /\ interrupted' = interrupted
        /\ asked' = asked /\ faults' = faults /\ wanted' = wanted
    BY <1>3 DEF PlanCreate, PlanSave, PlanDelete, PlanAttach, PlanAbort, Moot
  <2> QED
    BY <1>a, <1>c, <1>t, <2>1, <2>2
<1>4. ASSUME NEW m \in Messages, PlanDetach(m) PROVE Counted'
  <2>1. Len(queue') \in Nat /\ Len(queue') <= Len(queue)
    <3>1. queue # << >> /\ Planned
      BY <1>4 DEF PlanDetach, Planning, Moot
    <3> QED
      BY <1>0, <3>1, Lengths
  <2>2. /\ counter' = counter /\ sends' = sends /\ interrupted' = interrupted
        /\ asked' = asked /\ faults' = faults /\ wanted' = wanted
    BY <1>4 DEF PlanDetach, Moot
  <2>3. \/ files' = files
        \/ files[m] > 0 /\ files' = [files EXCEPT ![m] = files[m] - 1]
    BY <1>4 DEF PlanDetach, Moot
  <2>4. \A n \in Messages : files'[n] \in Nat /\ files'[n] <= files[n]
    <3>1. \A n \in Messages : files'[n] = files[n] \/ (files[n] > 0 /\ files'[n] = files[n] - 1)
      <4>1. files \in [Messages -> 0..MaxCommands]
        BY <1>0 DEF TypeOK
      <4>2. CASE files' = files
        BY <4>2
      <4>3. CASE files[m] > 0 /\ files' = [files EXCEPT ![m] = files[m] - 1]
        BY <4>1, <4>3
      <4> QED
        BY <2>3, <4>2, <4>3
    <3>2. ASSUME NEW n \in Messages PROVE files'[n] \in Nat /\ files'[n] <= files[n]
      <4>1. files[n] \in Nat
        BY <1>t
      <4>2. CASE files'[n] = files[n]
        BY <4>1, <4>2
      <4>3. CASE files[n] > 0 /\ files'[n] = files[n] - 1
        BY <4>1, <4>3
      <4> QED
        BY <3>1, <4>2, <4>3
    <3> QED
      BY <3>2
  <2> QED
    BY <1>a, <1>c, <1>t, <2>1, <2>2, <2>4
<1>5. ASSUME AttachEnds PROVE Counted'
  <2>1. job.msg \in Messages /\ queue # << >>
    BY <1>0, <1>5, JobFacts DEF AttachEnds
  <2>2. Len(queue') \in Nat /\ Len(queue') + 1 = Len(queue)
    BY <1>5, <2>1, Lengths DEF AttachEnds
  <2>3. /\ counter' = counter /\ sends' = sends /\ interrupted' = interrupted
        /\ asked' = asked /\ faults' = faults /\ wanted' = wanted
    BY <1>5 DEF AttachEnds
  <2>4. \A n \in Messages : files'[n] \in {files[n], files[n] + 1}
    BY <1>0, <1>5 DEF AttachEnds, TypeOK
  <2>5. counter' + Len(queue') <= asked'
    BY <1>0, <1>t, <2>2, <2>3 DEF Counted
  <2>6. ASSUME NEW n \in Messages PROVE files'[n] + Len(queue') <= asked'
    <3>1. files[n] + Len(queue) <= asked /\ files[n] \in Nat
      BY <1>0, <1>t DEF Counted
    <3> QED
      BY <1>t, <2>2, <2>3, <2>4, <3>1
  <2> QED
    BY <1>0, <2>3, <2>5, <2>6 DEF Counted
<1>6. ASSUME NEW m \in Messages, PlanSend(m) PROVE Counted'
  <2>1. Len(queue') \in Nat /\ Len(queue') + 1 = Len(queue)
    BY <1>6, Lengths DEF PlanSend, Planning, Moot
  <2>2. CASE folder[m] = "none"
    BY <1>6, <1>a, <1>c, <1>t, <1>0, <2>1, <2>2 DEF PlanSend, Moot
  <2>3. CASE folder[m] # "none"
    <3>1. /\ counter' = counter + 1 /\ files' = files /\ interrupted' = interrupted
          /\ asked' = asked /\ faults' = faults /\ wanted' = wanted
          /\ sends' = [sends EXCEPT ![m] = sends[m] + 1]
      BY <1>6, <2>3 DEF PlanSend
    <3>2. \A n \in Messages : sends'[n] \in {sends[n], sends[n] + 1}
      BY <1>0, <3>1 DEF TypeOK
    <3>3. counter' + Len(queue') <= asked'
      BY <1>0, <1>t, <2>1, <3>1 DEF Counted
    <3>4. ASSUME NEW n \in Messages
          PROVE  sends'[n] <= counter' /\ files'[n] + Len(queue') <= asked'
      <4>1. files[n] + Len(queue) <= asked /\ files[n] \in Nat /\ sends[n] <= counter /\ sends[n] \in Nat
        BY <1>0, <1>t DEF Counted
      <4> QED
        BY <1>t, <2>1, <3>1, <3>2, <4>1
    <3> QED
      BY <1>0, <3>1, <3>3, <3>4 DEF Counted
  <2> QED
    BY <2>2, <2>3
<1>7. ASSUME PlanSetPaused PROVE Counted'
  <2>1. Len(queue') \in Nat /\ Len(queue') <= Len(queue)
    BY <1>0, <1>7, Lengths DEF PlanSetPaused, Planning
  <2>2. /\ counter' = counter /\ sends' = sends /\ files' = files /\ interrupted' = interrupted
        /\ asked' = asked /\ faults' = faults /\ wanted' = wanted
    BY <1>7 DEF PlanSetPaused
  <2> QED
    BY <1>a, <1>c, <1>t, <2>1, <2>2
<1>8. ASSUME queue' = queue, counter' = counter, sends' = sends, files' = files, wanted' = wanted,
             interrupted' = interrupted, asked' = asked, faults' \in {faults, faults + 1}
      PROVE  Counted'
  <2>1. faults' \in Nat /\ faults <= faults' /\ \A m \in Messages : interrupted'[m] <= faults'
    BY <1>c, <1>t, <1>8
  <2> QED
    BY <1>0, <1>a, <1>t, <1>8, <2>1
<1>9. ASSUME NEW m \in Messages, Execute(m) \/ ExecuteStale(m) \/ ExecuteThrows(m) PROVE Counted'
  BY <1>8, <1>9 DEF Execute, ExecuteStale, ExecuteThrows, Fault
<1>10. ASSUME ServerAccepts \/ SendSucceeds \/ Restart PROVE Counted'
  BY <1>8, <1>10 DEF ServerAccepts, SendSucceeds, SendEnds, Restart
<1>11. ASSUME SendFails \/ ConnectionCloses PROVE Counted'
  <2>1. /\ counter' = counter /\ sends' = sends /\ files' = files /\ queue' = queue
        /\ asked' = asked /\ faults' = faults + 1 /\ wanted' = wanted /\ Unnoted
    BY <1>11 DEF SendFails, ConnectionCloses, Fault
  <2> QED
    BY <1>0, <1>a, <1>d, <1>t, <2>1
<1>12. ASSUME Crash PROVE Counted'
  <2>1. Len(queue') \in Nat /\ Len(queue') <= Len(queue)
    BY <1>12, Lengths DEF Crash
  <2>2. /\ counter' = counter /\ sends' = sends /\ files' = files
        /\ asked' = asked /\ faults' = faults + 1 /\ wanted' = wanted /\ Unnoted
    BY <1>12 DEF Crash, Fault
  <2> QED
    BY <1>a, <1>d, <1>t, <2>1, <2>2
<1> QED
  BY <1>1, <1>2, <1>3, <1>4, <1>5, <1>6, <1>7, <1>9, <1>10, <1>11, <1>12
  DEF Moves, User, Plan, Executes, Server

-----------------------------------------------------------------------------
(* What is queued, and what the process is at. *)

\* A message with a task has been made; one whose creation is queued has no
\* other task.
LEMMA HeadKnown ==
    ASSUME OutboxInv, queue # << >>
    PROVE  /\ Head(queue).type # "setPaused" => Head(queue).msg \in Messages
           /\ Head(queue).msg \in Messages => wanted[Head(queue).msg] # None
           /\ Head(queue).type = "create" => /\ folder[Head(queue).msg] = "none"
                                            /\ toSend[Head(queue).msg] = None
           /\ \A i \in DOMAIN queue : queue[i].type = "create" /\ queue[i].msg = Head(queue).msg => i = 1
<1>1. 1 \in DOMAIN queue /\ Head(queue) = queue[1]
  BY QueueFacts DEF OutboxInv
<1>2. 1 \in Of(Head(queue).msg)
  BY <1>1 DEF Of
<1>3. Known
  BY DEF OutboxInv
<1> QED
  BY <1>1, <1>2, <1>3 DEF Known

LEMMA KnownShrinks ==
    ASSUME OutboxInv, queue # << >>, Planned, wanted' = wanted,
           \A m \in Messages : m # Head(queue).msg =>
                folder'[m] = folder[m] /\ OnDisk(m)' = OnDisk(m) /\ toSend'[m] = toSend[m]
    PROVE  Known'
<1>1. TypeOK /\ Known
  BY DEF OutboxInv
<1>2. /\ 1 \in DOMAIN queue /\ Head(queue) = queue[1]
      /\ \A i \in DOMAIN queue' : i \in Nat /\ i + 1 \in DOMAIN queue /\ queue'[i] = queue[i + 1] /\ 1 < i + 1
  BY <1>1, Shrunk
<1>3. \A m : \A i \in Of(m)' : i + 1 \in Of(m)
  BY <1>2 DEF Of
<1>4. ASSUME NEW m \in Messages
      PROVE  /\ folder'[m] # "none" => wanted'[m] # None
             /\ wanted'[m] = None => OnDisk(m)' = NoContent /\ toSend'[m] = None /\ Of(m)' = {}
  <2>1. m = Head(queue).msg => wanted'[m] # None
    BY HeadKnown
  <2>2. wanted[m] = None => Of(m)' = {}
    BY <1>1, <1>3 DEF Known
  <2> QED
    BY <1>1, <2>1, <2>2 DEF Known
<1>5. ASSUME NEW i \in DOMAIN queue', queue'[i].type = "create"
      PROVE  /\ folder'[queue'[i].msg] = "none" /\ toSend'[queue'[i].msg] = None
             /\ \A k \in DOMAIN queue' : queue'[k].msg = queue'[i].msg => k = i
  <2>1. /\ i + 1 \in DOMAIN queue /\ queue[i + 1].type = "create" /\ queue'[i] = queue[i + 1]
        /\ i \in Nat /\ 1 < i + 1
    BY <1>2, <1>5
  <2>2. queue[i + 1].msg \in Messages /\ queue[i + 1].msg # Head(queue).msg
    BY <1>1, <2>1, HeadKnown DEF Known
  <2>3. Of(queue[i + 1].msg) = {i + 1}
    BY <1>1, <2>1 DEF Known
  <2>4. ASSUME NEW k \in DOMAIN queue', queue'[k].msg = queue'[i].msg PROVE k = i
    <3>1. k + 1 \in Of(queue[i + 1].msg) /\ k \in Nat
      BY <1>2, <2>1, <2>4 DEF Of
    <3> QED
      BY <2>1, <2>3, <3>1
  <2> QED
    BY <1>1, <2>1, <2>2, <2>4 DEF Known
<1>6. \A i \in DOMAIN queue' : queue'[i].type = "create" => Of(queue[i].msg)' = {i}
  BY <1>5 DEF Of
<1>7. \A i \in DOMAIN queue' : queue'[i].type # "setPaused" => queue'[i].msg \in Messages
  BY <1>1, <1>2 DEF Known
<1> QED
  BY <1>4, <1>5, <1>6, <1>7 DEF Known

LEMMA KnownStays ==
    ASSUME OutboxInv, queue' = queue, wanted' = wanted,
           \A m \in Messages : /\ OnDisk(m)' = OnDisk(m)
                               /\ folder'[m] = folder[m] \/ toSend[m] # None
                               /\ toSend'[m] \in {toSend[m], None}
    PROVE  Known'
<1>1. Known
  BY DEF OutboxInv
<1>2. \A m : Of(m)' = Of(m)
  BY DEF Of
<1>3. ASSUME NEW m \in Messages
      PROVE  /\ folder'[m] # "none" => wanted'[m] # None
             /\ wanted'[m] = None => OnDisk(m)' = NoContent /\ toSend'[m] = None /\ Of(m)' = {}
  BY <1>1, <1>2 DEF Known
<1>4. ASSUME NEW i \in DOMAIN queue', queue'[i].type = "create"
      PROVE  /\ folder'[queue'[i].msg] = "none" /\ toSend'[queue'[i].msg] = None
             /\ Of(queue[i].msg)' = {i}
  <2>1. queue[i].msg \in Messages /\ toSend[queue[i].msg] = None /\ folder[queue[i].msg] = "none"
    BY <1>1, <1>4 DEF Known
  <2>2. Of(queue[i].msg)' = {i}
    BY <1>1, <1>4 DEF Known, Of
  <2> QED
    BY <2>1, <2>2
<1> QED
  BY <1>1, <1>3, <1>4 DEF Known

\* The user's command; only a message that is not there is made.
LEMMA KnownGrows ==
    ASSUME OutboxInv, NEW c \in Command, queue' = Append(queue, c),
           folder' = folder, toSend' = toSend, text' = text, files' = files,
           c.type # "setPaused" => c.msg \in Messages,
           \A m \in Messages : m # c.msg => wanted'[m] = wanted[m],
           c.msg \in Messages => wanted'[c.msg] # None,
           c.type = "create" => wanted[c.msg] = None,
           c.msg \in Messages /\ c.type # "create" => folder[c.msg] # "none"
    PROVE  Known'
<1> DEFINE n == Len(queue) + 1
<1>1. TypeOK /\ Known
  BY DEF OutboxInv
<1>2. /\ DOMAIN queue' = DOMAIN queue \cup {n} /\ n \notin DOMAIN queue
      /\ \A i \in DOMAIN queue : queue'[i] = queue[i]
      /\ queue'[n] = c
  BY <1>1, Grown
<1> HIDE DEF n
<1>3. \A m \in Messages : OnDisk(m)' = OnDisk(m)
  BY DEF OnDisk
<1>4. \A m : Of(m)' = Of(m) \cup (IF c.msg = m THEN {n} ELSE {})
  BY <1>2 DEF Of
<1>5. ASSUME NEW m \in Messages
      PROVE  /\ folder'[m] # "none" => wanted'[m] # None
             /\ wanted'[m] = None => OnDisk(m)' = NoContent /\ toSend'[m] = None /\ Of(m)' = {}
  <2>1. CASE m = c.msg
    BY <2>1
  <2>2. CASE m # c.msg
    BY <1>1, <1>3, <1>4, <2>2 DEF Known
  <2> QED
    BY <2>1, <2>2
<1>6. ASSUME NEW i \in DOMAIN queue', queue'[i].type = "create"
      PROVE  /\ folder'[queue'[i].msg] = "none" /\ toSend'[queue'[i].msg] = None
             /\ \A k \in DOMAIN queue' : queue'[k].msg = queue'[i].msg => k = i
  <2>1. CASE i = n
    <3>1. c.msg \in Messages /\ wanted[c.msg] = None /\ queue'[i] = c /\ c.type = "create"
      BY <1>2, <1>6, <2>1
    <3>2. folder[c.msg] = "none" /\ toSend[c.msg] = None /\ Of(c.msg) = {}
      BY <1>1, <3>1 DEF Known
    <3>3. \A k \in DOMAIN queue : queue[k].msg # c.msg
      BY <3>2 DEF Of
    <3> QED
      BY <1>2, <2>1, <3>1, <3>2, <3>3
  <2>2. CASE i \in DOMAIN queue
    <3>1. queue[i].type = "create" /\ queue'[i] = queue[i] /\ queue[i].msg \in Messages
      BY <1>1, <1>2, <1>6, <2>2 DEF Known
    <3>2. folder[queue[i].msg] = "none" /\ toSend[queue[i].msg] = None /\ Of(queue[i].msg) = {i}
      BY <1>1, <2>2, <3>1 DEF Known
    <3>3. wanted[queue[i].msg] # None
      BY <1>1, <3>1, <3>2 DEF Known
    <3>4. queue[i].msg # c.msg
      BY <3>1, <3>2, <3>3
    <3>5. \A k \in DOMAIN queue : queue[k].msg = queue[i].msg => k = i
      BY <3>2 DEF Of
    <3> QED
      BY <1>2, <3>1, <3>2, <3>4, <3>5
  <2> QED
    BY <1>2, <2>1, <2>2
<1>7. \A i \in DOMAIN queue' : queue'[i].type = "create" => Of(queue[i].msg)' = {i}
  BY <1>6 DEF Of
<1>8. \A i \in DOMAIN queue' : queue'[i].type # "setPaused" => queue'[i].msg \in Messages
  BY <1>1, <1>2 DEF Known
<1> QED
  BY <1>5, <1>6, <1>7, <1>8 DEF Known

LEMMA NextKnown ==
    ASSUME OutboxInv, Moves, TypeOK'
    PROVE  Known'
<1> USE DEF disk, memory, seen
<1>0. TypeOK /\ JobKnown /\ Known
  BY DEF OutboxInv
<1>1. ASSUME NEW m \in Messages, NEW t \in (Persistent \cup Transient) \ {"setPaused"}, Asks(m, t)
      PROVE  Known'
  <2> DEFINE c == [type |-> t, msg |-> m, draft |-> Edited(m, t)]
  <2>1. /\ c \in Command /\ queue' = Append(queue, c) /\ wanted'[m] # None
        /\ \A n \in Messages : n # m => wanted'[n] = wanted[n]
    BY <1>1, Asked, EditedTyped, NoneApart
  <2>2. c.msg = m /\ c.type = t
    OBVIOUS
  <2>3. /\ folder' = folder /\ toSend' = toSend /\ text' = text /\ files' = files
        /\ t = "create" => wanted[m] = None
        /\ t # "create" => folder[m] # "none"
    BY <1>1 DEF Asks
  <2> HIDE DEF c
  <2> QED
    BY <2>1, <2>2, <2>3, KnownGrows
<1>2. ASSUME AsksPause PROVE Known'
  <2> DEFINE c == [type |-> "setPaused", msg |-> None, draft |-> NoContent]
  <2>1. c \in Command /\ queue' = Append(queue, c) /\ c.msg = None /\ c.type = "setPaused"
    BY <1>2, PauseAsked
  <2>2. folder' = folder /\ toSend' = toSend /\ text' = text /\ files' = files /\ wanted' = wanted
    BY <1>2 DEF AsksPause
  <2> HIDE DEF c
  <2> QED
    BY <2>1, <2>2, KnownGrows, NoneApart
<1>3. ASSUME NEW m \in Messages, Planning("create", m) \/ Planning("save", m) \/ Planning("detach", m)
                                  \/ Planning("delete", m) \/ Planning("send", m) \/ Planning("abort", m),
             Planned, wanted' = wanted,
             \A n \in Messages \ {m} : /\ folder'[n] = folder[n] /\ toSend'[n] = toSend[n]
                                      /\ text'[n] = text[n] /\ files'[n] = files[n]
      PROVE  Known'
  <2>1. queue # << >> /\ Head(queue).msg = m
    BY <1>3 DEF Planning
  <2> QED
    BY <1>3, <2>1, KnownShrinks DEF OnDisk
<1>4. ASSUME NEW m \in Messages, PlanCreate(m) PROVE Known'
  BY <1>0, <1>3, <1>4 DEF PlanCreate, TypeOK
<1>5. ASSUME NEW m \in Messages, PlanSave(m) PROVE Known'
  BY <1>0, <1>3, <1>5 DEF PlanSave, Moot, TypeOK
<1>6. ASSUME NEW m \in Messages, PlanDetach(m) PROVE Known'
  <2>1. \A n \in Messages \ {m} : files'[n] = files[n]
    BY <1>0, <1>6 DEF PlanDetach, Moot, TypeOK
  <2>2. /\ Planning("detach", m) /\ Planned /\ wanted' = wanted /\ folder' = folder
        /\ toSend' = toSend /\ text' = text
    BY <1>6 DEF PlanDetach, Moot
  <2> QED
    BY <1>3, <2>1, <2>2
<1>7. ASSUME NEW m \in Messages, PlanDelete(m) PROVE Known'
  BY <1>0, <1>3, <1>7 DEF PlanDelete, Moot, TypeOK
<1>8. ASSUME NEW m \in Messages, PlanAttach(m) PROVE Known'
  <2>1. CASE folder[m] # "none"
    BY <1>8, <2>1, KnownStays DEF PlanAttach, OnDisk
  <2>2. CASE folder[m] = "none"
    BY <1>8, <2>2, KnownShrinks DEF PlanAttach, Planning, Moot, OnDisk
  <2> QED
    BY <2>1, <2>2
<1>9. ASSUME NEW m \in Messages, PlanSend(m) PROVE Known'
  <2>1. \A n \in Messages \ {m} : folder'[n] = folder[n] /\ toSend'[n] = toSend[n]
    BY <1>0, <1>9 DEF PlanSend, Moot, TypeOK
  <2>2. /\ Planning("send", m) /\ Planned /\ wanted' = wanted /\ files' = files /\ text' = text
    BY <1>9 DEF PlanSend, Moot
  <2> QED
    BY <1>3, <2>1, <2>2
<1>10. ASSUME NEW m \in Messages, PlanAbort(m) PROVE Known'
  <2>1. \A n \in Messages \ {m} : folder'[n] = folder[n] /\ toSend'[n] = toSend[n]
    BY SMTT(30), <1>0, <1>10 DEF PlanAbort, Moot, TypeOK
  <2>2. /\ Planning("abort", m) /\ Planned /\ wanted' = wanted /\ files' = files /\ text' = text
    BY <1>10 DEF PlanAbort, Moot
  <2> QED
    BY <1>3, <2>1, <2>2
<1>11. ASSUME AttachEnds PROVE Known'
  <2>1. job.msg \in Messages /\ queue # << >> /\ Head(queue).msg = job.msg
    BY <1>0, <1>11, JobFacts DEF AttachEnds
  <2>2. \A n \in Messages : n # job.msg => files'[n] = files[n]
    BY <1>0, <1>11 DEF AttachEnds, TypeOK
  <2>3. Planned /\ wanted' = wanted /\ folder' = folder /\ toSend' = toSend /\ text' = text
    BY <1>11 DEF AttachEnds
  <2>4. \A n \in Messages : n # job.msg => OnDisk(n)' = OnDisk(n)
    BY <2>2, <2>3 DEF OnDisk
  <2> QED
    BY <2>1, <2>3, <2>4, KnownShrinks
<1>12. ASSUME PlanSetPaused PROVE Known'
  BY <1>12, KnownShrinks DEF PlanSetPaused, Planning, OnDisk
<1>13. ASSUME NEW m \in Messages, Execute(m) \/ ExecuteStale(m) \/ ExecuteThrows(m) PROVE Known'
  <2>1. queue' = queue /\ wanted' = wanted /\ folder' = folder /\ toSend' = toSend /\ text' = text /\ files' = files
    BY <1>13 DEF Execute, ExecuteStale, ExecuteThrows
  <2> QED
    BY <2>1, KnownStays DEF OnDisk
<1>14. ASSUME ServerAccepts \/ ConnectionCloses \/ Restart PROVE Known'
  <2>1. queue' = queue /\ wanted' = wanted /\ folder' = folder /\ toSend' = toSend /\ text' = text /\ files' = files
    BY <1>14 DEF ServerAccepts, ConnectionCloses, Restart
  <2> QED
    BY <2>1, KnownStays DEF OnDisk
<1>15. ASSUME SendSucceeds \/ SendFails PROVE Known'
  <2>1. job.msg \in Messages /\ toSend[job.msg] # None
    BY <1>0, <1>15, JobFacts DEF SendSucceeds, SendFails
  <2>2. queue' = queue /\ wanted' = wanted /\ text' = text /\ files' = files
    BY <1>15 DEF SendSucceeds, SendFails
  <2>3. \A n \in Messages : toSend'[n] \in {toSend[n], None}
    BY <1>0, <1>15 DEF SendSucceeds, SendFails, SendEnds, TypeOK
  <2>4. \A n \in Messages : folder'[n] = folder[n] \/ n = job.msg
    BY <1>0, <1>15 DEF SendSucceeds, SendFails, TypeOK
  <2> QED
    BY <2>1, <2>2, <2>3, <2>4, KnownStays DEF OnDisk
<1>16. ASSUME Crash PROVE Known'
  <2>1. folder' = folder /\ toSend' = toSend /\ text' = text /\ files' = files /\ wanted' = wanted
        /\ Survive
    BY <1>16 DEF Crash
  <2>2. \A k \in DOMAIN queue' : \E i \in DOMAIN queue : queue'[k] = queue[i] /\ queue[i].type \in Persistent
    BY <1>0, <2>1, Survived
  <2>3. \A m : Of(m) = {} => Of(m)' = {}
    BY <2>2 DEF Of
  <2>4. \A m \in Messages : OnDisk(m)' = OnDisk(m)
    BY <2>1 DEF OnDisk
  <2>5. ASSUME NEW m \in Messages
        PROVE  /\ folder'[m] # "none" => wanted'[m] # None
               /\ wanted'[m] = None => OnDisk(m)' = NoContent /\ toSend'[m] = None /\ Of(m)' = {}
    BY <1>0, <2>1, <2>3, <2>4 DEF Known
  <2>6. \A k \in DOMAIN queue' : queue'[k].type # "create"
    BY <2>2, NoneApart
  <2>7. \A k \in DOMAIN queue' : queue'[k].type # "setPaused" => queue'[k].msg \in Messages
    BY <1>0, <2>2 DEF Known
  <2> QED
    BY <2>5, <2>6, <2>7 DEF Known
<1> QED
  BY <1>1, <1>2, <1>4, <1>5, <1>6, <1>7, <1>8, <1>9, <1>10, <1>11, <1>12, <1>13, <1>14,
     <1>15, <1>16 DEF Moves, User, Plan, Executes, Server

LEMMA NextJob ==
    ASSUME OutboxInv, Moves, TypeOK'
    PROVE  JobKnown'
<1> USE DEF disk, memory, seen
<1>0. TypeOK /\ JobKnown /\ Accounted
  BY DEF OutboxInv
<1>1. ASSUME job' = NoJob PROVE JobKnown'
  BY <1>1 DEF JobKnown
<1>2. ASSUME job' = job, up' = up, folder' = folder, toSend' = toSend, text' = text, files' = files,
             queue # << >> => queue' # << >> /\ Head(queue') = Head(queue)
      PROVE  JobKnown'
  BY <1>0, <1>2 DEF JobKnown, OnDisk, Current
<1>3. ASSUME NEW c \in Command, queue' = Append(queue, c), queue # << >>
      PROVE  queue' # << >> /\ Head(queue') = Head(queue)
  <2>1. 1 \in DOMAIN queue /\ Head(queue) = queue[1]
    BY <1>0, <1>3, QueueFacts
  <2>2. 1 \in DOMAIN queue' /\ queue'[1] = queue[1] /\ queue' \in Seq(Command)
    BY <1>0, <1>3, <2>1, Grown
  <2> QED
    BY <2>1, <2>2
<1>4. ASSUME NEW m \in Messages, NEW t \in Persistent \cup Transient, Asks(m, t) PROVE JobKnown'
  <2>1. queue # << >> => queue' # << >> /\ Head(queue') = Head(queue)
    BY <1>3, <1>4, Asked
  <2> QED
    BY <1>2, <1>4, <2>1 DEF Asks
<1>5. ASSUME AsksPause PROVE JobKnown'
  <2>1. queue # << >> => queue' # << >> /\ Head(queue') = Head(queue)
    BY <1>3, <1>5, PauseAsked
  <2> QED
    BY <1>2, <1>5, <2>1 DEF AsksPause
<1>6. ASSUME NEW m \in Messages, PlanCreate(m) \/ PlanSave(m) \/ PlanDetach(m) \/ PlanDelete(m)
                                  \/ PlanSend(m) \/ PlanAbort(m)
      PROVE  JobKnown'
  BY <1>1, <1>6 DEF PlanCreate, PlanSave, PlanDetach, PlanDelete, PlanSend, PlanAbort, Planning, Moot
<1>7. ASSUME NEW m \in Messages, PlanAttach(m) PROVE JobKnown'
  <2>1. CASE folder[m] = "none"
    BY <1>1, <1>7, <2>1 DEF PlanAttach, Planning, Moot
  <2>2. CASE folder[m] # "none"
    <3>1. /\ job'.type = "attach" /\ job'.msg = m /\ job'.stage = "writing"
          /\ up' /\ queue' = queue /\ queue # << >> /\ folder'[m] # "none"
          /\ Head(queue).type = "attach" /\ Head(queue).msg = m
      BY <1>7, <2>2 DEF PlanAttach, Planning, NoJob
    <3> QED
      BY <3>1 DEF JobKnown
  <2> QED
    BY <2>1, <2>2
<1>8. ASSUME AttachEnds \/ SendSucceeds \/ SendFails \/ Crash PROVE JobKnown'
  BY <1>1, <1>8 DEF AttachEnds, SendSucceeds, SendFails, SendEnds, Crash
<1>9. ASSUME PlanSetPaused PROVE JobKnown'
  BY <1>1, <1>9 DEF PlanSetPaused, Planning
<1>10. ASSUME NEW m \in Messages, Execute(m) PROVE JobKnown'
  <2>1. folder[m] = "outbox" /\ Current(m, Found(m))
    BY <1>0, <1>10, FoundCurrent DEF Execute, Accounted, Tracked
  <2>2. /\ job'.type = "send" /\ job'.stage = "sending" /\ job'.msg = m /\ job'.carries = Found(m)
        /\ up' /\ toSend'[m] # None /\ folder'[m] = "outbox" /\ text' = text /\ files' = files
        /\ toSend' = toSend
    BY <1>10, <2>1 DEF Execute, Free
  <2>3. Current(job.msg, job.carries)'
    BY <2>1, <2>2 DEF Current, OnDisk
  <2> QED
    BY <1>10, <2>2, <2>3 DEF JobKnown
<1>11. ASSUME NEW m \in Messages, ExecuteStale(m) \/ ExecuteThrows(m) PROVE JobKnown'
  BY <1>1, <1>11 DEF ExecuteStale, ExecuteThrows, Free
<1>12. ASSUME ServerAccepts \/ ConnectionCloses PROVE JobKnown'
  <2>1. /\ job.type = "send" /\ up /\ job.msg \in Messages /\ toSend[job.msg] # None
        /\ folder[job.msg] = "outbox" /\ Current(job.msg, job.carries)
    BY <1>0, <1>12, JobFacts DEF ServerAccepts, ConnectionCloses
  <2>2. /\ job' \in {[job EXCEPT !.stage = "accepted"], [job EXCEPT !.stage = "hung"]}
        /\ UNCHANGED <<disk, up>>
    BY <1>12 DEF ServerAccepts, ConnectionCloses
  <2>3. /\ job'.type = job.type /\ job'.msg = job.msg /\ job'.carries = job.carries
        /\ job'.stage \in {"accepted", "hung"}
    BY <1>0, <2>2 DEF TypeOK
  <2>4. Current(job.msg, job.carries)'
    BY <2>1, <2>2, <2>3 DEF Current, OnDisk
  <2> QED
    BY <2>1, <2>2, <2>3, <2>4 DEF JobKnown
<1>13. ASSUME Restart PROVE JobKnown'
  BY <1>0, <1>1, <1>13 DEF Restart, JobKnown
<1> QED
  BY <1>4, <1>5, <1>6, <1>7, <1>8, <1>9, <1>10, <1>11, <1>12, <1>13
  DEF Moves, User, Plan, Executes, Server

-----------------------------------------------------------------------------
(* What is tracked. *)

LEMMA NextTracked ==
    ASSUME OutboxInv, Moves, TypeOK'
    PROVE  Track'
<1> USE DEF disk, memory, seen
<1>0. TypeOK /\ JobKnown /\ Accounted /\ Driven /\ InOrder /\ OrdersApart
  BY DEF OutboxInv
<1>t. /\ counter \in Nat
      /\ \A m \in Messages : toSend[m] # None => toSend[m].order \in Nat
  BY <1>0, NoneApart DEF TypeOK, Order
<1>a. ASSUME UNCHANGED <<toSend, counter, markers, up, job, failed, stuck>>,
             \A m \in Messages : \/ folder'[m] = folder[m]
                                 \/ folder'[m] = "none"
                                 \/ folder'[m] = "drafts" /\ toSend[m] = None
      PROVE  Track'
  <2>1. Accounted'
    BY <1>0, <1>a DEF Accounted, Tracked
  <2>2. Driven' /\ InOrder' /\ OrdersApart'
    BY <1>0, <1>a DEF Driven, InOrder, OrdersApart, Tracked
  <2> QED
    BY <2>1, <2>2 DEF Track
<1>1. ASSUME User PROVE Track'
  <2>1. UNCHANGED <<disk, memory, failed, stuck>>
    BY <1>1 DEF User, Asks, AsksPause
  <2> QED
    BY <1>a, <2>1
<1>2. ASSUME NEW m \in Messages, PlanCreate(m) PROVE Track'
  <2>1. toSend[m] = None
    BY <1>2, HeadKnown DEF PlanCreate, Planning
  <2>2. UNCHANGED <<toSend, counter, markers, up, job, failed, stuck>>
    BY <1>2 DEF PlanCreate
  <2>3. \A n \in Messages : folder'[n] = folder[n] \/ (n = m /\ folder'[n] = "drafts")
    BY <1>0, <1>2 DEF PlanCreate, TypeOK
  <2> QED
    BY <1>a, <2>1, <2>2, <2>3
<1>3. ASSUME NEW m \in Messages, PlanSave(m) \/ PlanDetach(m) PROVE Track'
  <2>1. UNCHANGED <<folder, toSend, counter, markers, up, job, failed, stuck>>
    BY <1>3 DEF PlanSave, PlanDetach, Moot
  <2> QED
    BY <1>a, <2>1
<1>4. ASSUME NEW m \in Messages, PlanDelete(m) PROVE Track'
  <2>1. UNCHANGED <<toSend, counter, markers, up, job, failed, stuck>>
    BY <1>4 DEF PlanDelete, Moot
  <2>2. \A n \in Messages : folder'[n] = folder[n] \/ folder'[n] = "none"
    BY <1>0, <1>4 DEF PlanDelete, Moot, TypeOK
  <2> QED
    BY <1>a, <2>1, <2>2
<1>5. ASSUME job'.type # "send", job.type # "send",
             UNCHANGED <<folder, toSend, counter, markers, up, failed, stuck>>
      PROVE  Track'
  <2>1. Accounted' /\ InOrder'
    BY <1>0, <1>5 DEF Accounted, InOrder, Tracked
  <2>2. Driven' /\ OrdersApart'
    BY <1>0, <1>5 DEF Driven, OrdersApart, Tracked
  <2> QED
    BY <2>1, <2>2 DEF Track
<1>6. ASSUME NEW m \in Messages, PlanAttach(m) PROVE Track'
  <2>1. job.type = "none" /\ job'.type # "send"
    <3>1. job = NoJob /\ (job' = job \/ job' = [NoJob EXCEPT !.type = "attach", !.msg = m, !.stage = "writing"])
      BY <1>6 DEF PlanAttach, Planning, Moot
    <3>2. job.type = "none"
      BY <3>1 DEF NoJob
    <3>3. [NoJob EXCEPT !.type = "attach", !.msg = m, !.stage = "writing"].type = "attach"
      BY DEF NoJob
    <3> QED
      BY <3>1, <3>2, <3>3
  <2>2. UNCHANGED <<folder, toSend, counter, markers, up, failed, stuck>>
    BY <1>6 DEF PlanAttach, Moot
  <2> QED
    BY <1>5, <2>1, <2>2
<1>7. ASSUME AttachEnds PROVE Track'
  <2>1. job.type = "attach" /\ job'.type = "none"
    BY <1>7 DEF AttachEnds, NoJob
  <2>2. UNCHANGED <<folder, toSend, counter, markers, up, failed, stuck>>
    BY <1>7 DEF AttachEnds
  <2> QED
    BY <1>5, <2>1, <2>2
<1>8. ASSUME NEW m \in Messages, PlanSend(m) PROVE Track'
  <2>0. up /\ job.type = "none" /\ job' = job
    BY <1>8 DEF PlanSend, Planning, NoJob, Moot
  <2>1. CASE folder[m] = "none"
    BY <1>8, <1>a, <2>1 DEF PlanSend, Moot
  <2>2. CASE folder[m] # "none"
    <3>1. /\ folder'[m] = "outbox" /\ toSend'[m] = [order |-> counter, date |-> text[m]]
          /\ markers'[m] = counter /\ counter' = counter + 1 /\ toSend'[m] \in Order
          /\ failed' = failed \ {m} /\ stuck' = stuck \ {m} /\ up' = up
      <4>1. /\ folder' = [folder EXCEPT ![m] = "outbox"]
            /\ toSend' = [toSend EXCEPT ![m] = [order |-> counter, date |-> text[m]]]
            /\ failed' = failed \ {m} /\ stuck' = stuck \ {m}
        BY <1>8, <2>2 DEF PlanSend
      <4>2. markers' = [markers EXCEPT ![m] = counter] /\ counter' = counter + 1
        BY <1>8, <2>2 DEF PlanSend, Marker
      <4>3. counter \in 0..MaxCommands /\ text[m] \in 0..MaxCommands
        BY <1>0 DEF TypeOK
      <4>4. /\ DOMAIN folder = Messages /\ DOMAIN toSend = Messages /\ DOMAIN markers = Messages
        BY <1>0 DEF TypeOK
      <4>5. [order |-> counter, date |-> text[m]] \in Order
        BY <4>3 DEF Order
      <4>6. up' = up
        BY <1>8, <2>2 DEF PlanSend
      <4> QED
        BY <4>1, <4>2, <4>4, <4>5, <4>6
    <3>2. /\ toSend'[m].order = counter /\ toSend'[m] # None
      BY <3>1, NoneApart
    <3>3. \A n \in Messages : n # m =>
            folder'[n] = folder[n] /\ toSend'[n] = toSend[n] /\ markers'[n] = markers[n]
      BY <1>0, <1>8, <2>2 DEF PlanSend, Marker, TypeOK
    <3>4. Accounted'
      BY <1>0, <3>1, <3>2, <3>3 DEF Accounted, Tracked
    <3>5. Driven'
      BY <1>0, <2>0, <3>1, <3>2, <3>3 DEF Driven, Tracked
    <3>6. InOrder'
      BY <2>0 DEF InOrder
    <3>7. \A n \in Tracked : toSend[n].order < counter /\ toSend[n].order \in Nat
      BY <1>0, <1>t DEF OrdersApart, Tracked
    <3>8. Tracked' = Tracked \cup {m}
      BY <3>2, <3>3 DEF Tracked
    <3>9. ASSUME NEW n \in Tracked \ {m}
          PROVE  /\ toSend'[n].order < counter'
                 /\ markers'[n] # None => markers'[n] = toSend'[n].order
                 /\ toSend'[n].order # counter
      BY <1>0, <1>t, <3>1, <3>3, <3>7 DEF OrdersApart, Tracked
    <3>10. OrdersApart'
      <4>1. counter < counter'
        BY <1>t, <3>1
      <4>2. \A n, k \in Tracked \ {m} : toSend'[n].order = toSend'[k].order => n = k
        BY <1>0, <3>3 DEF OrdersApart, Tracked
      <4> QED
        BY <3>1, <3>2, <3>8, <3>9, <4>1, <4>2 DEF OrdersApart
    <3> QED
      BY <3>4, <3>5, <3>6, <3>10 DEF Track
  <2> QED
    BY <2>1, <2>2
<1>9. ASSUME NEW m \in Messages, toSend' = [toSend EXCEPT ![m] = None],
             UNCHANGED <<counter, markers, up, stuck>>, job' = NoJob, job.type = "send" => job.msg = m,
             folder'[m] # "outbox" \/ m \in failed', failed \subseteq failed',
             \A n \in Messages : n # m => folder'[n] = folder[n]
      PROVE  Track'
  <2>1. Tracked' = Tracked \ {m} /\ \A n \in Messages \ {m} : toSend'[n] = toSend[n]
    BY <1>0, <1>9 DEF Tracked, TypeOK
  <2>2. Accounted'
    BY <1>0, <1>9, <2>1 DEF Accounted, Tracked
  <2>3. Driven'
    BY <1>0, <1>9, <2>1 DEF Driven, Tracked
  <2>4. InOrder'
    BY <1>9 DEF InOrder, NoJob
  <2>5. OrdersApart'
    BY <1>0, <1>9, <2>1 DEF OrdersApart, Tracked
  <2> QED
    BY <2>2, <2>3, <2>4, <2>5 DEF Track
<1>10. ASSUME NEW m \in Messages, PlanAbort(m) PROVE Track'
  <2>1. CASE Abortable(m)
    <3>1. /\ toSend' = [toSend EXCEPT ![m] = None] /\ folder' = [folder EXCEPT ![m] = "drafts"]
          /\ UNCHANGED <<counter, markers, up, stuck, failed>> /\ job' = NoJob /\ job = NoJob
      BY <1>10, <2>1 DEF PlanAbort, Planning
    <3>2. /\ folder'[m] # "outbox" /\ \A n \in Messages : n # m => folder'[n] = folder[n]
      BY <1>0, <3>1 DEF TypeOK
    <3>3. job.type # "send"
      BY <3>1 DEF NoJob
    <3> QED
      BY <1>9, <3>1, <3>2, <3>3
  <2>2. CASE ~Abortable(m)
    BY <1>10, <1>a, <2>2 DEF PlanAbort, Moot
  <2> QED
    BY <2>1, <2>2
<1>11. ASSUME SendSucceeds \/ SendFails PROVE Track'
  <2>1. job.msg \in Messages
    BY <1>0, <1>11, JobFacts DEF SendSucceeds, SendFails
  <2>2. /\ toSend' = [toSend EXCEPT ![job.msg] = None] /\ job' = NoJob
        /\ UNCHANGED <<counter, markers, up, stuck>> /\ failed \subseteq failed'
    BY <1>11 DEF SendSucceeds, SendFails, SendEnds
  <2>3. folder'[job.msg] # "outbox" \/ job.msg \in failed'
    BY <1>0, <1>11, <2>1 DEF SendSucceeds, SendFails, TypeOK
  <2>4. \A n \in Messages : n # job.msg => folder'[n] = folder[n]
    BY <1>0, <1>11 DEF SendSucceeds, SendFails, TypeOK
  <2> QED
    BY <1>9, <2>1, <2>2, <2>3, <2>4
<1>12. ASSUME UNCHANGED <<folder, toSend, counter, failed, stuck>>, job' = job, job.type # "send",
              \A m \in Messages : markers'[m] \in (IF toSend[m] = None THEN {None, markers[m]} ELSE {toSend[m].order})
       PROVE  Track'
  <2>1. Accounted' /\ InOrder'
    BY <1>0, <1>12 DEF Accounted, InOrder, Tracked
  <2>2. Tracked' = Tracked /\ \A m \in Tracked : markers'[m] = toSend'[m].order
    BY <1>12 DEF Tracked
  <2>3. Driven' /\ OrdersApart'
    BY <1>0, <1>12, <2>2 DEF Driven, OrdersApart, Tracked
  <2> QED
    BY <2>1, <2>3 DEF Track
<1>13. ASSUME PlanSetPaused PROVE Track'
  <2>1. CASE paused = None
    BY <1>13, <1>a, <2>1 DEF PlanSetPaused
  <2>2. CASE paused # None
    BY <1>12, <1>13, <2>2 DEF PlanSetPaused, Planning, NoJob
  <2> QED
    BY <2>1, <2>2
<1>14. ASSUME Restart PROVE Track'
  <2>1. job.type # "send"
    BY <1>0, <1>14, JobFacts DEF Restart
  <2> QED
    BY <1>12, <1>14, <2>1 DEF Restart
<1>15. ASSUME NEW m \in Messages, Execute(m) PROVE Track'
  <2>1. /\ up /\ up' = up /\ job.type = "none" /\ job'.type = "send" /\ job'.msg = m
        /\ toSend[m] # None /\ markers[m] # None
        /\ UNCHANGED <<folder, toSend, counter, failed, stuck>>
        /\ markers' = [markers EXCEPT ![m] = None]
    BY <1>15 DEF Execute, Free, First, NoJob, Marker
  <2>2. Tracked' = Tracked /\ \A n \in Messages : n # m => markers'[n] = markers[n]
    BY <1>0, <2>1 DEF Tracked, TypeOK
  <2>3. Accounted'
    BY <1>0, <2>1, <2>2 DEF Accounted
  <2>4. Driven'
    BY <1>0, <2>1, <2>2 DEF Driven, Tracked
  <2>5. InOrder'
    <3> SUFFICES ASSUME NEW n \in Tracked \ (stuck \cup {m}) PROVE toSend[n].order > toSend[m].order
      BY <2>1, <2>2 DEF InOrder
    <3>1. markers[n] = toSend[n].order /\ n \in Messages
      BY <1>0, <2>1 DEF Driven, Tracked
    <3>2. markers[m] = toSend[m].order
      BY <1>0, <2>1 DEF OrdersApart, Tracked
    <3>3. toSend[n].order \in Nat /\ toSend[m].order \in Nat
      BY <1>t, <2>1 DEF Tracked
    <3>4. toSend[m].order <= toSend[n].order
      BY <1>15, <3>1, <3>2, <3>3, NoneApart DEF Execute, First
    <3>5. toSend[m].order # toSend[n].order
      BY <1>0, <2>1 DEF OrdersApart, Tracked
    <3> QED
      BY <3>3, <3>4, <3>5
  <2>6. OrdersApart'
    <3>1. \A n \in Messages : markers'[n] # None => n # m /\ markers'[n] = markers[n]
      BY <1>0, <2>1, <2>2 DEF TypeOK
    <3>2. Tracked \subseteq Messages
      BY DEF Tracked
    <3> QED
      BY <1>0, <2>1, <2>2, <3>1, <3>2 DEF OrdersApart
  <2> QED
    BY <2>3, <2>4, <2>5, <2>6 DEF Track
<1>16. ASSUME NEW m \in Messages, ExecuteStale(m) \/ ExecuteThrows(m) PROVE Track'
  <2>1. /\ job.type = "none" /\ job' = job /\ up' = up
        /\ toSend[m] = None \/ m \in stuck'
        /\ UNCHANGED <<folder, toSend, counter, failed>> /\ stuck \subseteq stuck'
        /\ markers' = [markers EXCEPT ![m] = None]
    BY <1>16 DEF ExecuteStale, ExecuteThrows, Free, NoJob, Marker
  <2>2. /\ Tracked' = Tracked /\ markers'[m] = None
        /\ \A n \in Messages : n # m => markers'[n] = markers[n]
    BY <1>0, <2>1 DEF Tracked, TypeOK
  <2>3. Accounted' /\ InOrder'
    BY <1>0, <2>1, <2>2 DEF Accounted, InOrder
  <2>4. Driven'
    BY <1>0, <2>1, <2>2 DEF Driven, Tracked
  <2>5. OrdersApart'
    BY <1>0, <2>1, <2>2 DEF OrdersApart, Tracked
  <2> QED
    BY <2>3, <2>4, <2>5 DEF Track
<1>17. ASSUME ServerAccepts \/ ConnectionCloses PROVE Track'
  <2>1. UNCHANGED <<folder, toSend, counter, markers, up, failed, stuck>>
    BY <1>17 DEF ServerAccepts, ConnectionCloses
  <2>2. job'.type = job.type /\ job'.msg = job.msg
    BY <1>0, <1>17 DEF ServerAccepts, ConnectionCloses, TypeOK
  <2>3. Tracked' = Tracked
    BY <2>1 DEF Tracked
  <2>4. Accounted' /\ OrdersApart'
    BY <1>0, <2>1, <2>3 DEF Accounted, OrdersApart
  <2>5. Driven' /\ InOrder'
    BY <1>0, <2>1, <2>2, <2>3 DEF Driven, InOrder
  <2> QED
    BY <2>4, <2>5 DEF Track
<1>18. ASSUME Crash PROVE Track'
  <2>1. /\ UNCHANGED <<folder, toSend, counter, failed>> /\ ~up' /\ job' = NoJob
        /\ \A m \in Messages : markers'[m] = None
    BY <1>18 DEF Crash
  <2>2. Accounted' /\ OrdersApart'
    BY <1>0, <2>1 DEF Accounted, OrdersApart, Tracked
  <2>3. Driven' /\ InOrder'
    BY <2>1 DEF Driven, InOrder, NoJob
  <2> QED
    BY <2>2, <2>3 DEF Track
<1> QED
  BY <1>1, <1>2, <1>3, <1>4, <1>6, <1>7, <1>8, <1>10, <1>11, <1>13, <1>14, <1>15, <1>16, <1>17,
     <1>18 DEF Moves, Plan, Executes, Server

-----------------------------------------------------------------------------
(* What went out. *)

LEMMA TimesAppend ==
    ASSUME NEW log \in Seq([msg : Messages, carries : Content]),
           NEW e \in [msg : Messages, carries : Content], NEW m
    PROVE  /\ Times(m, log) \in Nat
           /\ Times(m, Append(log, e)) = Times(m, log) + (IF e.msg = m THEN 1 ELSE 0)
<1> DEFINE n == Len(log) + 1
           I == {i \in DOMAIN log : log[i].msg = m}
           J == {i \in DOMAIN Append(log, e) : Append(log, e)[i].msg = m}
<1>1. Len(log) \in Nat /\ DOMAIN log = 1..Len(log)
  OBVIOUS
<1>2. IsFiniteSet(1..Len(log))
  BY <1>1, FS_Interval
<1>3. IsFiniteSet(I) /\ Cardinality(I) \in Nat
  BY <1>1, <1>2, FS_Subset, FS_CardinalityType
<1>4. /\ DOMAIN Append(log, e) = DOMAIN log \cup {n} /\ n \notin DOMAIN log
      /\ Append(log, e)[n] = e /\ \A i \in DOMAIN log : Append(log, e)[i] = log[i]
  BY <1>1
<1>5. n \notin I
  BY <1>4
<1>6. CASE e.msg = m
  <2>1. J = I \cup {n}
    BY <1>4, <1>6
  <2>2. Cardinality(I \cup {n}) = Cardinality(I) + 1
    BY <1>3, <1>5, FS_AddElement
  <2> QED
    BY <1>3, <1>6, <2>1, <2>2 DEF Times
<1>7. CASE e.msg # m
  <2>1. J = I
    BY <1>4, <1>7
  <2>2. Times(m, Append(log, e)) = Cardinality(J) /\ Times(m, log) = Cardinality(I)
    BY DEF Times
  <2> HIDE DEF I, J, n
  <2>3. Times(m, Append(log, e)) = Times(m, log) /\ Times(m, log) \in Nat
    BY <1>3, <2>1, <2>2
  <2> QED
    BY <1>7, <2>3
<1> QED
  BY <1>6, <1>7

LEMMA NextBalance ==
    ASSUME OutboxInv, Moves, TypeOK'
    PROVE  Balance'
<1> USE DEF disk, memory, seen
<1>0. TypeOK /\ JobKnown /\ Balance /\ Counted
  BY DEF OutboxInv
<1>t. ASSUME NEW m \in Messages
      PROVE  /\ sends[m] \in Nat /\ appends[m] \in Nat /\ interrupted[m] \in Nat /\ Times(m, delivered) \in Nat
             /\ Owed(m) \in {0, 1} /\ Noting(m) \in {0, 1}
             /\ Times(m, delivered) + Owed(m) <= sends[m] + interrupted[m]
             /\ appends[m] <= sends[m]
             /\ keeps = "append" => appends[m] + interrupted[m] + Noting(m) = Times(m, delivered)
  <2>1. [msg |-> m, carries |-> NoContent] \in [msg : Messages, carries : Content]
    BY NoneApart
  <2>2. Times(m, delivered) \in Nat
    BY <1>0, <2>1, TimesAppend DEF TypeOK
  <2> QED
    BY <1>0, <2>2, NoneApart DEF TypeOK, Owed, Noting, Balance
<1>a. ASSUME UNCHANGED <<delivered, sends, interrupted, appends, keeps>>,
             job.stage # "accepted", job'.stage # "accepted",
             \A m \in Messages : toSend'[m] # None => toSend[m] # None
      PROVE  Balance'
  <2> SUFFICES ASSUME NEW m \in Messages
               PROVE  /\ Times(m, delivered') + Owed(m)' <= sends'[m] + interrupted'[m]
                      /\ appends'[m] <= sends'[m]
                      /\ keeps' = "append" => appends'[m] + interrupted'[m] + Noting(m)' = Times(m, delivered')
    BY DEF Balance
  <2>1. Owed(m)' \in {0, 1} /\ Owed(m)' <= Owed(m)
    BY <1>a DEF Owed
  <2>2. Noting(m)' = Noting(m)
    BY <1>a DEF Noting
  <2> QED
    BY <1>a, <1>t, <2>1, <2>2
<1>b. ASSUME UNCHANGED <<delivered, sends, interrupted, appends, keeps, job, toSend>> PROVE Balance'
  BY <1>0, <1>b DEF Balance, Owed, Noting, Times
<1>1. ASSUME User PROVE Balance'
  BY <1>1, <1>b DEF User, Asks, AsksPause
<1>2. ASSUME NEW m \in Messages, PlanCreate(m) \/ PlanSave(m) \/ PlanDetach(m) \/ PlanDelete(m) PROVE Balance'
  BY <1>2, <1>b DEF PlanCreate, PlanSave, PlanDetach, PlanDelete, Moot
<1>3. ASSUME NEW m \in Messages, PlanAttach(m) PROVE Balance'
  <2>1. job = NoJob /\ (job' = job \/ job' = [NoJob EXCEPT !.type = "attach", !.msg = m, !.stage = "writing"])
        /\ UNCHANGED <<delivered, sends, interrupted, appends, keeps, toSend>>
    BY <1>3 DEF PlanAttach, Planning, Moot
  <2>2. job.stage # "accepted" /\ job'.stage # "accepted"
    <3>1. job.stage # "accepted"
      BY <2>1 DEF NoJob
    <3>2. [NoJob EXCEPT !.type = "attach", !.msg = m, !.stage = "writing"].stage = "writing"
      BY DEF NoJob
    <3> QED
      BY <2>1, <3>1, <3>2
  <2> QED
    BY <1>a, <2>1, <2>2
<1>4. ASSUME AttachEnds PROVE Balance'
  <2>1. job.stage # "accepted" /\ job'.stage # "accepted"
    BY <1>0, <1>4, JobFacts DEF AttachEnds, NoJob
  <2> QED
    BY <1>4, <1>a, <2>1 DEF AttachEnds
<1>5. ASSUME NEW m \in Messages, PlanSend(m) PROVE Balance'
  <2>1. CASE folder[m] = "none"
    BY <1>5, <1>b, <2>1 DEF PlanSend, Moot
  <2>2. CASE folder[m] # "none"
    <3>1. /\ UNCHANGED <<delivered, interrupted, appends, keeps, job>> /\ job.stage = "none"
          /\ sends' = [sends EXCEPT ![m] = sends[m] + 1]
          /\ toSend' = [toSend EXCEPT ![m] = [order |-> counter, date |-> text[m]]]
      BY <1>5, <2>2 DEF PlanSend, Planning, NoJob
    <3> SUFFICES ASSUME NEW n \in Messages
                 PROVE  /\ Times(n, delivered') + Owed(n)' <= sends'[n] + interrupted'[n]
                        /\ appends'[n] <= sends'[n]
                        /\ keeps' = "append" => appends'[n] + interrupted'[n] + Noting(n)' = Times(n, delivered')
      BY DEF Balance
    <3>2. Owed(n)' \in {0, 1} /\ Noting(n)' = Noting(n)
      BY <3>1 DEF Owed, Noting
    <3>3. CASE n = m
      <4>1. sends'[n] = sends[n] + 1
        BY <1>0, <3>1, <3>3 DEF TypeOK
      <4> QED
        BY <1>t, <3>1, <3>2, <4>1
    <3>4. CASE n # m
      <4>1. sends'[n] = sends[n] /\ toSend'[n] = toSend[n]
        BY <1>0, <3>1, <3>4 DEF TypeOK
      <4>2. Owed(n)' = Owed(n)
        BY <3>1, <4>1 DEF Owed
      <4> QED
        BY <1>t, <3>1, <3>2, <4>1, <4>2
    <3> QED
      BY <3>3, <3>4
  <2> QED
    BY <2>1, <2>2
<1>6. ASSUME NEW m \in Messages, PlanAbort(m) PROVE Balance'
  <2>1. job = NoJob /\ job' = job /\ UNCHANGED <<delivered, sends, interrupted, appends, keeps>>
    BY <1>6 DEF PlanAbort, Planning, Moot
  <2>2. job.stage # "accepted"
    BY <2>1 DEF NoJob
  <2>3. \A n \in Messages : toSend'[n] # None => toSend[n] # None
    BY <1>0, <1>6 DEF PlanAbort, Moot, TypeOK
  <2> QED
    BY <1>a, <2>1, <2>2, <2>3
<1>7. ASSUME PlanSetPaused \/ Restart PROVE Balance'
  BY <1>7, <1>b DEF PlanSetPaused, Restart
<1>8. ASSUME NEW m \in Messages, Execute(m) PROVE Balance'
  <2>1. job.stage # "accepted"
    BY <1>8 DEF Execute, Free, NoJob
  <2>2. job'.stage # "accepted"
    BY <1>8 DEF Execute
  <2> QED
    BY <1>8, <1>a, <2>1, <2>2 DEF Execute
<1>9. ASSUME NEW m \in Messages, ExecuteStale(m) \/ ExecuteThrows(m) PROVE Balance'
  BY <1>9, <1>b DEF ExecuteStale, ExecuteThrows
<1>10. ASSUME ServerAccepts PROVE Balance'
  <2>1. /\ job.msg \in Messages /\ toSend[job.msg] # None /\ job.stage = "sending"
        /\ job'.msg = job.msg /\ job'.stage = "accepted"
        /\ UNCHANGED <<sends, interrupted, appends, keeps, toSend>>
    BY <1>0, <1>10, JobFacts DEF ServerAccepts, TypeOK
  <2>2. [msg |-> job.msg, carries |-> job.carries] \in [msg : Messages, carries : Content]
    BY <1>0, <2>1, JobFacts
  <2>3. delivered \in Seq([msg : Messages, carries : Content])
        /\ delivered' = Append(delivered, [msg |-> job.msg, carries |-> job.carries])
    BY <1>0, <1>10 DEF ServerAccepts, TypeOK
  <2> SUFFICES ASSUME NEW n \in Messages
               PROVE  /\ Times(n, delivered') + Owed(n)' <= sends'[n] + interrupted'[n]
                      /\ appends'[n] <= sends'[n]
                      /\ keeps' = "append" => appends'[n] + interrupted'[n] + Noting(n)' = Times(n, delivered')
    BY DEF Balance
  <2>4. Times(n, delivered') = Times(n, delivered) + (IF job.msg = n THEN 1 ELSE 0)
    BY <2>2, <2>3, TimesAppend
  <2>5. CASE job.msg = n
    <3>1. Owed(n) = 1 /\ Owed(n)' = 0 /\ Noting(n) = 0 /\ Noting(n)' = 1
      BY <2>1, <2>5 DEF Owed, Noting
    <3> QED
      BY <1>t, <2>1, <2>4, <2>5, <3>1
  <2>6. CASE job.msg # n
    <3>1. Owed(n)' = Owed(n) /\ Noting(n)' = Noting(n)
      BY <2>1, <2>6 DEF Owed, Noting
    <3> QED
      BY <1>t, <2>1, <2>4, <2>6, <3>1
  <2> QED
    BY <2>5, <2>6
<1>11. ASSUME SendSucceeds PROVE Balance'
  <2>1. /\ job.msg \in Messages /\ job.stage = "accepted" /\ job'.stage = "none"
        /\ UNCHANGED <<delivered, sends, interrupted, keeps>>
        /\ toSend' = [toSend EXCEPT ![job.msg] = None]
        /\ appends' = IF keeps = "append" THEN [appends EXCEPT ![job.msg] = appends[job.msg] + 1] ELSE appends
    BY <1>0, <1>11, JobFacts DEF SendSucceeds, SendEnds, NoJob
  <2> SUFFICES ASSUME NEW n \in Messages
               PROVE  /\ Times(n, delivered') + Owed(n)' <= sends'[n] + interrupted'[n]
                      /\ appends'[n] <= sends'[n]
                      /\ keeps' = "append" => appends'[n] + interrupted'[n] + Noting(n)' = Times(n, delivered')
    BY DEF Balance
  <2>2. Noting(n)' = 0
    BY <2>1 DEF Noting
  <2>3. CASE job.msg = n
    <3>1. toSend'[n] = None /\ appends'[n] = (IF keeps = "append" THEN appends[n] + 1 ELSE appends[n])
      BY <1>0, <2>1, <2>3 DEF TypeOK
    <3>2. Owed(n) = 0 /\ Owed(n)' = 0 /\ Noting(n) = 1
      BY <2>1, <2>3, <3>1 DEF Owed, Noting
    <3>0. delivered' = delivered /\ sends'[n] = sends[n] /\ interrupted'[n] = interrupted[n] /\ keeps' = keeps
      BY <2>1
    <3>3. CASE keeps = "append"
      <4>1. appends'[n] = appends[n] + 1
        BY <3>1, <3>3
      <4>2. /\ appends[n] + interrupted[n] + 1 = Times(n, delivered)
            /\ Times(n, delivered) + 0 <= sends[n] + interrupted[n]
        BY <1>t, <3>2, <3>3
      <4> QED
        BY <1>t, <2>2, <3>0, <3>2, <4>1, <4>2
    <3>4. CASE keeps # "append"
      BY <1>t, <2>2, <3>0, <3>1, <3>2, <3>4
    <3> QED
      BY <3>3, <3>4
  <2>4. CASE job.msg # n
    <3>1. toSend'[n] = toSend[n] /\ appends'[n] = appends[n]
      BY <1>0, <2>1, <2>4 DEF TypeOK
    <3>2. Owed(n)' = Owed(n) /\ Noting(n) = 0
      BY <2>1, <2>4, <3>1 DEF Owed, Noting
    <3> QED
      BY <1>t, <2>1, <2>2, <3>1, <3>2
  <2> QED
    BY <2>3, <2>4
<1>12. ASSUME Unnoted, UNCHANGED <<delivered, sends, appends, keeps>>, job'.stage # "accepted",
              \A m \in Messages : toSend'[m] # None => toSend[m] # None
       PROVE  Balance'
  <2>1. CASE job.stage # "accepted"
    BY <1>12, <1>a, <2>1 DEF Unnoted
  <2>2. CASE job.stage = "accepted"
    <3>1. job.msg \in Messages /\ interrupted' = [interrupted EXCEPT ![job.msg] = interrupted[job.msg] + 1]
      BY <1>0, <1>12, <2>2, JobFacts DEF Unnoted
    <3> SUFFICES ASSUME NEW n \in Messages
                 PROVE  /\ Times(n, delivered') + Owed(n)' <= sends'[n] + interrupted'[n]
                        /\ appends'[n] <= sends'[n]
                        /\ keeps' = "append" => appends'[n] + interrupted'[n] + Noting(n)' = Times(n, delivered')
      BY DEF Balance
    <3>2. Noting(n)' = 0 /\ Owed(n)' \in {0, 1}
      BY <1>12 DEF Noting, Owed
    <3>3. CASE job.msg = n
      <4>1. interrupted'[n] = interrupted[n] + 1 /\ Noting(n) = 1 /\ Owed(n) = 0
        BY <1>0, <2>2, <3>1, <3>3 DEF TypeOK, Noting, Owed
      <4>2. delivered' = delivered /\ sends'[n] = sends[n] /\ appends'[n] = appends[n] /\ keeps' = keeps
        BY <1>12
      <4> QED
        BY <1>t, <3>2, <4>1, <4>2
    <3>4. CASE job.msg # n
      <4>1. interrupted'[n] = interrupted[n] /\ Noting(n) = 0
        BY <1>0, <2>2, <3>1, <3>4 DEF TypeOK, Noting
      <4>2. Owed(n)' <= Owed(n)
        BY <1>12, <3>4 DEF Owed
      <4> QED
        BY <1>12, <1>t, <3>2, <4>1, <4>2
    <3> QED
      BY <3>3, <3>4
  <2> QED
    BY <2>1, <2>2
<1>13. ASSUME SendFails \/ ConnectionCloses \/ Crash PROVE Balance'
  <2>1. Unnoted /\ UNCHANGED <<delivered, sends, appends, keeps>>
    BY <1>13 DEF SendFails, ConnectionCloses, Crash
  <2>2. job'.stage # "accepted"
    BY <1>0, <1>13 DEF SendFails, ConnectionCloses, Crash, SendEnds, NoJob, TypeOK
  <2>3. \A m \in Messages : toSend'[m] # None => toSend[m] # None
    BY <1>0, <1>13 DEF SendFails, ConnectionCloses, Crash, SendEnds, TypeOK
  <2> QED
    BY <1>12, <2>1, <2>2, <2>3
<1> QED
  BY <1>1, <1>2, <1>3, <1>4, <1>5, <1>6, <1>7, <1>8, <1>9, <1>10, <1>11, <1>13
  DEF Moves, Plan, Executes, Server

-----------------------------------------------------------------------------
(* The drafts. *)

\* The task at the head leaves on disk what its draft says.
LEMMA ChainPlanned ==
    ASSUME OutboxInv, queue # << >>, Planned, wanted' = wanted, lost' = lost,
           \A m \in Messages : m # Head(queue).msg =>
                folder'[m] = folder[m] /\ OnDisk(m)' = OnDisk(m),
           \A m \in Messages : m = Head(queue).msg /\ folder'[m] # "none" =>
                /\ folder[m] # "none" \/ Head(queue).type = "create"
                /\ AddsUp(m) => OnDisk(m)' = Head(queue).draft
    PROVE  Chained'
<1>0. TypeOK /\ Chained
  BY DEF OutboxInv
<1>1. /\ 1 \in DOMAIN queue /\ Head(queue) = queue[1]
      /\ \A i \in DOMAIN queue' : i + 1 \in DOMAIN queue /\ queue'[i] = queue[i + 1] /\ 1 < i + 1
  BY <1>0, Shrunk
<1>2. ASSUME NEW m \in Messages, NEW i \in Of(m)', queue'[i].type = "create"
      PROVE  Made(m) /\ m # Head(queue).msg
  <2>1. i + 1 \in Of(m) /\ queue[i + 1].type = "create" /\ 1 < i + 1 /\ i + 1 \in DOMAIN queue
        /\ queue[i + 1].msg = m
    BY <1>1, <1>2 DEF Of
  <2>2. m # Head(queue).msg
    BY <2>1, HeadKnown
  <2> QED
    BY <2>1, <2>2 DEF Made
<1>3. ASSUME NEW m \in Messages \ lost, Made(m)' PROVE AddsUp(m)'
  <2>1. CASE m = Head(queue).msg
    <3>1. folder'[m] # "none"
      BY <1>2, <1>3, <2>1 DEF Made
    <3>2. Made(m)
      <4>1. CASE folder[m] # "none"
        BY <4>1 DEF Made
      <4>2. CASE Head(queue).type = "create"
        <5>1. 1 \in Of(m) /\ queue[1].type = "create"
          BY <1>1, <2>1, <4>2 DEF Of
        <5> QED
          BY <5>1 DEF Made
      <4> QED
        BY <2>1, <3>1, <4>1, <4>2
    <3>3. AddsUp(m)
      BY <1>0, <3>2 DEF Chained
    <3>4. OnDisk(m)' = Head(queue).draft
      BY <2>1, <3>1, <3>3
    <3>5. wanted'[m] = wanted[m]
      OBVIOUS
    <3> QED
      BY <1>0, <2>1, <3>3, <3>4, <3>5, ChainSteps
  <2>2. CASE m # Head(queue).msg
    <3>1. folder'[m] = folder[m] /\ OnDisk(m)' = OnDisk(m) /\ wanted'[m] = wanted[m]
      BY <2>2
    <3>2. Made(m)
      BY <1>2, <1>3, <3>1 DEF Made
    <3>3. AddsUp(m)
      BY <1>0, <3>2 DEF Chained
    <3> QED
      BY <1>0, <2>2, <3>1, <3>3, ChainSteps
  <2> QED
    BY <2>1, <2>2
<1> QED
  BY <1>3 DEF Chained

\* Nothing is planned, and no draft changes.
LEMMA ChainStays ==
    ASSUME OutboxInv, queue' = queue, wanted' = wanted, lost' = lost, text' = text, files' = files,
           \A m \in Messages : folder'[m] # "none" => folder[m] # "none"
    PROVE  Chained'
<1>1. ASSUME NEW m \in Messages \ lost, Made(m)' PROVE AddsUp(m)'
  <2>1. OnDisk(m)' = OnDisk(m) /\ wanted'[m] = wanted[m]
    BY DEF OnDisk
  <2>2. Made(m)
    BY <1>1 DEF Made, Of
  <2>3. AddsUp(m)
    BY <2>2 DEF OutboxInv, Chained
  <2> QED
    BY <2>1, <2>3, ChainSame
<1> QED
  BY <1>1 DEF Chained

LEMMA NextChained ==
    ASSUME OutboxInv, Moves, TypeOK'
    PROVE  Chained'
<1> USE DEF disk, memory, seen
<1>0. TypeOK /\ JobKnown /\ Known /\ Chained
  BY DEF OutboxInv
<1>1. ASSUME NEW m \in Messages, NEW t \in Persistent \cup Transient, Asks(m, t) PROVE Chained'
  <2> DEFINE c == [type |-> t, msg |-> m, draft |-> Edited(m, t)]
             n == Len(queue) + 1
  <2>1. /\ c \in Command /\ queue' = Append(queue, c) /\ wanted'[m] = Edited(m, t)
        /\ \A k \in Messages : k # m => wanted'[k] = wanted[k]
        /\ Edited(m, t) \in Content
    BY <1>1, Asked, EditedTyped
  <2>2. c.msg = m /\ c.type = t /\ c.draft = Edited(m, t)
    OBVIOUS
  <2> HIDE DEF c
  <2>3. /\ folder' = folder /\ text' = text /\ files' = files /\ lost' = lost
        /\ t = "create" => wanted[m] = None
        /\ t # "create" => folder[m] # "none"
    BY <1>1 DEF Asks
  <2>4. \A k \in Messages : OnDisk(k)' = OnDisk(k)
    BY <2>3 DEF OnDisk
  <2>5. /\ DOMAIN queue' = DOMAIN queue \cup {n} /\ n \notin DOMAIN queue
        /\ \A i \in DOMAIN queue : queue'[i] = queue[i]
        /\ queue'[n] = c
    BY <1>0, <2>1, Grown
  <2> HIDE DEF n
  <2>6. ASSUME NEW k \in Messages \ lost, k # m, Made(k)' PROVE AddsUp(k)'
    <3>1. Of(k)' = Of(k)
      BY <2>2, <2>5, <2>6 DEF Of
    <3>2. \A i \in Of(k) : queue'[i] = queue[i]
      BY <2>5 DEF Of
    <3>3. Made(k)
      BY <2>3, <2>6, <3>1, <3>2 DEF Made
    <3>4. AddsUp(k)
      BY <1>0, <3>3 DEF Chained
    <3>5. wanted'[k] = wanted[k] /\ OnDisk(k)' = OnDisk(k)
      BY <2>1, <2>4, <2>6
    <3> QED
      BY <1>0, <2>1, <2>2, <2>6, <3>4, <3>5, ChainGrows
  <2>7. ASSUME m \notin lost PROVE AddsUp(m)'
    <3>1. CASE t = "create"
      <4>1. OnDisk(m) = NoContent /\ Of(m) = {} /\ c.draft = NoContent
        BY <1>0, <2>2, <2>3, <3>1 DEF Known, Edited
      <4>2. Of(m)' = {n}
        BY <2>2, <2>5, <4>1 DEF Of
      <4>3. Applied(OnDisk(m), c) = OnDisk(m)
        BY <2>2, <3>1 DEF Applied
      <4>4. queue'[n].draft = Applied(OnDisk(m)', queue'[n]) /\ queue'[n].draft = wanted'[m]
        BY <2>1, <2>2, <2>4, <2>5, <4>1, <4>3
      <4>5. \A i, j \in {n} : ~(j < i)
        BY <1>0, QueueFacts DEF n
      <4> QED
        BY <4>2, <4>4, <4>5 DEF AddsUp
    <3>2. CASE t # "create"
      <4>1. AddsUp(m)
        BY <1>0, <2>3, <2>7, <3>2 DEF Chained, Made
      <4>2. c.draft = Applied(wanted[m], c)
        <5>1. CASE t = "save"
          <6>1. c.draft = [wanted[m] EXCEPT !.text = asked + 1]
            BY <2>2, <5>1 DEF Edited
          <6>2. wanted[m] \in Content
            BY <1>0, <2>3, <3>2 DEF TypeOK, Known
          <6>3. c.draft.text = asked + 1
            BY <6>1, <6>2 DEF Content
          <6> QED
            BY <2>2, <5>1, <6>1, <6>3 DEF Applied
        <5>2. CASE t # "save"
          BY <2>2, <3>2, <5>2 DEF Applied, Edited
        <5> QED
          BY <5>1, <5>2
      <4>3. c.draft = wanted'[m] /\ OnDisk(m)' = OnDisk(m)
        BY <2>1, <2>2, <2>4
      <4> QED
        BY <1>0, <2>1, <2>2, <4>1, <4>2, <4>3, ChainGrows
    <3> QED
      BY <3>1, <3>2
  <2> QED
    BY <2>3, <2>6, <2>7 DEF Chained
<1>2. ASSUME AsksPause PROVE Chained'
  <2> DEFINE c == [type |-> "setPaused", msg |-> None, draft |-> NoContent]
             n == Len(queue) + 1
  <2>1. c \in Command /\ queue' = Append(queue, c) /\ c.msg = None /\ c.type = "setPaused"
    BY <1>2, PauseAsked
  <2> HIDE DEF c
  <2>2. folder' = folder /\ text' = text /\ files' = files /\ lost' = lost /\ wanted' = wanted
    BY <1>2 DEF AsksPause
  <2>3. /\ DOMAIN queue' = DOMAIN queue \cup {n}
        /\ \A i \in DOMAIN queue : queue'[i] = queue[i]
        /\ queue'[n] = c
    BY <1>0, <2>1, Grown
  <2> HIDE DEF n
  <2>4. ASSUME NEW k \in Messages \ lost, Made(k)' PROVE AddsUp(k)'
    <3>1. c.msg # k
      BY <2>1, NoneApart
    <3>2. \A i \in Of(k)' : i \in Of(k) /\ queue'[i] = queue[i]
      BY <2>3, <3>1 DEF Of
    <3>3. Made(k)
      BY <2>2, <2>4, <3>2 DEF Made
    <3>4. AddsUp(k)
      BY <1>0, <3>3 DEF Chained
    <3>5. wanted'[k] = wanted[k] /\ OnDisk(k)' = OnDisk(k)
      BY <2>2 DEF OnDisk
    <3> QED
      BY <1>0, <2>1, <3>1, <3>4, <3>5, ChainGrows
  <2> QED
    BY <2>2, <2>4 DEF Chained
<1>3. ASSUME NEW m \in Messages, queue # << >>, Head(queue).msg = m, AddsUp(m)
      PROVE  Head(queue).draft = Applied(OnDisk(m), Head(queue)) /\ Head(queue).draft \in Content
  <2>1. Head(queue) \in Command
    BY <1>0, <1>3, QueueFacts
  <2> QED
    BY <1>0, <1>3, <2>1, HeadDraft DEF Command
<1>4. ASSUME NEW m \in Messages, PlanCreate(m) PROVE Chained'
  <2>1. /\ queue # << >> /\ Planned /\ wanted' = wanted /\ lost' = lost /\ text' = text /\ files' = files
        /\ Head(queue).msg = m /\ Head(queue).type = "create" /\ Planning("create", m)
    BY <1>4 DEF PlanCreate, Planning
  <2>2. \A k \in Messages : k # m => folder'[k] = folder[k]
    BY <1>0, <1>4 DEF PlanCreate, TypeOK
  <2>3. \A k \in Messages : OnDisk(k)' = OnDisk(k)
    BY <2>1 DEF OnDisk
  <2>4. AddsUp(m) => OnDisk(m)' = Head(queue).draft
    <3>1. Applied(OnDisk(m), Head(queue)) = OnDisk(m)
      BY <2>1 DEF Applied
    <3> QED
      BY <1>3, <2>1, <2>3, <3>1
  <2> QED
    BY <2>1, <2>2, <2>3, <2>4, ChainPlanned
<1>5. ASSUME NEW m \in Messages, PlanSave(m) PROVE Chained'
  <2>1. /\ queue # << >> /\ Planned /\ wanted' = wanted /\ lost' = lost /\ folder' = folder /\ files' = files
        /\ Head(queue).msg = m /\ Head(queue).type = "save" /\ Planning("save", m)
    BY <1>5 DEF PlanSave, Planning, Moot
  <2>2. \A k \in Messages : k # m => text'[k] = text[k]
    BY <1>0, <1>5 DEF PlanSave, Moot, TypeOK
  <2>3. \A k \in Messages : k # m => OnDisk(k)' = OnDisk(k)
    BY <2>1, <2>2 DEF OnDisk
  <2>4. ASSUME folder'[m] # "none", AddsUp(m) PROVE OnDisk(m)' = Head(queue).draft
    <3>1. text'[m] = Head(queue).draft.text
      BY <1>0, <1>5, <2>1, <2>4 DEF PlanSave, TypeOK
    <3>0. Applied(OnDisk(m), Head(queue)) = [OnDisk(m) EXCEPT !.text = Head(queue).draft.text]
      BY <2>1 DEF Applied
    <3>2. Head(queue).draft = [OnDisk(m) EXCEPT !.text = Head(queue).draft.text]
      BY <1>3, <2>1, <2>4, <3>0
    <3>3. [OnDisk(m) EXCEPT !.text = text'[m]] = [text |-> text'[m], files |-> files'[m]]
      BY <2>1 DEF OnDisk
    <3> QED
      BY <3>1, <3>2, <3>3 DEF OnDisk
  <2> QED
    BY <2>1, <2>3, <2>4, ChainPlanned
<1>6. ASSUME NEW m \in Messages, PlanDetach(m) PROVE Chained'
  <2>1. /\ queue # << >> /\ Planned /\ wanted' = wanted /\ lost' = lost /\ folder' = folder /\ text' = text
        /\ Head(queue).msg = m /\ Head(queue).type = "detach" /\ Planning("detach", m)
    BY <1>6 DEF PlanDetach, Planning, Moot
  <2>2. \A k \in Messages : k # m => files'[k] = files[k]
    BY <1>0, <1>6 DEF PlanDetach, Moot, TypeOK
  <2>3. \A k \in Messages : k # m => OnDisk(k)' = OnDisk(k)
    BY <2>1, <2>2 DEF OnDisk
  <2>4. ASSUME folder'[m] # "none", AddsUp(m) PROVE OnDisk(m)' = Head(queue).draft
    <3>0. Applied(OnDisk(m), Head(queue)) = [OnDisk(m) EXCEPT !.files = OnDisk(m).files - 1]
      BY <2>1 DEF Applied
    <3>1. Head(queue).draft = [OnDisk(m) EXCEPT !.files = OnDisk(m).files - 1] /\ Head(queue).draft \in Content
      BY <1>3, <2>1, <2>4, <3>0
    <3>2. Head(queue).draft = [text |-> text[m], files |-> files[m] - 1]
      BY <3>1 DEF OnDisk
    <3>3. files[m] > 0
      <4>1. files[m] - 1 \in 0..MaxCommands
        BY <3>1, <3>2 DEF Content
      <4> QED
        <5>1. files[m] \in Nat
          BY <1>0, NoneApart DEF TypeOK
        <5> QED
          BY <4>1, <5>1, NoneApart
    <3>4. files'[m] = files[m] - 1
      BY <1>0, <1>6, <2>1, <2>4, <3>3 DEF PlanDetach, TypeOK
    <3> QED
      BY <2>1, <3>2, <3>4 DEF OnDisk
  <2> QED
    BY <2>1, <2>3, <2>4, ChainPlanned
\* Tasks that leave the draft as it is.
<1>7. ASSUME NEW m \in Messages, NEW type \in {"delete", "send", "abort"}, Planning(type, m), Planned,
             wanted' = wanted, lost' = lost, text' = text, files' = files,
             \A k \in Messages : k # m => folder'[k] = folder[k],
             folder'[m] # "none" => folder[m] # "none"
      PROVE  Chained'
  <2>1. \A k \in Messages : OnDisk(k)' = OnDisk(k)
    BY <1>7 DEF OnDisk
  <2>2. AddsUp(m) => OnDisk(m)' = Head(queue).draft
    <3>1. Head(queue).type = type /\ queue # << >> /\ Head(queue).msg = m
      BY <1>7 DEF Planning
    <3>2. Applied(OnDisk(m), Head(queue)) = OnDisk(m)
      BY <3>1 DEF Applied
    <3> QED
      BY <1>3, <2>1, <3>1, <3>2
  <2>3. queue # << >> /\ Head(queue).msg = m
    BY <1>7 DEF Planning
  <2> QED
    BY <1>7, <2>1, <2>2, <2>3, ChainPlanned
<1>8. ASSUME NEW m \in Messages, PlanDelete(m) PROVE Chained'
  <2>1. /\ Planning("delete", m) /\ Planned /\ wanted' = wanted /\ lost' = lost /\ text' = text /\ files' = files
    BY <1>8 DEF PlanDelete, Moot
  <2>2. /\ \A k \in Messages : k # m => folder'[k] = folder[k]
        /\ folder'[m] # "none" => folder[m] # "none"
    BY <1>0, <1>8 DEF PlanDelete, Moot, TypeOK
  <2> QED
    BY <1>7, <2>1, <2>2
<1>9. ASSUME NEW m \in Messages, PlanSend(m) PROVE Chained'
  <2>1. /\ Planning("send", m) /\ Planned /\ wanted' = wanted /\ lost' = lost /\ text' = text /\ files' = files
    BY <1>9 DEF PlanSend, Moot
  <2>2. /\ \A k \in Messages : k # m => folder'[k] = folder[k]
        /\ folder'[m] # "none" => folder[m] # "none"
    BY <1>0, <1>9 DEF PlanSend, Moot, TypeOK
  <2> QED
    BY <1>7, <2>1, <2>2
<1>10. ASSUME NEW m \in Messages, PlanAbort(m) PROVE Chained'
  <2>1. /\ Planning("abort", m) /\ Planned /\ wanted' = wanted /\ lost' = lost /\ text' = text /\ files' = files
    BY <1>10 DEF PlanAbort, Moot
  <2>2. /\ \A k \in Messages : k # m => folder'[k] = folder[k]
        /\ folder'[m] # "none" => folder[m] # "none"
    BY <1>0, <1>10 DEF PlanAbort, Moot, Abortable, TypeOK
  <2> QED
    BY <1>7, <2>1, <2>2
<1>11. ASSUME NEW m \in Messages, PlanAttach(m) PROVE Chained'
  <2>1. wanted' = wanted /\ lost' = lost /\ text' = text /\ files' = files /\ folder' = folder
    BY <1>11 DEF PlanAttach, Moot
  <2>2. CASE folder[m] # "none"
    BY <1>11, <2>1, <2>2, ChainStays DEF PlanAttach
  <2>3. CASE folder[m] = "none"
    <3>1. queue # << >> /\ Head(queue).msg = m /\ Planned
      BY <1>11, <2>3 DEF PlanAttach, Planning, Moot
    <3>2. \A k \in Messages : OnDisk(k)' = OnDisk(k)
      BY <2>1 DEF OnDisk
    <3> QED
      BY <2>1, <2>3, <3>1, <3>2, ChainPlanned
  <2> QED
    BY <2>2, <2>3
<1>12. ASSUME AttachEnds PROVE Chained'
  <2>1. /\ job.msg \in Messages /\ queue # << >> /\ Head(queue).msg = job.msg /\ Head(queue).type = "attach"
        /\ Planned /\ wanted' = wanted /\ lost' = lost /\ folder' = folder /\ text' = text
        /\ files' = [files EXCEPT ![job.msg] = files[job.msg] + 1]
    BY <1>0, <1>12, JobFacts DEF AttachEnds
  <2>2. /\ files'[job.msg] = files[job.msg] + 1
        /\ \A k \in Messages : k # job.msg => files'[k] = files[k]
    BY <1>0, <2>1 DEF TypeOK
  <2>3. \A k \in Messages : k # job.msg => OnDisk(k)' = OnDisk(k)
    BY <2>1, <2>2 DEF OnDisk
  <2> DEFINE h == job.msg
  <2>4. OnDisk(h) = [text |-> text[h], files |-> files[h]]
    BY DEF OnDisk
  <2>5. h \in Messages /\ queue # << >> /\ Head(queue).msg = h /\ Head(queue).type = "attach"
        /\ files'[h] = files[h] + 1 /\ \A k \in Messages : k # h => OnDisk(k)' = OnDisk(k)
    BY <2>1, <2>2, <2>3
  <2>6. AddsUp(h) => Head(queue).draft = [text |-> text[h], files |-> files[h] + 1]
    <3> SUFFICES ASSUME AddsUp(h) PROVE Head(queue).draft = [text |-> text[h], files |-> files[h] + 1]
      OBVIOUS
    <3>1. Head(queue).draft = Applied(OnDisk(h), Head(queue))
      BY <1>0, <2>5, HeadDraft
    <3> HIDE DEF h
    <3>2. Head(queue).draft = [OnDisk(h) EXCEPT !.files = OnDisk(h).files + 1]
      BY <2>5, <3>1 DEF Applied
    <3> QED
      BY <2>4, <3>2
  <2>7. ASSUME NEW g \in Messages, g = h, AddsUp(g) PROVE OnDisk(g)' = Head(queue).draft
    BY <2>1, <2>5, <2>6, <2>7 DEF OnDisk
  <2>8. ASSUME NEW g \in Messages, g = Head(queue).msg
        PROVE  folder'[g] # "none" => /\ folder[g] # "none" \/ Head(queue).type = "create"
                                      /\ AddsUp(g) => OnDisk(g)' = Head(queue).draft
    BY <2>1, <2>7, <2>8
  <2>9. \A k \in Messages : k # Head(queue).msg => folder'[k] = folder[k] /\ OnDisk(k)' = OnDisk(k)
    BY <2>1, <2>3
  <2> HIDE DEF h
  <2> QED
    BY <2>1, <2>8, <2>9, ChainPlanned
<1>13. ASSUME PlanSetPaused PROVE Chained'
  <2>1. /\ queue # << >> /\ Planned /\ Head(queue).msg = None /\ wanted' = wanted /\ lost' = lost
        /\ folder' = folder /\ text' = text /\ files' = files
    BY <1>13 DEF PlanSetPaused, Planning
  <2>2. \A k \in Messages : OnDisk(k)' = OnDisk(k)
    BY <2>1 DEF OnDisk
  <2> QED
    BY <2>1, <2>2, ChainPlanned, NoneApart
<1>14. ASSUME NEW m \in Messages, Execute(m) \/ ExecuteStale(m) \/ ExecuteThrows(m) PROVE Chained'
  <2>1. UNCHANGED <<queue, wanted, lost, text, files, folder>>
    BY <1>14 DEF Execute, ExecuteStale, ExecuteThrows
  <2> QED
    BY <2>1, ChainStays
<1>15. ASSUME ServerAccepts \/ ConnectionCloses \/ Restart \/ SendFails PROVE Chained'
  <2>1. UNCHANGED <<queue, wanted, lost, text, files, folder>>
    BY <1>15 DEF ServerAccepts, ConnectionCloses, Restart, SendFails
  <2> QED
    BY <2>1, ChainStays
<1>16. ASSUME SendSucceeds PROVE Chained'
  <2>1. UNCHANGED <<queue, wanted, lost, text, files>>
    BY <1>16 DEF SendSucceeds
  <2>2. job.msg \in Messages /\ folder[job.msg] = "outbox"
    BY <1>0, <1>16, JobFacts DEF SendSucceeds
  <2>3. \A k \in Messages : folder'[k] = folder[k] \/ k = job.msg
    BY <1>0, <1>16 DEF SendSucceeds, TypeOK
  <2> QED
    BY <2>1, <2>2, <2>3, ChainStays
<1>17. ASSUME Crash PROVE Chained'
  <2>1. UNCHANGED <<wanted, text, files, folder>> /\ Survive
        /\ lost' = lost \cup {queue[i].msg : i \in {j \in DOMAIN queue : queue[j].type \in Transient}}
    BY <1>17 DEF Crash
  <2>2. ASSUME NEW m \in Messages \ lost', Made(m)' PROVE AddsUp(m)'
    <3>1. m \notin lost /\ \A i \in Of(m) : queue[i].type \in Persistent
      <4>1. \A i \in DOMAIN queue : queue[i].type \in Persistent \cup Transient
        BY <1>0, QueueFacts DEF Command
      <4> QED
        BY <2>1, <2>2, <4>1 DEF Of
    <3>2. \A k \in DOMAIN queue' : queue'[k].type # "create"
      BY <1>0, <2>1, Survived, NoneApart
    <3>3. Made(m)
      BY <2>1, <2>2, <3>2 DEF Made, Of
    <3>4. AddsUp(m)
      BY <1>0, <3>1, <3>3 DEF Chained
    <3>5. OnDisk(m)' = OnDisk(m) /\ wanted'[m] = wanted[m]
      BY <2>1 DEF OnDisk
    <3> QED
      BY <1>0, <2>1, <3>1, <3>4, <3>5, ChainSurvives
  <2> QED
    BY <2>2 DEF Chained
<1> QED
  BY <1>1, <1>2, <1>4, <1>5, <1>6, <1>8, <1>9, <1>10, <1>11, <1>12, <1>13, <1>14, <1>15, <1>16,
     <1>17 DEF Moves, User, Plan, Executes, Server

-----------------------------------------------------------------------------
(* What is saved later, and what the cache knows. *)

LEMMA LaterGrows ==
    ASSUME OutboxInv, NEW c \in Command, queue' = Append(queue, c), text' = text, asked' = asked + 1,
           c.type = "save" => c.msg \in Messages /\ c.draft.text = asked + 1
    PROVE  Later'
<1>a. TypeOK /\ Later
  BY DEF OutboxInv
<1>b. asked \in Nat
  BY <1>a, NoneApart DEF TypeOK
<1>0. TypeOK /\ Later /\ asked \in Nat
  BY <1>a, <1>b
<1> DEFINE n == Len(queue) + 1
<1>1. /\ DOMAIN queue' = DOMAIN queue \cup {n} /\ n \notin DOMAIN queue /\ queue'[n] = c
      /\ \A i \in DOMAIN queue : queue'[i] = queue[i] /\ i < n /\ i \in Nat
      /\ n \in Nat
  BY <1>0, Grown, QueueFacts
<1> HIDE DEF n
<1>2. \A m \in Messages : text[m] \in Nat /\ text[m] <= asked
  BY <1>0, NoneApart DEF TypeOK, Later
<1>3. \A i \in DOMAIN queue : queue[i].type = "save" =>
        queue[i].draft.text \in Nat /\ queue[i].draft.text <= asked
  BY <1>0, QueueFacts, NoneApart DEF Later, Command, Content
<1>4. ASSUME NEW i \in DOMAIN queue', queue'[i].type = "save"
      PROVE  /\ text'[queue'[i].msg] < queue'[i].draft.text /\ queue'[i].draft.text <= asked'
             /\ \A j \in DOMAIN queue' :
                  i < j /\ queue'[j].type = "save" /\ queue'[j].msg = queue'[i].msg
                      => queue'[i].draft.text < queue'[j].draft.text
  <2>1. CASE i = n
    BY <1>0, <1>1, <1>2, <1>4, <2>1
  <2>2. CASE i \in DOMAIN queue
    <3>1. /\ text[queue[i].msg] < queue[i].draft.text /\ queue[i].draft.text <= asked
          /\ queue[i].draft.text \in Nat /\ queue'[i] = queue[i]
      BY <1>0, <1>1, <1>3, <1>4, <2>2 DEF Later
    <3>2. ASSUME NEW j \in DOMAIN queue', i < j, queue'[j].type = "save", queue'[j].msg = queue'[i].msg
          PROVE  queue'[i].draft.text < queue'[j].draft.text
      <4>1. CASE j = n
        BY <1>0, <1>1, <3>1, <3>2, <4>1
      <4>2. CASE j \in DOMAIN queue
        BY <1>0, <1>1, <1>4, <2>2, <3>2, <4>2 DEF Later
      <4> QED
        BY <1>1, <4>1, <4>2
    <3> QED
      BY <1>0, <3>1, <3>2
  <2> QED
    BY <1>1, <2>1, <2>2
<1> QED
  BY <1>0, <1>2, <1>4 DEF Later

LEMMA LaterShrinks ==
    ASSUME OutboxInv, queue # << >>, Planned, asked' = asked,
           \/ text' = text
           \/ /\ Head(queue).type = "save" /\ Head(queue).msg \in Messages
              /\ text' = [text EXCEPT ![Head(queue).msg] = Head(queue).draft.text]
    PROVE  Later'
<1>0. TypeOK /\ Later /\ Known
  BY DEF OutboxInv
<1>1. /\ 1 \in DOMAIN queue /\ Head(queue) = queue[1]
      /\ \A i \in DOMAIN queue' : i \in Nat /\ i + 1 \in DOMAIN queue /\ queue'[i] = queue[i + 1] /\ 1 < i + 1
  BY <1>0, Shrunk
<1>2. \A m \in Messages : text'[m] = text[m] \/ (/\ queue[1].type = "save" /\ m = queue[1].msg
                                              /\ text'[m] = queue[1].draft.text)
  <2>1. text \in [Messages -> 0..MaxCommands]
    BY <1>0 DEF TypeOK
  <2> QED
    BY <1>1, <2>1
<1>3. \A m \in Messages : text'[m] <= asked'
  BY <1>0, <1>1, <1>2 DEF Later
<1>4. ASSUME NEW i \in DOMAIN queue', queue'[i].type = "save"
      PROVE  /\ text'[queue'[i].msg] < queue'[i].draft.text /\ queue'[i].draft.text <= asked'
             /\ \A j \in DOMAIN queue' :
                  i < j /\ queue'[j].type = "save" /\ queue'[j].msg = queue'[i].msg
                      => queue'[i].draft.text < queue'[j].draft.text
  <2>1. i + 1 \in DOMAIN queue /\ queue'[i] = queue[i + 1] /\ i \in Nat /\ 1 < i + 1
    BY <1>1
  <2>2. queue[i + 1].type = "save" /\ queue[i + 1].msg \in Messages
    BY <1>0, <1>4, <2>1 DEF Known
  <2>3. /\ text[queue[i + 1].msg] < queue[i + 1].draft.text /\ queue[i + 1].draft.text <= asked
        /\ queue[1].type = "save" /\ queue[1].msg = queue[i + 1].msg => queue[1].draft.text < queue[i + 1].draft.text
    BY <1>0, <1>1, <2>1, <2>2 DEF Later
  <2>4. text'[queue'[i].msg] < queue'[i].draft.text
    BY <1>2, <2>1, <2>2, <2>3
  <2>5. ASSUME NEW j \in DOMAIN queue', i < j, queue'[j].type = "save", queue'[j].msg = queue'[i].msg
        PROVE  queue'[i].draft.text < queue'[j].draft.text
    <3>1. j + 1 \in DOMAIN queue /\ queue'[j] = queue[j + 1] /\ i + 1 < j + 1
      BY <1>1, <2>1, <2>5
    <3> QED
      BY <1>0, <2>1, <2>2, <2>5, <3>1 DEF Later
  <2> QED
    BY <2>1, <2>3, <2>4, <2>5
<1> QED
  BY <1>3, <1>4 DEF Later

LEMMA LaterSurvives ==
    ASSUME OutboxInv, Survive, text' = text, asked' = asked
    PROVE  Later'
<1>0. TypeOK /\ Later
  BY DEF OutboxInv
<1>1. PICK n \in Nat : \E at \in [1..n -> DOMAIN queue] :
        /\ DOMAIN queue' = 1..n
        /\ \A k \in 1..n : queue'[k] = queue[at[k]] /\ at[k] \in DOMAIN queue
        /\ \A j, k \in 1..n : j < k <=> at[j] < at[k]
  BY SMTT(30), <1>0, Survived
<1>2. PICK at \in [1..n -> DOMAIN queue] :
        /\ DOMAIN queue' = 1..n
        /\ \A k \in 1..n : queue'[k] = queue[at[k]] /\ at[k] \in DOMAIN queue
        /\ \A j, k \in 1..n : j < k <=> at[j] < at[k]
  BY <1>1
<1> QED
  BY <1>0, <1>2 DEF Later

LEMMA NextLater ==
    ASSUME OutboxInv, Moves
    PROVE  Later'
<1> USE DEF disk, memory, seen
<1>0. TypeOK /\ JobKnown /\ Later
  BY DEF OutboxInv
<1>a. ASSUME UNCHANGED <<queue, text, asked>> PROVE Later'
  BY <1>0, <1>a DEF Later
<1>1. ASSUME NEW m \in Messages, NEW t \in Persistent \cup Transient, Asks(m, t) PROVE Later'
  <2> DEFINE c == [type |-> t, msg |-> m, draft |-> Edited(m, t)]
  <2>1. c \in Command /\ queue' = Append(queue, c)
    BY <1>1, Asked
  <2>2. text' = text /\ asked' = asked + 1 /\ (t # "create" => folder[m] # "none")
    BY <1>1 DEF Asks
  <2>3. t = "save" => Edited(m, t).text = asked + 1
    <3> SUFFICES ASSUME t = "save" PROVE Edited(m, t).text = asked + 1
      OBVIOUS
    <3>1. wanted[m] \in Content
      BY <1>0, <2>2 DEF OutboxInv, Known, TypeOK
    <3>2. Edited(m, t) = [wanted[m] EXCEPT !.text = asked + 1]
      BY DEF Edited
    <3> QED
      BY <3>1, <3>2 DEF Content
  <2>4. c.type = "save" => c.msg \in Messages /\ c.draft.text = asked + 1
    BY <2>3
  <2> HIDE DEF c
  <2> QED
    BY <2>1, <2>2, <2>4, LaterGrows
<1>2. ASSUME AsksPause PROVE Later'
  <2> DEFINE c == [type |-> "setPaused", msg |-> None, draft |-> NoContent]
  <2>1. c \in Command /\ queue' = Append(queue, c) /\ c.type # "save"
    BY <1>2, PauseAsked
  <2>2. text' = text /\ asked' = asked + 1
    BY <1>2 DEF AsksPause
  <2> HIDE DEF c
  <2> QED
    BY <2>1, <2>2, LaterGrows
<1>3. ASSUME NEW m \in Messages, PlanCreate(m) \/ PlanDetach(m) \/ PlanDelete(m) \/ PlanSend(m) \/ PlanAbort(m)
      PROVE  Later'
  <2>1. queue # << >> /\ Planned /\ text' = text /\ asked' = asked
    BY <1>3 DEF PlanCreate, PlanDetach, PlanDelete, PlanSend, PlanAbort, Planning, Moot
  <2> QED
    BY <2>1, LaterShrinks
<1>4. ASSUME NEW m \in Messages, PlanSave(m) PROVE Later'
  <2>1. /\ queue # << >> /\ Planned /\ asked' = asked /\ Head(queue).type = "save" /\ Head(queue).msg = m
        /\ (text' = text \/ text' = [text EXCEPT ![m] = Head(queue).draft.text])
    BY <1>4 DEF PlanSave, Planning, Moot
  <2> QED
    BY <2>1, LaterShrinks
<1>5. ASSUME NEW m \in Messages, PlanAttach(m) PROVE Later'
  <2>1. CASE folder[m] = "none"
    BY <1>5, <2>1, LaterShrinks DEF PlanAttach, Planning, Moot
  <2>2. CASE folder[m] # "none"
    BY <1>a, <1>5, <2>2 DEF PlanAttach
  <2> QED
    BY <2>1, <2>2
<1>6. ASSUME AttachEnds PROVE Later'
  <2>1. queue # << >> /\ Planned /\ text' = text /\ asked' = asked
    BY <1>0, <1>6, JobFacts DEF AttachEnds
  <2> QED
    BY <2>1, LaterShrinks
<1>7. ASSUME PlanSetPaused PROVE Later'
  BY <1>7, LaterShrinks DEF PlanSetPaused, Planning
<1>8. ASSUME NEW m \in Messages, Execute(m) \/ ExecuteStale(m) \/ ExecuteThrows(m) PROVE Later'
  BY <1>a, <1>8 DEF Execute, ExecuteStale, ExecuteThrows
<1>9. ASSUME ServerAccepts \/ SendSucceeds \/ SendFails \/ ConnectionCloses \/ Restart PROVE Later'
  BY <1>a, <1>9 DEF ServerAccepts, SendSucceeds, SendFails, ConnectionCloses, Restart
<1>10. ASSUME Crash PROVE Later'
  BY <1>10, LaterSurvives DEF Crash
<1> QED
  BY <1>1, <1>2, <1>3, <1>4, <1>5, <1>6, <1>7, <1>8, <1>9, <1>10 DEF Moves, User, Plan, Executes, Server

\* One message changes, and the cache may know it.
LEMMA CacheStays ==
    ASSUME OutboxInv, NEW m \in Messages,
           \A n \in Messages : n # m =>
               /\ folder'[n] = folder[n] /\ text'[n] = text[n] /\ files'[n] = files[n]
               /\ toSend'[n] = toSend[n] /\ cache'[n] \in {cache[n], Absent},
           toSend'[m] # None => toSend'[m].date <= text'[m],
           cache'[m] \in Content => folder'[m] # "none" /\ Current(m, cache[m])'
    PROVE  CacheKnown'
<1>1. ASSUME NEW n \in Messages, n # m
      PROVE  /\ toSend'[n] # None => toSend'[n].date <= text'[n]
             /\ cache'[n] \in Content => folder'[n] # "none" /\ Current(n, cache[n])'
  <2>1. /\ toSend[n] # None => toSend[n].date <= text[n]
        /\ cache[n] \in Content => folder[n] # "none" /\ Current(n, cache[n])
    BY DEF OutboxInv, CacheKnown
  <2>2. /\ folder'[n] = folder[n] /\ text'[n] = text[n] /\ files'[n] = files[n] /\ toSend'[n] = toSend[n]
        /\ cache'[n] \in {cache[n], Absent}
    BY <1>1
  <2>3. ASSUME cache'[n] \in Content PROVE folder'[n] # "none" /\ Current(n, cache[n])'
    <3>1. cache'[n] = cache[n]
      BY <2>2, <2>3, NoneApart
    <3> QED
      BY <2>1, <2>2, <2>3, <3>1 DEF Current, OnDisk
  <2> QED
    BY <2>1, <2>2, <2>3
<1> QED
  BY <1>1 DEF CacheKnown

\* A write without another date.
LEMMA CacheWritten ==
    ASSUME OutboxInv, NEW m \in Messages, NEW c \in Content \cup {None, Absent}, Caches(m, c),
           \A n \in Messages : n # m =>
               folder'[n] = folder[n] /\ files'[n] = files[n] /\ toSend'[n] = toSend[n],
           text' = text, toSend'[m] # None => toSend'[m].date <= text[m],
           c \in Content => folder'[m] # "none" /\ c = [text |-> text[m], files |-> files'[m]]
    PROVE  CacheKnown'
<1>1. cache'[m] = c /\ \A n \in Messages : n # m => cache'[n] = cache[n]
  BY DEF Caches, OutboxInv, TypeOK
<1>2. ASSUME c \in Content PROVE Current(m, cache[m])'
  <2>1. text[m] \in Nat /\ cache'[m].text = text'[m] /\ cache'[m] = OnDisk(m)'
    <3>1. text[m] \in Nat
      BY FoundCurrent
    <3>2. cache'[m] = [text |-> text'[m], files |-> files'[m]]
      BY <1>1, <1>2
    <3> QED
      BY <3>1, <3>2 DEF OnDisk
  <2> QED
    BY <2>1 DEF Current
<1> QED
  BY <1>1, <1>2, CacheStays

LEMMA NextCached ==
    ASSUME OutboxInv, Moves
    PROVE  CacheKnown'
<1> USE DEF disk, memory, seen
<1>0. TypeOK /\ JobKnown /\ CacheKnown
  BY DEF OutboxInv
<1>t. \A m \in Messages : toSend[m] # None => toSend[m].date <= text[m]
  BY <1>0 DEF CacheKnown
<1>a. ASSUME UNCHANGED <<cache, folder, text, files, toSend>> PROVE CacheKnown'
  BY <1>0, <1>a DEF CacheKnown, Current, OnDisk
<1>b. ASSUME NEW m \in Messages, NEW c \in Content \cup {None, Absent}, Caches(m, c),
             UNCHANGED <<folder, text, files, toSend>>,
             c \in Content => folder[m] # "none" /\ Current(m, c)
      PROVE  CacheKnown'
  <2>1. cache'[m] = c /\ \A n \in Messages : n # m => cache'[n] = cache[n]
    BY <1>0, <1>b DEF Caches, TypeOK
  <2>2. c \in Content => Current(m, cache[m])'
    BY <1>b, <2>1 DEF Current, OnDisk
  <2> QED
    BY <1>b, <1>t, <2>1, <2>2, CacheStays
<1>1. ASSUME User PROVE CacheKnown'
  BY <1>a, <1>1 DEF User, Asks, AsksPause
<1>2. ASSUME NEW m \in Messages, PlanCreate(m) PROVE CacheKnown'
  <2>1. /\ Caches(m, OnDisk(m)) /\ folder' = [folder EXCEPT ![m] = "drafts"]
        /\ UNCHANGED <<text, files, toSend>>
    BY <1>2 DEF PlanCreate
  <2>2. /\ folder'[m] = "drafts" /\ \A n \in Messages : n # m => folder'[n] = folder[n]
        /\ OnDisk(m) = [text |-> text[m], files |-> files'[m]]
    BY <1>0, <2>1 DEF TypeOK, OnDisk
  <2> QED
    BY <1>t, <2>1, <2>2, CacheWritten, FoundCurrent
<1>3. ASSUME NEW m \in Messages, PlanSave(m) PROVE CacheKnown'
  <2>1. CASE folder[m] = "none"
    BY <1>a, <1>3, <2>1 DEF PlanSave, Moot
  <2>2. CASE folder[m] # "none"
    <3> DEFINE d == Head(queue).draft.text
    <3>1. /\ text' = [text EXCEPT ![m] = d] /\ UNCHANGED <<folder, files, toSend>>
          /\ CachesRedated(m, [OnDisk(m) EXCEPT !.text = d])
          /\ queue # << >> /\ Head(queue).type = "save" /\ Head(queue).msg = m
      BY <1>3, <2>2 DEF PlanSave, Planning
    <3>2. text[m] < d /\ d \in Nat /\ text[m] \in Nat
      <4>1. 1 \in DOMAIN queue /\ Head(queue) = queue[1] /\ queue[1] \in Command
        BY <1>0, <3>1, QueueFacts
      <4>2. text[m] < d
        BY <3>1, <4>1 DEF OutboxInv, Later
      <4>3. d \in Nat
        BY <4>1, NoneApart DEF Command, Content
      <4> QED
        BY <4>2, <4>3, FoundCurrent
    <3> HIDE DEF d
    <3>3. /\ text'[m] = d /\ \A n \in Messages : n # m => text'[n] = text[n]
      BY <1>0, <3>1 DEF TypeOK
    <3>4. toSend'[m] # None => toSend'[m].date <= text'[m] /\ toSend'[m].date \in Nat
      BY <1>0, <1>t, <3>1, <3>2, <3>3, NoneApart DEF TypeOK, Order
    <3>5. CASE cache[m] = Absent
      <4>1. /\ cache'[m] = [OnDisk(m) EXCEPT !.text = d]
            /\ \A n \in Messages : n # m => cache'[n] = cache[n]
        BY <1>0, <3>1, <3>5 DEF CachesRedated, Caches, TypeOK
      <4>2. [OnDisk(m) EXCEPT !.text = d] = [text |-> d, files |-> files[m]]
        BY DEF OnDisk
      <4>3. cache'[m] = OnDisk(m)' /\ cache'[m].text = text'[m]
        BY <3>1, <3>3, <4>1, <4>2 DEF OnDisk
      <4>4. Current(m, cache[m])'
        BY <3>2, <3>3, <3>4, <4>3 DEF Current
      <4> QED
        BY <2>2, <3>1, <3>3, <3>4, <4>1, <4>4, CacheStays
    <3>6. CASE cache[m] # Absent
      <4>1. cache' = cache
        BY <3>1, <3>6 DEF CachesRedated
      <4>2. ASSUME cache[m] \in Content PROVE Current(m, cache[m])'
        <5>1. Current(m, cache[m]) /\ cache[m].text \in Nat
          BY <1>0, <4>2, NoneApart DEF CacheKnown, Content
        <5>2. cache'[m].text < text'[m]
          BY <3>2, <3>3, <4>1, <5>1 DEF Current
        <5> QED
          BY <3>1, <3>2, <3>3, <4>1, <5>1, <5>2 DEF Current
      <4> QED
        BY <2>2, <3>1, <3>3, <3>4, <4>1, <4>2, CacheStays
    <3> QED
      BY <3>5, <3>6
  <2> QED
    BY <2>1, <2>2
<1>4. ASSUME NEW m \in Messages, PlanDetach(m) PROVE CacheKnown'
  <2>1. CASE folder[m] # "none" /\ files[m] > 0
    <3> DEFINE c == [OnDisk(m) EXCEPT !.files = OnDisk(m).files - 1]
    <3>1. /\ files' = [files EXCEPT ![m] = files[m] - 1] /\ UNCHANGED <<folder, text, toSend>>
          /\ Caches(m, c)
      BY <1>4, <2>1 DEF PlanDetach
    <3>2. c = [text |-> text[m], files |-> files[m] - 1]
      BY DEF OnDisk
    <3>3. c \in Content
      <4>1. text[m] \in 0..MaxCommands /\ files[m] - 1 \in 0..MaxCommands
        BY SMTT(30), <1>0, <2>1, NoneApart DEF TypeOK
      <4> QED
        BY <3>2, <4>1 DEF Content
    <3> HIDE DEF c
    <3>4. files'[m] = files[m] - 1 /\ \A n \in Messages : n # m => files'[n] = files[n]
      BY <1>0, <3>1 DEF TypeOK
    <3> QED
      BY <1>t, <2>1, <3>1, <3>2, <3>3, <3>4, CacheWritten
  <2>2. CASE ~(folder[m] # "none" /\ files[m] > 0)
    <3>1. Caches(m, Looked(m)) /\ UNCHANGED <<folder, text, files, toSend>>
      BY <1>4, <2>2 DEF PlanDetach, Looks, Caches
    <3> QED
      BY <1>b, <3>1, FoundCurrent
  <2> QED
    BY <2>1, <2>2
<1>5. ASSUME NEW m \in Messages, PlanDelete(m) PROVE CacheKnown'
  <2>1. CASE folder[m] = "none"
    BY <1>a, <1>5, <2>1 DEF PlanDelete, Moot
  <2>2. CASE folder[m] # "none"
    <3>1. /\ Caches(m, Absent) /\ UNCHANGED <<text, files, toSend>>
          /\ \A n \in Messages : n # m => folder'[n] = folder[n]
      BY <1>0, <1>5, <2>2 DEF PlanDelete, TypeOK
    <3> QED
      BY <1>t, <3>1, CacheWritten, NoneApart
  <2> QED
    BY <2>1, <2>2
<1>6. ASSUME NEW m \in Messages, PlanAttach(m) PROVE CacheKnown'
  <2>1. CASE folder[m] = "none"
    BY <1>a, <1>6, <2>1 DEF PlanAttach, Moot
  <2>2. CASE folder[m] # "none"
    <3>1. Caches(m, OnDisk(m)) /\ UNCHANGED <<folder, text, files, toSend>>
      BY <1>6, <2>2 DEF PlanAttach
    <3> QED
      BY <1>b, <2>2, <3>1, FoundCurrent
  <2> QED
    BY <2>1, <2>2
<1>7. ASSUME AttachEnds PROVE CacheKnown'
  <2> DEFINE h == job.msg
             c == [OnDisk(h) EXCEPT !.files = OnDisk(h).files + 1]
  <2>1. /\ h \in Messages /\ files' = [files EXCEPT ![h] = files[h] + 1] /\ UNCHANGED <<folder, text, toSend>>
        /\ Caches(h, c) /\ folder[h] # "none"
    BY <1>0, <1>7, JobFacts DEF AttachEnds
  <2>2. c = [text |-> text[h], files |-> files[h] + 1]
    BY DEF OnDisk
  <2> HIDE DEF c, h
  <2>3. files'[h] = files[h] + 1 /\ \A n \in Messages : n # h => files'[n] = files[n]
    BY <1>0, <2>1 DEF TypeOK
  <2>4. c \in Content
    <3>1. cache' \in [Messages -> Content \cup {None, Absent}] /\ cache'[h] = c
      BY <1>0, <2>1, CacheTyped DEF Caches, TypeOK
    <3>2. cache'[h] \in Content \cup {None, Absent}
      BY <2>1, <3>1
    <3>3. TypeOK'
      BY NextTyped
    <3>4. files'[h] \in 0..MaxCommands /\ text[h] \in 0..MaxCommands
      BY <1>0, <2>1, <3>3 DEF TypeOK
    <3> QED
      BY <2>2, <2>3, <3>4 DEF Content
  <2>5. folder[h] # "none"
    BY <2>1
  <2> QED
    BY <1>t, <2>1, <2>2, <2>3, <2>4, <2>5, CacheWritten
<1>8. ASSUME NEW m \in Messages, PlanSend(m) PROVE CacheKnown'
  <2>1. CASE folder[m] = "none"
    BY <1>a, <1>8, <2>1 DEF PlanSend, Moot
  <2>2. CASE folder[m] # "none"
    <3>1. /\ Caches(m, OnDisk(m)) /\ UNCHANGED <<text, files>> /\ folder' = [folder EXCEPT ![m] = "outbox"]
          /\ toSend' = [toSend EXCEPT ![m] = [order |-> counter, date |-> text[m]]]
      BY <1>8, <2>2 DEF PlanSend
    <3>2. /\ folder'[m] = "outbox" /\ toSend'[m] = [order |-> counter, date |-> text[m]]
          /\ \A n \in Messages : n # m => folder'[n] = folder[n] /\ toSend'[n] = toSend[n]
      BY <1>0, <3>1 DEF TypeOK
    <3>3. toSend'[m].date <= text[m] /\ OnDisk(m) = [text |-> text[m], files |-> files'[m]]
      BY <3>1, <3>2, FoundCurrent DEF OnDisk
    <3> QED
      BY <3>1, <3>2, <3>3, CacheWritten, FoundCurrent
  <2> QED
    BY <2>1, <2>2
<1>9. ASSUME NEW m \in Messages, PlanAbort(m) PROVE CacheKnown'
  <2>1. CASE Abortable(m)
    <3>1. /\ Caches(m, OnDisk(m)) /\ UNCHANGED <<text, files>> /\ folder' = [folder EXCEPT ![m] = "drafts"]
          /\ toSend' = [toSend EXCEPT ![m] = None]
      BY <1>9, <2>1 DEF PlanAbort
    <3>2. /\ folder'[m] = "drafts" /\ toSend'[m] = None
          /\ \A n \in Messages : n # m => folder'[n] = folder[n] /\ toSend'[n] = toSend[n]
          /\ OnDisk(m) = [text |-> text[m], files |-> files'[m]]
      BY <1>0, <3>1 DEF TypeOK, OnDisk
    <3> QED
      BY <3>1, <3>2, CacheWritten, FoundCurrent
  <2>2. CASE ~Abortable(m)
    BY <1>a, <1>9, <2>2 DEF PlanAbort, Moot
  <2> QED
    BY <2>1, <2>2
<1>10. ASSUME NEW m \in Messages, Execute(m) \/ ExecuteThrows(m) PROVE CacheKnown'
  <2>1. Caches(m, Found(m)) /\ UNCHANGED <<folder, text, files, toSend>>
    BY <1>10 DEF Execute, ExecuteThrows
  <2> QED
    BY <1>b, <2>1, FoundCurrent, NoneApart
<1>11. ASSUME NEW m \in Messages, ExecuteStale(m) PROVE CacheKnown'
  BY <1>a, <1>11 DEF ExecuteStale
<1>12. ASSUME SendSucceeds PROVE CacheKnown'
  <2> DEFINE h == job.msg
  <2>1. /\ h \in Messages /\ UNCHANGED <<text, files>> /\ toSend' = [toSend EXCEPT ![h] = None]
        /\ folder' = [folder EXCEPT ![h] = IF keeps = "local" THEN "sent" ELSE "none"]
        /\ Caches(h, IF keeps = "local" THEN OnDisk(h) ELSE Absent)
    BY <1>0, <1>12, JobFacts DEF SendSucceeds, SendEnds
  <2> HIDE DEF h
  <2>2. /\ toSend'[h] = None /\ (keeps = "local" => folder'[h] = "sent")
        /\ \A n \in Messages : n # h => folder'[n] = folder[n] /\ toSend'[n] = toSend[n]
        /\ OnDisk(h) = [text |-> text[h], files |-> files'[h]]
    BY <1>0, <2>1 DEF TypeOK, OnDisk
  <2>3. CASE keeps = "local"
    BY <2>1, <2>2, <2>3, CacheWritten, FoundCurrent
  <2>4. CASE keeps # "local"
    BY <2>1, <2>2, <2>4, CacheWritten, NoneApart
  <2> QED
    BY <2>3, <2>4
<1>13. ASSUME SendFails PROVE CacheKnown'
  <2> SUFFICES ASSUME NEW h \in Messages, h = job.msg PROVE CacheKnown'
    BY <1>0, <1>13, JobFacts DEF SendFails
  <2>1. /\ UNCHANGED <<text, files, folder>> /\ toSend' = [toSend EXCEPT ![h] = None]
        /\ Caches(h, Looked(h))
    BY <1>13 DEF SendFails, SendEnds, Looks, Caches
  <2>2. /\ toSend'[h] = None /\ cache'[h] = Looked(h)
        /\ \A n \in Messages : n # h => toSend'[n] = toSend[n] /\ cache'[n] = cache[n]
    BY <1>0, <2>1 DEF TypeOK, Caches
  <2>3. cache'[h] \in Content => folder'[h] # "none" /\ Current(h, cache[h])'
    <3>1. Looked(h) \in Content => folder[h] # "none" /\ Current(h, Looked(h))
      BY FoundCurrent
    <3> QED
      BY <2>1, <2>2, <3>1 DEF Current, OnDisk
  <2> QED
    BY <2>1, <2>2, <2>3, CacheStays
<1>14. ASSUME PlanSetPaused \/ ServerAccepts \/ ConnectionCloses \/ Restart PROVE CacheKnown'
  BY <1>a, <1>14 DEF PlanSetPaused, ServerAccepts, ConnectionCloses, Restart
<1>15. ASSUME Crash PROVE CacheKnown'
  <2>1. UNCHANGED <<folder, text, files, toSend>> /\ \A m \in Messages : cache'[m] = Absent
    BY <1>15 DEF Crash
  <2> QED
    BY <1>t, <2>1, NoneApart DEF CacheKnown
<1> QED
  BY <1>1, <1>2, <1>3, <1>4, <1>5, <1>6, <1>7, <1>8, <1>9, <1>10, <1>11, <1>12, <1>13, <1>14, <1>15
  DEF Moves, Plan, Executes, Server

-----------------------------------------------------------------------------
(* The results. *)

LEMMA InitInv == Init => OutboxInv
<1> SUFFICES ASSUME Init PROVE OutboxInv
  OBVIOUS
<1> USE DEF Init
<1>0. DOMAIN queue = {} /\ Len(queue) = 0 /\ queue \in Seq(Command)
  OBVIOUS
<1>1. TypeOK
  <2>1. delivered \in Seq([msg : Messages, carries : Content]) /\ NoJob.carries \in Content
    BY NoneApart DEF NoJob
  <2>2. wanted \in [Messages -> Content \cup {None}]
    BY NoneApart
  <2>3. job \in [type : {"none", "attach", "send"}, msg : Messages \cup {None},
                stage : {"none", "writing", "sending", "accepted", "hung"}, carries : Content]
    BY NoneApart DEF NoJob
  <2>4. /\ folder \in [Messages -> {"none", "drafts", "outbox", "sent"}]
        /\ text \in [Messages -> 0..MaxCommands] /\ files \in [Messages -> 0..MaxCommands]
        /\ appends \in [Messages -> 0..MaxCommands] /\ sends \in [Messages -> 0..MaxCommands]
        /\ interrupted \in [Messages -> 0..MaxFaults] /\ counter \in 0..MaxCommands
        /\ asked \in 0..MaxCommands /\ faults \in 0..MaxFaults
    BY NoneApart
  <2> QED
    BY <1>0, <2>1, <2>2, <2>3, <2>4 DEF TypeOK
<1>2. Counted
  BY <1>0, NoneApart DEF Counted, NoContent
<1>3. \A m : Of(m) = {}
  BY <1>0 DEF Of
<1>4. \A m \in Messages : OnDisk(m) = NoContent
  BY DEF OnDisk, NoContent
<1>5. Known
  BY <1>0, <1>3, <1>4, NoneApart DEF Known
<1>6. JobKnown /\ Accounted /\ Driven /\ OrdersApart
  BY DEF JobKnown, Accounted, Driven, OrdersApart, Tracked
<1>7. InOrder
  BY DEF InOrder, NoJob
<1>8. Balance
  <2>1. \A m \in Messages : Times(m, delivered) = 0
    <3>1. \A m : {i \in DOMAIN delivered : delivered[i].msg = m} = {}
      OBVIOUS
    <3> QED
      BY <3>1, FS_EmptySet DEF Times
  <2>2. \A m \in Messages : Owed(m) = 0 /\ Noting(m) = 0
    BY DEF Owed, Noting, NoJob
  <2> QED
    BY <2>1, <2>2 DEF Balance
<1>9. Chained
  <2> SUFFICES ASSUME NEW m \in Messages, Made(m) PROVE AddsUp(m)
    BY DEF Chained
  <2>1. wanted[m] = NoContent
    BY <1>3 DEF Made
  <2> QED
    BY <1>3, <1>4, <2>1 DEF AddsUp
<1>10. Later /\ CacheKnown
  BY <1>0, NoneApart DEF Later, CacheKnown
<1> QED
  BY <1>1, <1>2, <1>5, <1>6, <1>7, <1>8, <1>9, <1>10 DEF OutboxInv

LEMMA NextInv == OutboxInv /\ [Next]_vars => OutboxInv'
<1>1. ASSUME OutboxInv, Moves PROVE OutboxInv'
  <2>1. TypeOK'
    BY <1>1, NextTyped
  <2>2. Counted' /\ Known' /\ JobKnown' /\ Track' /\ Balance' /\ Chained' /\ Later' /\ CacheKnown'
    BY <1>1, <2>1, NextCounted, NextKnown, NextJob, NextTracked, NextBalance, NextChained,
       NextLater, NextCached
  <2> QED
    BY <2>1, <2>2 DEF OutboxInv, Track
<1>2. Next => Moves \/ Caching
  BY DEF Next, Moves
<1> QED
  BY <1>1, <1>2, CachingSteps, Stutters

LEMMA Inductive == Spec => []OutboxInv
BY InitInv, NextInv, PTL DEF Spec

\* messageIdsToSend is the outbox, each of its entries has its marker, is being
\* sent or threw, the first asked is the first sent, what is on disk and what is
\* queued add up to what the user did, and what a send carries is the draft on
\* disk, or what that was after the send was planned (mix_outbox_send, maildb).
THEOREM OutboxInStepHolds == Spec => []OutboxInStep
<1>1. OutboxInv => OutboxInStep
  <2> SUFFICES ASSUME OutboxInv PROVE AsCommanded /\ CarriesTheDraft
    BY DEF OutboxInv, OutboxInStep
  <2>1. AsCommanded
    BY DEF OutboxInv, Chained, Made, AsCommanded
  <2>2. ASSUME job.type = "send" PROVE Carries(job.msg, job.carries)
    <3>1. /\ job.msg \in Messages /\ toSend[job.msg] # None /\ job.carries \in Content
          /\ Current(job.msg, job.carries)
      BY <2>2, JobFacts DEF OutboxInv
    <3>2. /\ toSend[job.msg].date \in Nat /\ text[job.msg] \in Nat /\ job.carries.text \in Nat
      BY <3>1, NoneApart DEF OutboxInv, TypeOK, Order, Content
    <3> QED
      BY <3>1, <3>2 DEF Current, Carries
  <2> QED
    BY <2>1, <2>2 DEF CarriesTheDraft
<1> QED
  BY <1>1, Inductive, PTL

\* No message goes out more often than it was sent, but for the deliveries that
\* the process did not live to note; and each delivery noted is appended once.
THEOREM SentOnceHolds == Spec => []SentOnce
<1>1. OutboxInv => SentOnce
  <2> SUFFICES ASSUME OutboxInv, NEW m \in Messages
               PROVE  /\ Times(m, delivered) <= sends[m] + interrupted[m]
                      /\ keeps = "append" => appends[m] + interrupted[m] + Noting(m) = Times(m, delivered)
    BY DEF SentOnce
  <2>1. [msg |-> m, carries |-> NoContent] \in [msg : Messages, carries : Content]
    BY NoneApart
  <2>2. Times(m, delivered) \in Nat /\ sends[m] \in Nat /\ interrupted[m] \in Nat
    <3>1. /\ delivered \in Seq([msg : Messages, carries : Content])
          /\ sends[m] \in Nat /\ interrupted[m] \in Nat
      BY NoneApart DEF OutboxInv, TypeOK
    <3> QED
      BY <2>1, <3>1, TimesAppend
  <2>3. Owed(m) \in {0, 1} /\ Times(m, delivered) + Owed(m) <= sends[m] + interrupted[m]
    BY DEF OutboxInv, Balance, Owed
  <2> QED
    BY <2>2, <2>3 DEF OutboxInv, Balance
<1> QED
  BY <1>1, Inductive, PTL

\* A message that is back in the drafts does not go out.
THEOREM DraftsStayHomeHolds == Spec => DraftsStayHome
<1>1. OutboxInv /\ [Next]_vars =>
        [\A m \in Messages : folder[m] = "drafts" => Times(m, delivered') = Times(m, delivered)]_vars
  <2> SUFFICES ASSUME OutboxInv, Next, NEW m \in Messages, folder[m] = "drafts"
               PROVE  Times(m, delivered') = Times(m, delivered)
    OBVIOUS
  <2>1. CASE ServerAccepts
    <3>1. TypeOK /\ JobKnown
      BY DEF OutboxInv
    <3>2. job.msg \in Messages /\ folder[job.msg] = "outbox" /\ job.carries \in Content
      BY <2>1, <3>1, JobFacts DEF ServerAccepts
    <3>3. [msg |-> job.msg, carries |-> job.carries] \in [msg : Messages, carries : Content]
      BY <3>2
    <3>4. delivered \in Seq([msg : Messages, carries : Content])
          /\ delivered' = Append(delivered, [msg |-> job.msg, carries |-> job.carries])
      BY <2>1, <3>1 DEF ServerAccepts, TypeOK
    <3>5. Times(m, delivered') = Times(m, delivered) + 0 /\ Times(m, delivered) \in Nat
      BY <3>2, <3>3, <3>4, TimesAppend
    <3> QED
      BY <3>5
  <2>2. CASE ~ServerAccepts
    <3>1. delivered' = delivered
      BY <2>2 DEF Next, Caching, EmptyCache, Reads, User, Asks, AsksPause, Plan, PlanCreate, PlanSave, PlanDetach, PlanDelete,
         PlanAttach, PlanSend, PlanAbort, AttachEnds, PlanSetPaused, Executes, Execute, ExecuteStale,
         ExecuteThrows, Server, SendSucceeds, SendFails, ConnectionCloses, Crash, Restart
    <3> QED
      BY <3>1
  <2> QED
    BY <2>1, <2>2
<1> QED
  BY <1>1, Inductive, PTL DEF Spec, DraftsStayHome

=============================================================================
