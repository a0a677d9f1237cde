-------------------------------- MODULE Conn --------------------------------
(***************************************************************************)
(* The connections of an IMAP account: the back-off endpoint               *)
(* (errbackoff.js), the pool of ImapAccount (accounts/imap/account.js) and *)
(* ParallelIMAP (protocol/parallel_imap.js), the one client of the pool:   *)
(* every task that talks to the server shares its one connection, and      *)
(* nobody ever gives a connection back, so the code that takes one back    *)
(* and closes the unused ones is not reached.  Nor is checkAccount: the    *)
(* bridge looks the account up with a method the universe lacks.  The      *)
(* whole state is one record, pool; a handler is an operator on it.        *)
(***************************************************************************)
EXTENDS Naturals, Sequences, FiniteSets, SequencesExt

CONSTANTS
    Callers,   \* tasks that talk to the server
    MaxConns,  \* _maxConnsAllowed
    Retries,   \* length of BACKOFF_DURATIONS
    None

ASSUME ConnAssumption ==
    /\ IsFiniteSet(Callers)
    /\ MaxConns \in Nat \ {0} /\ Retries \in Nat \ {0}
    /\ None \notin Nat /\ None # "pimap"

VARIABLES
    pool,      \* the endpoint, the pool and the client of one account
    callers    \* what each task is at

connVars == <<pool, callers>>

Conns == 1..MaxConns + 1
EndpointStates == {"healthy", "unreachable", "broken", "shutdown"}

ConnTypeOK ==
    /\ pool.state \in EndpointStates /\ pool.next \in 0..Retries
    /\ pool.pending \in BOOLEAN
    /\ pool.timers \in Nat /\ pool.opening \in Nat
    /\ pool.owned \in Seq([id : Conns, inUseBy : {"pimap", None}])
    /\ pool.closing \subseteq Conns
    /\ pool.demands \in Seq([dieOnConnectFailure : BOOLEAN])
    /\ pool.conn \in Conns \cup {None}
    /\ pool.promise \in {"none", "waiting", "resolved"}
    /\ callers \in [Callers -> {"idle", "acquiring", "holding", "waiting", "working"}]

\* Errors a connection attempt fails with, by what errorutils.js says of them.
Errors ==
    {[reachable |-> FALSE, retry |-> TRUE,  report |-> FALSE],  \* no network
     [reachable |-> TRUE,  retry |-> TRUE,  report |-> FALSE],  \* maintenance
     [reachable |-> TRUE,  retry |-> FALSE, report |-> TRUE],   \* credentials
     [reachable |-> TRUE,  retry |-> FALSE, report |-> FALSE],  \* server problem
     [reachable |-> FALSE, retry |-> FALSE, report |-> FALSE]}  \* unknown

-----------------------------------------------------------------------------
(* BackoffEndpoint. *)

NoteConnectSuccess(p) == [p EXCEPT !.state = "healthy", !.next = 0]

NoteBrokenConnection(p) == [p EXCEPT !.state = "broken", !.next = Retries]

\* The endpoint after noteConnectFailureMaybeRetry.
NoteConnectFailure(p, reachable) ==
    CASE p.state = "shutdown" -> p
      [] reachable /\ p.state # "shutdown" -> [p EXCEPT !.state = "broken"]
      [] OTHER -> [p EXCEPT !.state = IF p.next > 0 THEN "unreachable" ELSE @]

MayRetry(p, reachable) == p.state # "shutdown" /\ ~reachable /\ p.next < Retries

ScheduleConnectAttempt(p) ==
    CASE p.state = "shutdown" -> p
      [] p.state # "shutdown" /\ p.next >= Retries -> [p EXCEPT !.opening = @ + 1]
      [] OTHER -> [p EXCEPT !.next = @ + 1, !.timers = @ + 1]

-----------------------------------------------------------------------------
(* The pool of the account. *)

MakeConnectionIfPossible(p) ==
    IF Len(p.owned) >= MaxConns \/ p.pending THEN p
    ELSE ScheduleConnectAttempt([p EXCEPT !.pending = TRUE])

Free(p) == {i \in DOMAIN p.owned : p.owned[i].inUseBy = None}

\* The callback of ParallelIMAP's demand, called on the spot.
GotConnection(p, id) == [p EXCEPT !.conn = id, !.promise = "none"]

\* _allocateExistingConnection: the first demand gets the first free one.
Allocate(p) ==
    IF p.demands = << >> \/ Free(p) = {} THEN p
    ELSE LET i == CHOOSE k \in Free(p) : \A l \in Free(p) : k <= l
         IN GotConnection([p EXCEPT !.owned[i].inUseBy = "pimap",
                                    !.demands = Tail(@)], p.owned[i].id)

\* __folderDemandsConnection: no line-cutting, and an existing one first.
FolderDemandsConnection(p, demand) ==
    LET asked == [p EXCEPT !.demands = Append(@, demand)]
    IN CASE Len(asked.demands) > 1 -> asked
         [] Len(asked.demands) <= 1 /\ Free(p) # {} -> Allocate(asked)
         [] OTHER -> MakeConnectionIfPossible(asked)

\* Only those who asked to die with the attempt; ParallelIMAP did not.
KillDieOnConnectFailureDemands(p) ==
    IF \A i \in DOMAIN p.demands : ~p.demands[i].dieOnConnectFailure THEN p
    ELSE [p EXCEPT !.demands = SelectSeq(@, LAMBDA d : ~d.dieOnConnectFailure)]

NewConn(p) == CHOOSE id \in Conns : \A i \in DOMAIN p.owned : p.owned[i].id # id

\* _makeConnection succeeds.
Opened(p) ==
    LET up   == NoteConnectSuccess([p EXCEPT !.pending = FALSE, !.opening = @ - 1])
        more == Allocate([up EXCEPT !.owned =
                              Append(@, [id |-> NewConn(p), inUseBy |-> None])])
    IN IF more.demands = << >> THEN more ELSE MakeConnectionIfPossible(more)

\* Mutant of Refused: an error to retry after is not retried.
RefusedForGood(p, err) ==
    LET down == [p EXCEPT !.opening = @ - 1]
        done == [down EXCEPT !.pending = FALSE]
    IN CASE err.report -> down
         [] ~err.report /\ err.retry ->
                KillDieOnConnectFailureDemands(NoteConnectFailure(done, err.reachable))
         [] OTHER -> KillDieOnConnectFailureDemands(NoteBrokenConnection(done))

\* _makeConnection fails.  An error to report throws before anything else is
\* done: the universe has no __reportAccountProblem.
Refused(p, err) ==
    LET down == [p EXCEPT !.opening = @ - 1]
        done == [down EXCEPT !.pending = FALSE]
        noted == NoteConnectFailure(done, err.reachable)
    IN CASE err.report -> down
         [] ~err.report /\ err.retry ->
                IF MayRetry(noted, err.reachable)
                THEN MakeConnectionIfPossible(noted)
                ELSE KillDieOnConnectFailureDemands(noted)
         [] OTHER -> KillDieOnConnectFailureDemands(NoteBrokenConnection(done))

\* Mutant of Lost: nobody tells the client that its connection died.
LostUntold(p, i) == [p EXCEPT !.owned = RemoveAt(@, i), !.closing = @ \ {p.owned[i].id}]

\* onclose: the deathback of whoever uses it, then it leaves the pool.
Lost(p, i) ==
    LET told == IF p.owned[i].inUseBy = None THEN p
                ELSE [p EXCEPT !.conn = None, !.promise = "none"]
    IN [told EXCEPT !.owned = RemoveAt(@, i), !.closing = @ \ {p.owned[i].id}]

\* shutdown, without a callback.  The connections close later.
Shutdown(p) == [p EXCEPT !.state = "shutdown",
                         !.closing = {p.owned[i].id : i \in DOMAIN p.owned}]

\* ImapAccount, maybe with the connection the account was probed with.
NewPool(stash) ==
    [state |-> "healthy", next |-> 0, pending |-> FALSE, timers |-> 0,
     opening |-> 0, closing |-> {}, demands |-> << >>,
     owned |-> IF stash THEN <<[id |-> 1, inUseBy |-> None]>> ELSE << >>,
     conn |-> None, promise |-> "none"]

-----------------------------------------------------------------------------
(* ParallelIMAP, and what the tasks and the network do. *)

\* A demand that is met at once has cleared _connPromise before it is assigned.
GimmeConnection(p) ==
    IF p.conn # None \/ p.promise # "none" THEN p
    ELSE LET asked == FolderDemandsConnection(p, [dieOnConnectFailure |-> FALSE])
         IN [asked EXCEPT !.promise = IF asked.conn = None THEN "waiting" ELSE "resolved"]

\* A promise that is resolved serves whoever waits for it.
Served(p) == [c \in Callers |->
    IF callers[c] = "waiting" /\ p.conn # None THEN "working" ELSE callers[c]]

Ask(c) ==
    /\ callers[c] = "holding"
    /\ pool' = GimmeConnection(pool)
    /\ callers' = [callers EXCEPT ![c] = IF pool'.conn # None \/ pool'.promise = "resolved"
                                         THEN "working" ELSE "waiting"]

\* The command ends; the task may issue another, or be done.
CommandEnds(c) ==
    /\ callers[c] = "working"
    /\ \E then \in {"holding", "idle"} : callers' = [callers EXCEPT ![c] = then]
    /\ UNCHANGED pool

TimerFires ==
    /\ pool.timers > 0
    /\ pool' = [pool EXCEPT !.timers = @ - 1, !.opening = @ + 1, !.pending = TRUE]
    /\ UNCHANGED callers

AttemptSucceeds ==
    /\ pool.opening > 0
    /\ pool' = Opened(pool)
    /\ callers' = Served(pool')

AttemptFails ==
    /\ pool.opening > 0
    /\ \E err \in Errors : pool' = Refused(pool, err)
    /\ UNCHANGED callers

\* A connection closes: the server, the network, the idle timer or shutdown.
\* What its commands make of it is up to the IMAP library: they fail.
Closes(i) ==
    /\ pool' = Lost(pool, i)
    /\ callers' = [c \in Callers |->
           IF callers[c] = "working" /\ pool.conn = pool.owned[i].id
           THEN "idle" ELSE callers[c]]

ConnNext ==
    \/ \E c \in Callers : Ask(c) \/ CommandEnds(c)
    \/ TimerFires \/ AttemptSucceeds \/ AttemptFails
    \/ \E i \in DOMAIN pool.owned : Closes(i)

UnderWay == pool.timers + pool.opening

=============================================================================
