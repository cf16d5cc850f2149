------------------------------- MODULE H2Pool -------------------------------
(* HTTP/2 requests of one session to one endpoint, over the pool: the retry   *)
(* of bleeding/requests/lib/requests.ml, the handler h2_conpool_handler.ml,   *)
(* the clients it pools, and the parts of conpool.ml they reach.              *)
(*                                                                            *)
(* Conpool models the pool and H2Client the client, each on its own; here     *)
(* both are cut down to what one tells the other, so that a request that      *)
(* fails, clears the endpoint and tries again can be followed through both.   *)
(* Below the connection limit, and with the protocol hint already learned.    *)
(* A step runs to the next suspension point: a contended ep_mutex, the        *)
(* connect and handshake, a write, the wait for an answer.                    *)
EXTENDS Naturals, FiniteSets

CONSTANTS
    Requests,      \* request fibers
    NoOne,
    InitLimit,     \* max_concurrent_streams in the peer's first SETTINGS
    Limits,        \* values it may announce later
    Faults,        \* which of FaultKinds may happen
    MaxFaults,     \* bound: faults of the peer
    MaxCreated,    \* bound: connections ever opened
    MaxPools       \* bound: endpoint_pool records ever made

\* "reset": the connection breaks, and writes to it raise; "eof": the peer
\* ends it, and writes still go through.
FaultKinds == {"rst", "goaway", "eof", "reset", "settings", "connect", "cancel"}

ASSUME PoolAssumption ==
    /\ IsFiniteSet(Requests) /\ NoOne \notin Requests
    /\ InitLimit \in Nat \ {0} /\ Limits \subseteq Nat \ {0}
    /\ Faults \subseteq FaultKinds
    /\ MaxFaults \in Nat /\ MaxCreated \in Nat /\ MaxPools \in Nat

Conns == 1 .. MaxCreated       \* in order of creation
Pools == 1 .. MaxPools
None == 0

VARIABLES
    pc,          \* where each request stands
    attempt,     \* 1, or 2 for the retry
    answer,      \* first event of the request's stream: "none", "ok", "error"
    result,      \* of the attempt: "none", "ok", "error", or "raised"
    pool,        \* the endpoint_pool the request uses, or clears
    conn,        \* the connection of the attempt, or None
    disturbed,   \* history: a fault, or another request's clear, since it began
    table,       \* Hashtbl entry of the endpoint, or None
    made,        \* endpoint_pool records made
    owner,       \* ep_mutex
    poisoned,    \* ep_mutex: disabled by an exception
    connections, \* ep_pool.connections
    created,     \* connections opened
    users,       \* pc_active_users
    pcClosed,    \* pc_closed
    flow,        \* the socket: "open", "broken", or "closed"
    h2,          \* H2_connection.state: "open", "closing" (goaway_received), "closed"
    lost,        \* connection_error is set
    reader,      \* the reader fiber runs
    cached,      \* state.max_concurrent_streams
    peerLimit,   \* peer_settings.max_concurrent_streams
    faults       \* faults of the peer so far

requestVars == <<pc, attempt, answer, result, pool, conn, disturbed>>
poolVars == <<table, made, owner, poisoned, connections>>
connVars == <<created, users, pcClosed, flow>>
h2Vars == <<h2, lost, reader, cached, peerLimit>>
vars == <<requestVars, poolVars, connVars, h2Vars, faults>>

Init ==
    /\ pc = [r \in Requests |-> "idle"]
    /\ attempt = [r \in Requests |-> 1]
    /\ answer = [r \in Requests |-> "none"]
    /\ result = [r \in Requests |-> "none"]
    /\ pool = [r \in Requests |-> None]
    /\ conn = [r \in Requests |-> None]
    /\ disturbed = [r \in Requests |-> FALSE]
    /\ table = None /\ made = 0
    /\ owner = [p \in Pools |-> NoOne]
    /\ poisoned = [p \in Pools |-> FALSE]
    /\ connections = [p \in Pools |-> {}]
    /\ created = 0
    /\ users = [c \in Conns |-> 0]
    /\ pcClosed = [c \in Conns |-> FALSE]
    /\ flow = [c \in Conns |-> "closed"]
    /\ h2 = [c \in Conns |-> "open"]
    /\ lost = [c \in Conns |-> FALSE]
    /\ reader = [c \in Conns |-> FALSE]
    /\ cached = [c \in Conns |-> InitLimit]
    /\ peerLimit = [c \in Conns |-> InitLimit]
    /\ faults = 0

----------------------------------------------------------------------------
(* Helpers.                                                                   *)

Began(r) == pc[r] \notin {"idle", "done"}

\* The requests with a registered handler on c that can still look at it.
Waiting(c) == {r \in Requests : conn[r] = c /\ pc[r] \in {"write", "wait"}}

\* Mutant: the reader ends without telling the requests.
TellNobody(c) == UNCHANGED answer

\* Connection_error for every handler of c, behind what they got already.
TellHandlers(c) ==
    answer' = [r \in Requests |->
                  IF r \in Waiting(c) /\ answer[r] = "none" THEN "error"
                  ELSE answer[r]]

\* History: something happened to the requests in S.
Disturb(S) == disturbed' = [r \in Requests |-> disturbed[r] \/ r \in S]
InProgress == {r \in Requests : Began(r)}

\* check_health with is_healthy: a lost connection is as good as any, since
\* the end of the connection does not change H2_connection.state.
Healthy(c) == ~pcClosed[c] /\ h2[c] = "open"

\* The first of a list, which grows at its head.
Newest(S) == {c \in S : \A d \in S : d <= c}

Open(p) == {c \in connections[p] : ~pcClosed[c]}

\* find_available under access_mode = Shared max_concurrent_streams.
Available(p) == {c \in Open(p) : Healthy(c) /\ users[c] < cached[c]}

\* The unhealthy connections it meets first, marked closed and left open.
Passed(p) == {c \in Open(p) : ~Healthy(c) /\ \A d \in Available(p) : c > d}

----------------------------------------------------------------------------
(* One attempt: try_h2.                                                       *)

\* get_or_create_endpoint_pool, then the lock of acquire_connection, which
\* raises if the mutex is poisoned.
Lookup(r) ==
    LET p == IF table = None THEN made + 1 ELSE table IN
    /\ p <= MaxPools
    /\ table' = p
    /\ made' = IF table = None THEN p ELSE made
    /\ pool' = [pool EXCEPT ![r] = p]
    /\ IF poisoned[p]
       THEN /\ pc' = [pc EXCEPT ![r] = "done"]
            /\ result' = [result EXCEPT ![r] = "raised"]
       ELSE /\ pc' = [pc EXCEPT ![r] = "acquire"]
            /\ result' = [result EXCEPT ![r] = "none"]

Start(r) ==
    /\ pc[r] = "idle"
    /\ Lookup(r)
    /\ UNCHANGED <<attempt, answer, conn, disturbed, owner, poisoned,
                   connections, connVars, h2Vars, faults>>

\* acquire_connection finds a connection, and the request goes on at once:
\* its own health checks repeat those of the pool; connection_error is new.
AcquireReuse(r) ==
    LET p == pool[r] IN
    /\ pc[r] = "acquire" /\ owner[p] = NoOne /\ ~poisoned[p]
    /\ connections' = [connections EXCEPT ![p] = Open(p)]
    /\ pcClosed' = [d \in Conns |-> pcClosed[d] \/ d \in Passed(p)]
    /\ \E c \in Newest(Available(p)) :
          /\ users' = [users EXCEPT ![c] = @ + 1]
          /\ conn' = [conn EXCEPT ![r] = c]
          /\ IF lost[c]
             THEN /\ result' = [result EXCEPT ![r] = "error"]
                  /\ pc' = [pc EXCEPT ![r] = "release"]
             ELSE /\ pc' = [pc EXCEPT ![r] = "write"]
                  /\ UNCHANGED result
    /\ UNCHANGED <<attempt, answer, pool, disturbed, table, made,
                   owner, poisoned, created, flow, h2Vars, faults>>

\* Nothing available: create_connection, with the mutex held.
AcquireConnect(r) ==
    LET p == pool[r] IN
    /\ pc[r] = "acquire" /\ owner[p] = NoOne /\ ~poisoned[p]
    /\ Available(p) = {}
    /\ connections' = [connections EXCEPT ![p] = Open(p)]
    /\ pcClosed' = [d \in Conns |-> pcClosed[d] \/ d \in Passed(p)]
    /\ owner' = [owner EXCEPT ![p] = r]
    /\ pc' = [pc EXCEPT ![r] = "connect"]
    /\ UNCHANGED <<attempt, answer, result, pool, conn, disturbed,
                   table, made, poisoned, created, users, flow, h2Vars, faults>>

\* init_state has made the handshake; on_acquire starts the reader.
ConnectOk(r) ==
    LET p == pool[r] c == created + 1 IN
    /\ pc[r] = "connect" /\ c <= MaxCreated
    /\ created' = c
    /\ connections' = [connections EXCEPT ![p] = @ \cup {c}]
    /\ users' = [users EXCEPT ![c] = 1]
    /\ flow' = [flow EXCEPT ![c] = "open"]
    /\ reader' = [reader EXCEPT ![c] = TRUE]
    /\ owner' = [owner EXCEPT ![p] = NoOne]
    /\ conn' = [conn EXCEPT ![r] = c]
    /\ pc' = [pc EXCEPT ![r] = "write"]
    /\ UNCHANGED <<attempt, answer, result, pool, disturbed, table, made,
                   poisoned, pcClosed, h2, lost, cached, peerLimit, faults>>

\* The requests that wait for a mutex when it is poisoned; they all raise.
Queued(p) ==
    {r \in Requests : pool[r] = p /\ pc[r] \in {"acquire", "release", "clear"}}

\* use_rw poisons the mutex; the exception ends r, and those who wait for it.
PoisonBy(r, p) ==
    /\ poisoned' = [poisoned EXCEPT ![p] = TRUE]
    /\ owner' = [owner EXCEPT ![p] = NoOne]
    /\ pc' = [s \in Requests |->
                 IF s = r \/ s \in Queued(p) THEN "done" ELSE pc[s]]
    /\ result' = [s \in Requests |->
                     IF s = r \/ s \in Queued(p) THEN "raised" ELSE result[s]]

\* The connect or the handshake raises.
ConnectFails(r) ==
    /\ "connect" \in Faults /\ faults < MaxFaults
    /\ pc[r] = "connect"
    /\ PoisonBy(r, pool[r])
    /\ Disturb(InProgress)
    /\ faults' = faults + 1
    /\ UNCHANGED <<attempt, answer, pool, conn, table, made,
                   connections, connVars, h2Vars>>

\* HEADERS and body are written, or the write raises.
Write(r) ==
    LET c == conn[r] IN
    /\ pc[r] = "write"
    /\ IF flow[c] = "open"
       THEN /\ pc' = [pc EXCEPT ![r] = "wait"]
            /\ UNCHANGED <<answer, result>>
       ELSE /\ pc' = [pc EXCEPT ![r] = "release"]
            /\ result' = [result EXCEPT ![r] = "raised"]
            /\ answer' = [answer EXCEPT ![r] = "none"]
    /\ UNCHANGED <<attempt, pool, conn, disturbed, poolVars,
                   connVars, h2, lost, reader, cached, peerLimit,
                   faults>>

\* request returns.  After Ok the handler refreshes its copy of the limit; an
\* Error of any kind becomes H2_protocol_error.
Take(r) ==
    LET c == conn[r] IN
    /\ pc[r] = "wait" /\ answer[r] # "none"
    /\ result' = [result EXCEPT ![r] = answer[r]]
    /\ answer' = [answer EXCEPT ![r] = "none"]
    /\ cached' = IF answer[r] = "ok" THEN [cached EXCEPT ![c] = peerLimit[c]]
                                     ELSE cached
    /\ pc' = [pc EXCEPT ![r] = "release"]
    /\ UNCHANGED <<attempt, pool, conn, disturbed, poolVars, connVars,
                   h2, lost, reader, peerLimit, faults>>

\* A timeout of the session, or its owner, cancels the request: in the queue of
\* ep_mutex, which it leaves without a connection, or while it writes or waits
\* for the answer, when the stream is not reset.  The connect runs protected.
Cancel(r) ==
    /\ "cancel" \in Faults
    /\ \/ pc[r] \in {"write", "wait"}
       \/ pc[r] = "acquire" /\ owner[pool[r]] # NoOne
    /\ pc' = [pc EXCEPT ![r] = IF conn[r] = None THEN "done" ELSE "release"]
    /\ result' = [result EXCEPT ![r] = "raised"]
    /\ answer' = [answer EXCEPT ![r] = "none"]
    /\ Disturb({r})
    /\ UNCHANGED <<attempt, pool, conn, poolVars, connVars, h2Vars, faults>>

----------------------------------------------------------------------------
(* The end of an attempt.                                                     *)

\* Mutant: no second attempt.
AfterReleaseGiveUp(r) ==
    /\ pc' = [pc EXCEPT ![r] = "done"]
    /\ UNCHANGED <<pool, attempt, result, table, made>>

\* A first Error is a connection error: the endpoint in the table is cleared,
\* or there is none and try_h2 runs again.  Anything else is final.
AfterRelease(r) ==
    IF result[r] = "error" /\ attempt[r] = 1
    THEN IF table = None
         THEN Lookup(r) /\ attempt' = [attempt EXCEPT ![r] = 2]
         ELSE /\ pc' = [pc EXCEPT ![r] = "clear"]
              /\ pool' = [pool EXCEPT ![r] = table]
              /\ UNCHANGED <<attempt, result, table, made>>
    ELSE /\ pc' = [pc EXCEPT ![r] = "done"]
         /\ UNCHANGED <<pool, attempt, result, table, made>>

\* Mutant: the user is not counted off.
LeaveUncounted(c) == UNCHANGED users

\* decr pc_active_users.
Leave(c) == users' = [users EXCEPT ![c] = @ - 1]

\* release_connection; an unhealthy connection is marked closed before
\* close_connection could do anything.
Release(r) ==
    LET p == pool[r] c == conn[r] IN
    /\ pc[r] = "release" /\ owner[p] = NoOne /\ ~poisoned[p]
    /\ Leave(c)
    /\ conn' = [conn EXCEPT ![r] = None]
    /\ IF Healthy(c)
       THEN UNCHANGED <<pcClosed, connections>>
       ELSE /\ pcClosed' = [pcClosed EXCEPT ![c] = TRUE]
            /\ connections' = [connections EXCEPT ![p] = @ \ {c}]
    /\ AfterRelease(r)
    /\ UNCHANGED <<answer, disturbed, owner, poisoned, created, flow,
                   h2Vars, faults>>

\* The lock of release_connection, or of clear_endpoint, raises Poisoned.
LockPoisoned(r) ==
    /\ pc[r] \in {"release", "clear"} /\ poisoned[pool[r]]
    /\ pc' = [pc EXCEPT ![r] = "done"]
    /\ result' = [result EXCEPT ![r] = "raised"]
    /\ UNCHANGED <<attempt, answer, pool, conn, disturbed, poolVars,
                   connVars, h2Vars, faults>>

\* clear_endpoint locks the ep_mutex of the pool it has found.
ClearLock(r) ==
    /\ pc[r] = "clear" /\ owner[pool[r]] = NoOne /\ ~poisoned[pool[r]]
    /\ owner' = [owner EXCEPT ![pool[r]] = r]
    /\ pc' = [pc EXCEPT ![r] = "closing"]
    /\ UNCHANGED <<attempt, answer, result, pool, conn, disturbed,
                   table, made, poisoned, connections, connVars, h2Vars, faults>>

\* close_connection on the next connection: on_close writes a GOAWAY unless
\* one was received, and raises if the socket is broken.
ClearOne(r) ==
    LET p == pool[r] IN
    /\ pc[r] = "closing"
    /\ \E c \in Newest(Open(p)) :
          /\ pcClosed' = [pcClosed EXCEPT ![c] = TRUE]
          /\ Disturb(Waiting(c))
          /\ IF h2[c] = "open" /\ flow[c] = "broken"
             THEN PoisonBy(r, p) /\ UNCHANGED <<flow, h2>>
             ELSE /\ flow' = [flow EXCEPT ![c] = "closed"]
                  /\ h2' = [h2 EXCEPT ![c] = IF @ = "open" THEN "closed" ELSE @]
                  /\ UNCHANGED <<poisoned, owner, pc, result>>
    /\ UNCHANGED <<attempt, answer, pool, conn, table, made,
                   connections, created, users, lost, reader, cached, peerLimit, faults>>

\* The list is emptied, the mutex unlocked, and the entry removed, whichever
\* pool it holds by now; try_h2 runs again, up to its lock, without a pause.
ClearEnd(r) ==
    LET p == pool[r] IN
    /\ pc[r] = "closing" /\ Open(p) = {} /\ made < MaxPools
    /\ connections' = [connections EXCEPT ![p] = {}]
    /\ owner' = [owner EXCEPT ![p] = NoOne]
    /\ made' = made + 1
    /\ table' = made'
    /\ pool' = [pool EXCEPT ![r] = made']
    /\ attempt' = [attempt EXCEPT ![r] = 2]
    /\ result' = [result EXCEPT ![r] = "none"]
    /\ pc' = [pc EXCEPT ![r] = "acquire"]
    /\ UNCHANGED <<answer, conn, disturbed, poisoned, connVars,
                   h2Vars, faults>>

----------------------------------------------------------------------------
(* The reader and the peer.  What the peer sends takes effect when the reader *)
(* dispatches it.                                                             *)

\* close_connection has failed the connection's switch: the read raises
\* Cancelled, which read_frame takes for the end of the connection.
ReaderCancelled(c) ==
    /\ reader[c] /\ flow[c] = "closed"
    /\ reader' = [reader EXCEPT ![c] = FALSE]
    /\ lost' = [lost EXCEPT ![c] = TRUE]
    /\ TellHandlers(c)
    /\ UNCHANGED <<pc, attempt, result, pool, conn, disturbed,
                   poolVars, connVars, h2, cached, peerLimit,
                   faults>>

\* The response of r, complete.
PeerReplies(r) ==
    /\ pc[r] = "wait" /\ answer[r] = "none" /\ reader[conn[r]]
    /\ answer' = [answer EXCEPT ![r] = "ok"]
    /\ UNCHANGED <<pc, attempt, result, pool, conn, disturbed,
                   poolVars, connVars, h2, lost, reader, cached, peerLimit, faults>>

Fault(kind) ==
    /\ kind \in Faults /\ faults < MaxFaults
    /\ faults' = faults + 1

\* RST_STREAM for r.
PeerResets(r) ==
    /\ Fault("rst")
    /\ pc[r] = "wait" /\ answer[r] = "none" /\ reader[conn[r]]
    /\ answer' = [answer EXCEPT ![r] = "error"]
    /\ Disturb({r})
    /\ UNCHANGED <<pc, attempt, result, pool, conn, poolVars,
                   connVars, h2, lost, reader, cached, peerLimit>>

\* GOAWAY: every handler gets a Connection_error, and on_goaway is called.
PeerGoesAway(c) ==
    /\ Fault("goaway")
    /\ reader[c] /\ h2[c] = "open"
    /\ h2' = [h2 EXCEPT ![c] = "closing"]
    /\ TellHandlers(c)
    /\ Disturb(InProgress)
    /\ UNCHANGED <<pc, attempt, result, pool, conn, poolVars,
                   connVars, lost, reader, cached, peerLimit>>

\* The end of the connection, in order or not: read_frame returns None.
PeerEnds(c, kind) ==
    /\ Fault(kind)
    /\ reader[c] /\ flow[c] = "open"
    /\ flow' = IF kind = "reset" THEN [flow EXCEPT ![c] = "broken"] ELSE flow
    /\ reader' = [reader EXCEPT ![c] = FALSE]
    /\ lost' = [lost EXCEPT ![c] = TRUE]
    /\ TellHandlers(c)
    /\ Disturb(InProgress)
    /\ UNCHANGED <<pc, attempt, result, pool, conn, poolVars, created,
                   users, pcClosed, h2, cached, peerLimit>>

\* SETTINGS with another max_concurrent_streams.
PeerSets(c) ==
    /\ Fault("settings")
    /\ reader[c]
    /\ \E n \in Limits \ {peerLimit[c]} : peerLimit' = [peerLimit EXCEPT ![c] = n]
    /\ UNCHANGED <<requestVars, poolVars, connVars, h2, lost, reader, cached>>

----------------------------------------------------------------------------
\* The steps of a request, and those it waits for.
Step(r) ==
    \/ AcquireReuse(r) \/ AcquireConnect(r) \/ ConnectOk(r) \/ Write(r)
    \/ Take(r) \/ Release(r) \/ LockPoisoned(r) \/ ClearLock(r) \/ ClearOne(r)
    \/ ClearEnd(r) \/ PeerReplies(r)

Next ==
    \/ \E r \in Requests :
          \/ Start(r)
          \/ AcquireReuse(r) \/ AcquireConnect(r) \/ ConnectOk(r)
          \/ ConnectFails(r) \/ Write(r) \/ Take(r) \/ Cancel(r) \/ Release(r)
          \/ LockPoisoned(r) \/ ClearLock(r) \/ ClearOne(r) \/ ClearEnd(r)
          \/ PeerReplies(r) \/ PeerResets(r)
    \/ \E c \in Conns :
          \/ ReaderCancelled(c) \/ PeerGoesAway(c) \/ PeerSets(c)
          \/ \E kind \in {"eof", "reset"} : PeerEnds(c, kind)

Spec == Init /\ [][Next]_vars

\* Fibers run, the mutex is handed over in FIFO order, a connect ends, and the
\* peer answers while its connection lasts.
Fairness ==
    /\ \A r \in Requests : SF_vars(Step(r))
    /\ \A c \in Conns : WF_vars(ReaderCancelled(c))

FairSpec == Spec /\ Fairness

----------------------------------------------------------------------------
(* Properties.                                                                *)

Types ==
    /\ pc \in [Requests -> {"idle", "acquire", "connect", "write", "wait",
                            "release", "clear", "closing", "done"}]
    /\ attempt \in [Requests -> {1, 2}]
    /\ answer \in [Requests -> {"none", "ok", "error"}]
    /\ result \in [Requests -> {"none", "ok", "error", "raised"}]
    /\ pool \in [Requests -> Pools \cup {None}]
    /\ conn \in [Requests -> Conns \cup {None}]
    /\ disturbed \in [Requests -> BOOLEAN]
    /\ table \in Pools \cup {None} /\ made \in 0 .. MaxPools
    /\ owner \in [Pools -> Requests \cup {NoOne}]
    /\ poisoned \in [Pools -> BOOLEAN]
    /\ connections \in [Pools -> SUBSET Conns]
    /\ created \in 0 .. MaxCreated
    /\ users \in [Conns -> Nat]
    /\ pcClosed \in [Conns -> BOOLEAN]
    /\ flow \in [Conns -> {"open", "broken", "closed"}]
    /\ h2 \in [Conns -> {"open", "closing", "closed"}]
    /\ lost \in [Conns -> BOOLEAN] /\ reader \in [Conns -> BOOLEAN]
    /\ cached \in [Conns -> Nat] /\ peerLimit \in [Conns -> Nat]
    /\ faults \in 0 .. MaxFaults

Holders(c) == {r \in Requests : conn[r] = c}

UsersExact == \A c \in Conns : users[c] = Cardinality(Holders(c))

\* Type invariant, with pc_active_users exact: it counts the requests that have
\* the connection, those included whose release a poisoned mutex has refused.
TypeOK == Types /\ UsersExact

\* What happened to a pooled connection before a request began does not make
\* the request fail.  It fails only if it is cancelled, if the peer fails once
\* more while it runs, if another request clears its connection, or if an
\* exception has poisoned the endpoint.
Undisturbed(r) == pc[r] = "done" /\ ~disturbed[r]
StaleIsRetried ==
    \A r \in Requests :
        Undisturbed(r) /\ result[r] # "ok" => \E p \in Pools : poisoned[p]

\* Every request ends, whatever the peer and the other requests' clears do to
\* its connections.
EveryRequestEnds ==
    \A r \in Requests : Began(r) ~> pc[r] = "done"

----------------------------------------------------------------------------
(* What a comment promises, and the code does not keep.                       *)

\* requests.ml:555: "Stale/broken connection - clear endpoint and retry once".
\* A request that nothing disturbs while it runs succeeds, whatever connection
\* the pool had for it.
BrokenIsRetried ==
    \A r \in Requests : Undisturbed(r) => result[r] = "ok"
=============================================================================
