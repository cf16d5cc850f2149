------------------------------ MODULE Conpool ------------------------------
(* The connection pool of bleeding/conpool/lib/conpool.ml, seen by the        *)
(* fibers of one Eio domain that all talk to one endpoint.                    *)
(*                                                                            *)
(* Fibers are cooperative: code between two suspension points is one step.    *)
(* The suspension points of the pool are a contended Eio.Mutex.lock, the      *)
(* Condition.await_no_mutex of a fiber at the connection limit, and the       *)
(* connect inside create_connection.  stats_mutex and endpoints_mutex are     *)
(* never held across one of those, so they are never contended and are left   *)
(* out; ep_mutex is held across all of them and is modelled exactly:          *)
(* non-reentrant, FIFO hand-over, poisoned by an exception.                   *)
EXTENDS Naturals, Sequences, FiniteSets, SequencesExt

CONSTANTS
    Fibers,         \* client fibers
    MaxConns,       \* Config.max_connections_per_endpoint
    Capacity,       \* users per connection: Exclusive = 1, Shared n = n
    MaxUses,        \* Config.max_connection_uses, NoLimit for None
    NoLimit,
    NoFiber,
    Faults,         \* which of FaultKinds the environment may inject
    MaxOps,         \* bound: sessions and clears each fiber performs
    MaxCreated,     \* bound: sockets ever opened
    MaxPools        \* bound: endpoint_pool records ever made

StaleKinds == {"protocol", "lifetime", "idle"}
FaultKinds == StaleKinds \cup {"connect", "cancel", "clear", "shutdown"}

ASSUME ConfigAssumption ==
    /\ MaxConns \in Nat \ {0}
    /\ Capacity \in Nat \ {0}
    /\ NoLimit \notin Nat
    /\ MaxUses \in (Nat \ {0}) \cup {NoLimit}

ASSUME BoundAssumption ==
    /\ IsFiniteSet(Fibers)
    /\ NoFiber \notin Fibers
    /\ Faults \subseteq FaultKinds
    /\ MaxOps \in Nat /\ MaxCreated \in Nat /\ MaxPools \in Nat

\* Connections and endpoint pools are numbered in order of creation, so the
\* list ep_pool.connections, which only ever grows at its head, is a set read
\* newest first.
ConnIds == 1 .. MaxCreated
PoolIds == 1 .. MaxPools
None == 0

\* The head of the list, as a singleton; empty when S is.
Newest(S) == {c \in S : \A d \in S : d <= c}

VARIABLES
    pc,          \* where each fiber stands
    pool,        \* the endpoint_pool the fiber got from the table
    conn,        \* the connection the fiber uses, or awaits, or None
    ops,         \* sessions and clears started by the fiber
    table,       \* Hashtbl entry of the endpoint, or None
    made,        \* endpoint_pool records made so far
    holder,      \* ep_mutex: its owner or NoFiber
    queue,       \* ep_mutex: FIFO of waiting fibers
    poisoned,    \* ep_mutex: disabled by an exception in the critical section
    connections, \* ep_pool.connections
    stats,       \* ep_pool.stats
    created,     \* sockets opened so far
    users,       \* pc_active_users
    uses,        \* pc_use_count
    closed,      \* pc_closed
    flow,        \* TRUE while the socket is open
    stale,       \* reasons for which check_health would refuse it
    hooked,      \* TRUE once protocol.on_close has been called
    shut         \* the pool's switch has been released

fiberVars == <<pc, pool, conn, ops>>
mutexVars == <<holder, queue, poisoned>>
connVars  == <<users, uses, closed, flow, stale, hooked>>
vars == <<fiberVars, table, made, mutexVars, connections, stats, created,
          connVars, shut>>

ZeroStats == [active |-> 0, idle |-> 0, total_created |-> 0,
              total_reused |-> 0, total_closed |-> 0, errors |-> 0]

Init ==
    /\ pc = [f \in Fibers |-> "idle"]
    /\ pool = [f \in Fibers |-> None]
    /\ conn = [f \in Fibers |-> None]
    /\ ops = [f \in Fibers |-> 0]
    /\ table = None /\ made = 0
    /\ holder = [p \in PoolIds |-> NoFiber]
    /\ queue = [p \in PoolIds |-> << >>]
    /\ poisoned = [p \in PoolIds |-> FALSE]
    /\ connections = [p \in PoolIds |-> {}]
    /\ stats = [p \in PoolIds |-> ZeroStats]
    /\ created = 0
    /\ users = [c \in ConnIds |-> 0]
    /\ uses = [c \in ConnIds |-> 0]
    /\ closed = [c \in ConnIds |-> FALSE]
    /\ flow = [c \in ConnIds |-> FALSE]
    /\ stale = [c \in ConnIds |-> {}]
    /\ hooked = [c \in ConnIds |-> FALSE]
    /\ shut = FALSE

----------------------------------------------------------------------------
(* Eio.Mutex.                                                                 *)

\* lock: take a free mutex at once, or queue behind its holder.
Lock(f, p) ==
    /\ ~poisoned[p]
    /\ IF holder[p] = NoFiber
       THEN holder' = [holder EXCEPT ![p] = f] /\ UNCHANGED queue
       ELSE queue' = [queue EXCEPT ![p] = Append(@, f)] /\ UNCHANGED holder
    /\ UNCHANGED poisoned

\* Mutant: the waiters are not woken.
UnlockWithoutWake(p) ==
    /\ holder' = [holder EXCEPT ![p] = NoFiber]
    /\ UNCHANGED <<queue, poisoned>>

\* unlock: ownership passes to the first waiter, if there is one.
Unlock(p) ==
    /\ IF queue[p] = << >>
       THEN holder' = [holder EXCEPT ![p] = NoFiber] /\ UNCHANGED queue
       ELSE /\ holder' = [holder EXCEPT ![p] = Head(queue[p])]
            /\ queue' = [queue EXCEPT ![p] = Tail(@)]
    /\ UNCHANGED poisoned

\* poison: the mutex is disabled and every waiter gets the exception.
Poison(p) ==
    /\ poisoned' = [poisoned EXCEPT ![p] = TRUE]
    /\ holder' = [holder EXCEPT ![p] = NoFiber]
    /\ queue' = [queue EXCEPT ![p] = << >>]

----------------------------------------------------------------------------
(* Helpers.                                                                   *)

Dec(n) == IF n = 0 THEN 0 ELSE n - 1     \* max 0 (n - 1)

\* Mutant: one use too many.
UsedUpLate(c) == MaxUses # NoLimit /\ uses[c] > MaxUses

\* pc_use_count has reached max_connection_uses.
UsedUp(c) == MaxUses # NoLimit /\ uses[c] >= MaxUses

\* check_health: "ok", or the outcome for which the connection is closed.
\* The idle clock (pc_last_used) runs from the last acquisition, and counts
\* only while nobody uses the connection.
Health(c, nUsers) ==
    IF closed[c] THEN "lifecycle"
    ELSE IF "protocol" \in stale[c] THEN "error"
    ELSE IF \/ "lifetime" \in stale[c]
            \/ "idle" \in stale[c] /\ nUsers = 0
            \/ UsedUp(c)
         THEN "lifecycle" ELSE "ok"

\* Mutant: only pc_closed is looked at.
HealthyIfOpen(c) == ~closed[c]

Healthy(c) == Health(c, users[c]) = "ok"

\* The connections left by the List.filter that opens acquire_connection.
Open(p) == {c \in connections[p] : ~closed[c]}

\* Mutant: the access mode is not looked at.
AvailableToAll(p) == {c \in Open(p) : Healthy(c)}

\* The connections find_available may return: it takes the newest.
Available(p) == {c \in Open(p) : Healthy(c) /\ users[c] < Capacity}

\* The unhealthy connections find_available meets before it stops, which it
\* marks closed and does not close.
Passed(p) ==
    {c \in Open(p) : ~Healthy(c) /\ \A d \in Available(p) : c > d}

\* Mutants: the comparison is off by one, either way.
AtLimitEarly(p) == Cardinality(Open(p)) + 1 >= MaxConns
AtLimitLate(p) == Cardinality(Open(p)) > MaxConns

\* current_conns >= max_conns, current_conns counting the connections that
\* find_available has just marked closed.
AtLimit(p) == Cardinality(Open(p)) >= MaxConns

\* Sets pc_closed on a set of connections, and nothing else.
MarkClosed(S) == closed' = [c \in ConnIds |-> closed[c] \/ c \in S]

\* close_connection on each member of S: a no-op where pc_closed is set.
CloseAll(S) ==
    LET T == {c \in S : ~closed[c]} IN
    /\ MarkClosed(T)
    /\ hooked' = [c \in ConnIds |-> hooked[c] \/ c \in T]
    /\ flow' = [c \in ConnIds |-> flow[c] /\ c \notin T]

\* Mutant: the retired connection is really closed.
RetireClosing(c) == CloseAll({c})

\* release_connection on an unhealthy connection: pc_closed is set first, so
\* the close_connection that follows does nothing.
Retire(c) == MarkClosed({c}) /\ UNCHANGED <<flow, hooked>>

\* The updates of ep_pool.stats: a connection is created, reused, given back,
\* retired.
StatsCreated(s) == [s EXCEPT !.total_created = @ + 1, !.active = @ + 1]

\* Mutant: only a connection that was shared already is counted.
StatsReusedNotIdle(s, wasIdle) ==
    [s EXCEPT !.total_reused = @ + 1, !.active = IF wasIdle THEN @ ELSE @ + 1,
              !.idle = IF wasIdle THEN Dec(@) ELSE @]

StatsReused(s, wasIdle) ==
    [s EXCEPT !.total_reused = @ + 1, !.active = @ + 1,
              !.idle = IF wasIdle THEN Dec(@) ELSE @]

\* Mutant: a connection that becomes idle is not counted.
StatsReleasedNotIdle(s, becameIdle) == [s EXCEPT !.active = Dec(@)]

StatsReleased(s, becameIdle) ==
    [s EXCEPT !.active = Dec(@), !.idle = IF becameIdle THEN @ + 1 ELSE @]

\* Mutant: idle is decremented for every retired connection.
StatsRetiredAlways(s, nowIdle, health) ==
    [s EXCEPT !.total_closed = @ + 1, !.idle = @ - 1,
              !.errors = IF health = "error" THEN @ + 1 ELSE @]

StatsRetired(s, nowIdle, health) ==
    [s EXCEPT !.total_closed = @ + 1, !.idle = IF nowIdle THEN Dec(@) ELSE @,
              !.errors = IF health = "error" THEN @ + 1 ELSE @]

\* A connection is handed to f: the fiber leaves the critical section with it.
HandOver(f, c) ==
    /\ conn' = [conn EXCEPT ![f] = c]
    /\ pc' = [pc EXCEPT ![f] = "use"]
    /\ Unlock(pool[f])
    /\ UNCHANGED <<pool, ops>>

----------------------------------------------------------------------------
(* connection: look the endpoint up, then lock its ep_mutex.                  *)

\* get_or_create_endpoint_pool followed by the lock of acquire_connection.
StartAcquire(f) ==
    /\ pc[f] = "idle" /\ ops[f] < MaxOps /\ ~shut
    /\ table = None => made < MaxPools
    /\ LET p == IF table = None THEN made + 1 ELSE table IN
       /\ table' = p
       /\ made' = IF table = None THEN p ELSE made
       /\ ops' = [ops EXCEPT ![f] = @ + 1]
       /\ \/ /\ Lock(f, p)
             /\ pc' = [pc EXCEPT ![f] = "lockAcquire"]
             /\ pool' = [pool EXCEPT ![f] = p]
          \/ /\ poisoned[p]          \* Poisoned is raised to the caller
             /\ UNCHANGED <<mutexVars, pc, pool>>
    /\ UNCHANGED <<conn, connections, stats, created, connVars, shut>>

\* A fiber that owns the mutex and is about to run its critical section.
Inside(f, where) == pc[f] = where /\ holder[pool[f]] = f

\* find_available returns a connection.
AcquireReuse(f) ==
    LET p == pool[f] IN
    /\ Inside(f, "lockAcquire")
    /\ connections' = [connections EXCEPT ![p] = Open(p)]
    /\ MarkClosed(Passed(p))
    /\ \E c \in Newest(Available(p)) :
          /\ users' = [users EXCEPT ![c] = @ + 1]
          /\ uses' = [uses EXCEPT ![c] = @ + 1]
          /\ stale' = [stale EXCEPT ![c] = @ \ {"idle"}]
          /\ stats' = [stats EXCEPT ![p] = StatsReused(@, users[c] = 0)]
          /\ HandOver(f, c)
    /\ UNCHANGED <<table, made, created, flow, hooked, shut>>

\* Nothing available and room for one more: create_connection is called, and
\* the fiber suspends in it with the mutex held.
AcquireConnect(f) ==
    LET p == pool[f] IN
    /\ Inside(f, "lockAcquire")
    /\ Available(p) = {}
    /\ ~AtLimit(p)
    /\ connections' = [connections EXCEPT ![p] = Open(p)]
    /\ MarkClosed(Passed(p))
    /\ pc' = [pc EXCEPT ![f] = "connect"]
    /\ UNCHANGED <<pool, conn, ops, table, made, mutexVars, stats, created,
                   users, uses, flow, stale, hooked, shut>>

\* Mutant: the fiber awaits with the mutex released, as Condition.await does.
AcquireAtLimitUnlocking(f) ==
    LET p == pool[f] IN
    /\ Inside(f, "lockAcquire")
    /\ Available(p) = {}
    /\ AtLimit(p)
    /\ connections' = [connections EXCEPT ![p] = Open(p)]
    /\ MarkClosed(Passed(p))
    /\ \E c \in Newest(Open(p)) :
          \/ /\ c \in Passed(p)
             /\ queue' = [queue EXCEPT ![p] = Append(@, f)]
             /\ pc' = [pc EXCEPT ![f] = "relock"]
             /\ UNCHANGED <<conn, holder, poisoned>>
          \/ /\ c \notin Passed(p)
             /\ pc' = [pc EXCEPT ![f] = "awaitUser"]
             /\ conn' = [conn EXCEPT ![f] = c]     \* the connection awaited
             /\ Unlock(p)
    /\ UNCHANGED <<pool, ops, table, made, stats, created,
                   users, uses, flow, stale, hooked, shut>>

\* At the limit: the newest connection is the one to wait for.  If
\* find_available has just marked it closed, acquire_connection calls itself
\* and locks the mutex its caller holds; if it is in use, the fiber awaits
\* pc_user_available with the mutex held.
AcquireAtLimit(f) ==
    LET p == pool[f] IN
    /\ Inside(f, "lockAcquire")
    /\ Available(p) = {}
    /\ AtLimit(p)
    /\ connections' = [connections EXCEPT ![p] = Open(p)]
    /\ MarkClosed(Passed(p))
    /\ \E c \in Newest(Open(p)) :
          \/ /\ c \in Passed(p)
             /\ queue' = [queue EXCEPT ![p] = Append(@, f)]
             /\ pc' = [pc EXCEPT ![f] = "relock"]
             /\ UNCHANGED conn
          \/ /\ c \notin Passed(p)
             /\ pc' = [pc EXCEPT ![f] = "awaitUser"]
             /\ conn' = [conn EXCEPT ![f] = c]     \* the connection awaited
             /\ UNCHANGED queue
    /\ UNCHANGED <<pool, ops, table, made, holder, poisoned, stats, created,
                   users, uses, flow, stale, hooked, shut>>

\* create_connection returns: the connection starts with one user.
CreateSucceeds(f) ==
    LET p == pool[f] c == created + 1 IN
    /\ pc[f] = "connect" /\ created < MaxCreated
    /\ created' = c
    /\ flow' = [flow EXCEPT ![c] = TRUE]
    /\ users' = [users EXCEPT ![c] = 1]
    /\ connections' = [connections EXCEPT ![p] = @ \cup {c}]
    /\ stats' = [stats EXCEPT ![p] = StatsCreated(@)]
    /\ HandOver(f, c)
    /\ UNCHANGED <<table, made, uses, closed, stale, hooked, shut>>

\* create_connection raises (resolution, connect timeout, TLS, init_state):
\* use_rw poisons ep_mutex and every fiber queued on it fails too.  A failure
\* after the TCP connect leaves the socket to the pool's switch.
CreateFails(f) ==
    LET p == pool[f]
        woken == {f} \cup ToSet(queue[p]) IN
    /\ pc[f] = "connect" /\ "connect" \in Faults
    /\ Poison(p)
    /\ \E opened \in BOOLEAN :
          IF opened /\ created < MaxCreated
          THEN /\ created' = created + 1
               /\ flow' = [flow EXCEPT ![created + 1] = TRUE]
          ELSE UNCHANGED <<created, flow>>
    /\ pc' = [g \in Fibers |-> IF g \in woken THEN "idle" ELSE pc[g]]
    /\ conn' = [g \in Fibers |-> IF g \in woken THEN None ELSE conn[g]]
    /\ UNCHANGED <<pool, ops, table, made, connections, stats, users, uses,
                   closed, stale, hooked, shut>>

----------------------------------------------------------------------------
(* release_connection, run when the caller's switch ends.                     *)

StartRelease(f) ==
    /\ pc[f] = "use"
    /\ \/ /\ Lock(f, pool[f])
          /\ pc' = [pc EXCEPT ![f] = "lockRelease"]
          /\ UNCHANGED conn
       \/ /\ poisoned[pool[f]]      \* raised: the user is never given back
          /\ pc' = [pc EXCEPT ![f] = "idle"]
          /\ conn' = [conn EXCEPT ![f] = None]
          /\ UNCHANGED mutexVars
    /\ UNCHANGED <<pool, ops, table, made, connections, stats, created,
                   connVars, shut>>

Release(f) ==
    LET p == pool[f]
        c == conn[f]
        left == Dec(users[c])
        health == Health(c, left)
        released == StatsReleased(stats[p], users[c] > 0 /\ left = 0) IN
    /\ Inside(f, "lockRelease")
    /\ users' = [users EXCEPT ![c] = left]
    /\ \/ /\ health = "ok"
          /\ stats' = [stats EXCEPT ![p] = released]
          /\ UNCHANGED <<connections, closed, flow, hooked>>
       \/ /\ health # "ok"
          /\ stats' = [stats EXCEPT ![p] = StatsRetired(released, left = 0, health)]
          /\ Retire(c)
          /\ connections' = [connections EXCEPT ![p] = @ \ {c}]
    \* Condition.broadcast pc_user_available
    /\ pc' = [g \in Fibers |->
                CASE g = f -> "idle"
                  [] g # f /\ pc[g] = "awaitUser" /\ conn[g] = c -> "woken"
                  [] OTHER -> pc[g]]
    /\ conn' = [conn EXCEPT ![f] = None]
    /\ Unlock(p)
    /\ UNCHANGED <<pool, ops, table, made, created, uses, stale, shut>>

----------------------------------------------------------------------------
(* clear_endpoint.                                                            *)

StartClear(f) ==
    /\ "clear" \in Faults
    /\ pc[f] = "idle" /\ ops[f] < MaxOps /\ ~shut
    /\ table # None
    /\ ops' = [ops EXCEPT ![f] = @ + 1]
    /\ \/ /\ Lock(f, table)
          /\ pc' = [pc EXCEPT ![f] = "lockClear"]
          /\ pool' = [pool EXCEPT ![f] = table]
       \/ /\ poisoned[table]
          /\ UNCHANGED <<mutexVars, pc, pool>>
    /\ UNCHANGED <<conn, table, made, connections, stats, created, connVars,
                   shut>>

\* Close every connection of the pool that was looked up, then drop whatever
\* entry the table has now.
Clear(f) ==
    LET p == pool[f] IN
    /\ Inside(f, "lockClear")
    /\ CloseAll(connections[p])
    /\ connections' = [connections EXCEPT ![p] = {}]
    /\ table' = None
    /\ pc' = [pc EXCEPT ![f] = "idle"]
    /\ Unlock(p)
    /\ UNCHANGED <<pool, conn, ops, made, stats, created, users, uses, stale,
                   shut>>

----------------------------------------------------------------------------
(* The environment.                                                           *)

\* A connection's protocol fails, or one of its clocks runs out (which nobody
\* looks at once pc_closed is set).
GoStale(c, why) ==
    /\ why \in Faults
    /\ c \in UNION {connections[p] : p \in PoolIds}
    /\ ~closed[c] /\ why \notin stale[c]
    /\ stale' = [stale EXCEPT ![c] = @ \cup {why}]
    /\ UNCHANGED <<fiberVars, table, made, mutexVars, connections, stats,
                   created, users, uses, closed, flow, hooked, shut>>

\* A fiber waiting to lock is cancelled (everything later is protected).
CancelLock(f) ==
    /\ "cancel" \in Faults
    /\ pc[f] = "lockAcquire" /\ holder[pool[f]] # f
    /\ \E i \in DOMAIN queue[pool[f]] :
          /\ queue[pool[f]][i] = f
          /\ queue' = [queue EXCEPT ![pool[f]] = RemoveAt(@, i)]
    /\ pc' = [pc EXCEPT ![f] = "idle"]
    /\ UNCHANGED <<pool, conn, ops, table, made, holder, poisoned, connections,
                   stats, created, connVars, shut>>

\* The pool's switch is released, once the fibers below it are done: the
\* handler of create closes what the table still has, the sockets go with the
\* switch they were opened on.
Shutdown ==
    /\ "shutdown" \in Faults /\ ~shut
    /\ \A f \in Fibers : pc[f] = "idle"
    /\ LET S == IF table = None THEN {} ELSE {c \in connections[table] : ~closed[c]} IN
       /\ MarkClosed(S)
       /\ hooked' = [c \in ConnIds |-> hooked[c] \/ c \in S]
    /\ flow' = [c \in ConnIds |-> FALSE]
    /\ table' = None
    /\ shut' = TRUE
    /\ UNCHANGED <<fiberVars, made, mutexVars, connections, stats, created,
                   users, uses, stale>>

----------------------------------------------------------------------------
Acquire(f) == AcquireReuse(f) \/ AcquireConnect(f) \/ AcquireAtLimit(f)

Next ==
    \/ \E f \in Fibers :
          \/ StartAcquire(f) \/ AcquireReuse(f) \/ AcquireConnect(f)
          \/ AcquireAtLimit(f) \/ CreateSucceeds(f) \/ CreateFails(f)
          \/ StartRelease(f) \/ Release(f)
          \/ StartClear(f) \/ Clear(f) \/ CancelLock(f)
    \/ \E c \in ConnIds, why \in StaleKinds : GoStale(c, why)
    \/ Shutdown

Spec == Init /\ [][Next]_vars

\* Eio's scheduler runs every runnable fiber; a connect returns or times out;
\* a session ends.  No fairness for faults or for starting a session.
Fairness ==
    \A f \in Fibers : /\ WF_vars(Acquire(f))
                      /\ WF_vars(CreateSucceeds(f) \/ CreateFails(f))
                      /\ WF_vars(StartRelease(f))
                      /\ WF_vars(Release(f))
                      /\ WF_vars(Clear(f))

FairSpec == Spec /\ Fairness

----------------------------------------------------------------------------
(* Properties.                                                                *)

Using(f) == pc[f] \in {"use", "lockRelease"}

\* The fibers to which a connection is lent.
Holders(c) == {f \in Fibers : Using(f) /\ conn[f] = c}

PCs == {"idle", "lockAcquire", "connect", "awaitUser", "woken", "relock", "use",
        "lockRelease", "lockClear"}

Stats == [active : Nat, idle : Nat, total_created : Nat, total_reused : Nat,
          total_closed : Nat, errors : Nat]

\* Type invariant.
TypeOK ==
    /\ pc \in [Fibers -> PCs]
    /\ pool \in [Fibers -> PoolIds \cup {None}]
    /\ conn \in [Fibers -> ConnIds \cup {None}]
    /\ ops \in [Fibers -> 0 .. MaxOps]
    /\ made \in 0 .. MaxPools /\ table \in 0 .. made
    /\ holder \in [PoolIds -> Fibers \cup {NoFiber}]
    /\ queue \in [PoolIds -> Seq(Fibers)]
    /\ poisoned \in [PoolIds -> BOOLEAN]
    /\ connections \in [PoolIds -> SUBSET ConnIds]
    /\ stats \in [PoolIds -> Stats]
    /\ created \in 0 .. MaxCreated
    /\ users \in [ConnIds -> Nat] /\ uses \in [ConnIds -> Nat]
    /\ closed \in [ConnIds -> BOOLEAN] /\ flow \in [ConnIds -> BOOLEAN]
    /\ stale \in [ConnIds -> SUBSET StaleKinds]
    /\ hooked \in [ConnIds -> BOOLEAN]
    /\ shut \in BOOLEAN

\* pc_active_users counts the fibers that hold the connection and stays within
\* the access mode; it may only overcount, when a release met a poisoned mutex.
UsersMatchHolders ==
    \A c \in ConnIds :
        /\ Cardinality(Holders(c)) <= users[c]
        /\ users[c] <= Capacity
        /\ (\A p \in PoolIds : ~poisoned[p]) => users[c] = Cardinality(Holders(c))

\* An endpoint_pool never has more connections than the configured maximum,
\* the one being connected included.
ConnectionLimit ==
    \A p \in PoolIds :
        /\ Cardinality(connections[p]) <= MaxConns
        /\ (\E f \in Fibers : pc[f] = "connect" /\ pool[f] = p)
              => Cardinality(connections[p]) < MaxConns

\* The connections of an endpoint_pool that are in use.
InUse(p) == {conn[f] : f \in {g \in Fibers : Using(g) /\ pool[g] = p}}

\* stats.active, "Number of connections currently in use": in exclusive mode it is
\* that number, whatever the interleaving of hand-outs, releases, failed connects
\* and clear_endpoint; in shared mode it lies between that and their users.
ActiveBoundsInUse ==
    \A p \in PoolIds : ~poisoned[p] =>
        /\ Cardinality(InUse(p)) <= stats[p].active
        /\ stats[p].active <= Capacity * Cardinality(InUse(p))

\* stats.idle never understates the idle connections a caller could reuse.
IdleNeverUnderstated ==
    \A p \in PoolIds :
        Cardinality({c \in Open(p) : users[c] = 0}) <= stats[p].idle

\* A connection still in the list has an open socket, and so has every lent
\* connection, although find_available and release retire connections that
\* other fibers still use.
UserKeepsSocket ==
    \A f \in Fibers : Using(f) => flow[conn[f]]

\* max_connection_uses bounds the reuses of each connection.
UseCountLimit ==
    MaxUses # NoLimit => \A c \in ConnIds : uses[c] <= MaxUses

\* One fiber at a time runs a critical section of an endpoint_pool, and it is
\* the owner of its ep_mutex for as long as it is suspended in there.
CriticalSectionOwned ==
    \A f \in Fibers :
        pc[f] \in {"connect", "awaitUser", "relock"} => holder[pool[f]] = f

\* The broadcast of release_connection never reaches a waiter: the waiter owns
\* the mutex under which the broadcast is made.  The code of acquire_connection
\* after its two wait loops is therefore never run.
BroadcastReachesNobody ==
    \A f \in Fibers : pc[f] # "woken"

\* A fiber gets stuck in acquire_connection only when the pool is full and
\* each of its connections is saturated or was found stale.
StuckOnlyAtLimit ==
    \A f \in Fibers : pc[f] \in {"awaitUser", "relock"} =>
        LET p == pool[f] IN
        /\ Cardinality(connections[p]) = MaxConns
        /\ \A c \in connections[p] : closed[c] \/ users[c] >= Capacity

\* No fiber gets stuck in acquire_connection.
NeverStuck ==
    \A f \in Fibers : pc[f] \notin {"awaitUser", "relock"}

\* A connection that acquire_connection hands out is open, not retired and
\* passes the health check at that moment.
HandOutsAreUsable ==
    [][\A f \in Fibers : (pc[f] # "use" /\ pc'[f] = "use") =>
          LET c == conn'[f] IN
          /\ flow'[c] /\ ~closed'[c]
          /\ stale'[c] \cap {"protocol", "lifetime"} = {}]_vars

\* acquire_connection returns, with a connection or an exception.
EveryAcquireEnds ==
    \A f \in Fibers : (pc[f] = "lockAcquire") ~> (pc[f] \in {"use", "idle"})

\* release_connection returns, so that the switch of the caller can finish.
EveryReleaseEnds ==
    \A f \in Fibers : (pc[f] = "lockRelease") ~> (pc[f] = "idle")

\* The pool implements Leases: see that module for what it promises.
Lent == INSTANCE Leases WITH
    lease <- [f \in Fibers |-> IF Using(f) THEN conn[f] ELSE None],
    retired <- {c \in ConnIds : closed[c]}

LeasesSpec == Lent!Spec

----------------------------------------------------------------------------
(* What the interface documents, and the code does not keep.                  *)

\* conpool.mli: "Exclusive: blocks until a connection is available" - a fiber
\* that finds the pool at its limit gets a connection once sessions end.
BlocksUntilAvailable ==
    \A f \in Fibers : (pc[f] \in {"awaitUser", "relock"}) ~> (pc[f] = "use")

\* config.mli on on_close: "Cleanup callback when connection is destroyed" -
\* a connection the pool retired and nobody uses has been closed.
RetiredIsClosed ==
    \A c \in ConnIds :
        closed[c] /\ Holders(c) = {} /\ (\A p \in PoolIds : c \notin connections[p])
            => hooked[c] /\ ~flow[c]
=============================================================================
