---------------------------- MODULE H2PoolProofs ----------------------------
(* Proofs about H2Pool, for every set of requests, limits and bounds:         *)
(* TypeCorrect (TypeOK) and StaleRetried (StaleIsRetried).  The lemmas on      *)
(* effects say what an action does to the variables it changes; those named   *)
(* ...Step treat the actions one by one.                                      *)
EXTENDS H2Pool, FiniteSetTheorems, TLAPS

USE DEF None, Conns, Pools

----------------------------------------------------------------------------
(* Types, and what a request refers to.                                       *)

\* A request has a pool once it began, a connection while it uses one, and an
\* answer only while it can look at it; what is not made yet is empty.
RequestPlaced(r) ==
    /\ pc[r] # "idle" => pool[r] \in Pools
    /\ pc[r] \in {"write", "wait", "release"} => conn[r] \in Conns
    /\ pc[r] \in {"idle", "acquire", "connect", "clear", "closing"} =>
          conn[r] = None
    /\ pc[r] \notin {"write", "wait"} => answer[r] = "none"
    /\ pool[r] <= made /\ conn[r] <= created

PoolsPlaced ==
    /\ table <= made
    /\ \A p \in Pools : \A c \in connections[p] : c <= created
    /\ \A p \in Pools : p > made => connections[p] = {}

Placed == (\A r \in Requests : RequestPlaced(r)) /\ PoolsPlaced

----------------------------------------------------------------------------
(* What the longer actions do, case by case.                                  *)

\* The pool looked up is that of the table, or a new one.
LEMMA LookupEffect ==
    ASSUME Types, NEW r \in Requests, Lookup(r)
    PROVE  \E p \in Pools :
              /\ table' = p /\ pool' = [pool EXCEPT ![r] = p]
              /\ \/ table = None /\ p = made + 1 /\ made' = p
                 \/ table = p /\ made' = made
              /\ \/ /\ poisoned[p]
                    /\ pc' = [pc EXCEPT ![r] = "done"]
                    /\ result' = [result EXCEPT ![r] = "raised"]
                 \/ /\ ~poisoned[p]
                    /\ pc' = [pc EXCEPT ![r] = "acquire"]
                    /\ result' = [result EXCEPT ![r] = "none"]
  <1>1. CASE table = None
    <2>1. made + 1 \in Pools
      BY <1>1, PoolAssumption DEF Types, Lookup
    <2>2. WITNESS made + 1 \in Pools
    <2> QED
      BY <1>1, <2>1 DEF Lookup
  <1>2. CASE table # None
    <2>1. table \in Pools
      BY <1>2 DEF Types
    <2>2. WITNESS table \in Pools
    <2> QED
      BY <1>2, <2>1 DEF Lookup
  <1> QED
    BY <1>1, <1>2

\* The connection found is open and below its limit, and the request goes on
\* with it unless it knows that it was lost.
LEMMA ReuseEffect ==
    ASSUME Types, Placed, NEW r \in Requests, AcquireReuse(r)
    PROVE  \E c \in Conns :
              /\ pool[r] \in Pools /\ c \in connections[pool[r]]
              /\ ~pcClosed[c] /\ h2[c] = "open" /\ users[c] < cached[c]
              /\ users' = [users EXCEPT ![c] = users[c] + 1]
              /\ conn' = [conn EXCEPT ![r] = c]
              /\ \/ /\ lost[c]
                    /\ result' = [result EXCEPT ![r] = "error"]
                    /\ pc' = [pc EXCEPT ![r] = "release"]
                 \/ /\ ~lost[c]
                    /\ pc' = [pc EXCEPT ![r] = "write"]
                    /\ result' = result
  <1>1. pool[r] \in Pools
    BY DEF Placed, RequestPlaced, AcquireReuse
  <1>2. PICK c \in Newest(Available(pool[r])) :
           /\ users' = [users EXCEPT ![c] = @ + 1]
           /\ conn' = [conn EXCEPT ![r] = c]
           /\ IF lost[c]
              THEN /\ result' = [result EXCEPT ![r] = "error"]
                   /\ pc' = [pc EXCEPT ![r] = "release"]
              ELSE /\ pc' = [pc EXCEPT ![r] = "write"]
                   /\ UNCHANGED result
    BY DEF AcquireReuse
  <1>3. /\ c \in Conns /\ c \in connections[pool[r]]
        /\ ~pcClosed[c] /\ h2[c] = "open" /\ users[c] < cached[c]
    BY <1>1, <1>2 DEF Types, Newest, Available, Open, Healthy
  <1> QED
    BY <1>1, <1>2, <1>3

\* A fresh connection is in the pool, with r as its only user.
LEMMA ConnectEffect ==
    ASSUME Types, Placed, NEW r \in Requests, ConnectOk(r)
    PROVE  /\ pool[r] \in Pools /\ created + 1 \in Conns
           /\ created' = created + 1
           /\ connections' = [connections EXCEPT ![pool[r]] =
                                 connections[pool[r]] \cup {created + 1}]
           /\ users' = [users EXCEPT ![created + 1] = 1]
           /\ flow' = [flow EXCEPT ![created + 1] = "open"]
           /\ reader' = [reader EXCEPT ![created + 1] = TRUE]
           /\ owner' = [owner EXCEPT ![pool[r]] = NoOne]
           /\ conn' = [conn EXCEPT ![r] = created + 1]
           /\ pc' = [pc EXCEPT ![r] = "write"]
  <1>1. pool[r] \in Pools
    BY DEF Placed, RequestPlaced, ConnectOk
  <1>2. created + 1 \in Conns
    BY PoolAssumption DEF Types, ConnectOk
  <1> QED
    BY <1>1, <1>2 DEF ConnectOk

\* The headers are sent, or the write raises.
LEMMA WriteEffect ==
    ASSUME Types, Placed, NEW r \in Requests, Write(r)
    PROVE  /\ conn[r] \in Conns
           /\ \/ /\ flow[conn[r]] = "open"
                 /\ pc' = [pc EXCEPT ![r] = "wait"]
                 /\ answer' = answer /\ result' = result
              \/ /\ flow[conn[r]] # "open"
                 /\ pc' = [pc EXCEPT ![r] = "release"]
                 /\ result' = [result EXCEPT ![r] = "raised"]
                 /\ answer' = [answer EXCEPT ![r] = "none"]
  <1>1. conn[r] \in Conns
    BY DEF Placed, RequestPlaced, Write
  <1> QED
    BY <1>1 DEF Write

\* The request looks for another connection, clears the endpoint, or is done.
LEMMA AfterReleaseEffect ==
    ASSUME Types, NEW r \in Requests, AfterRelease(r)
    PROVE  \/ /\ result[r] = "error" /\ attempt[r] = 1 /\ table = None
              /\ Lookup(r) /\ attempt' = [attempt EXCEPT ![r] = 2]
           \/ /\ result[r] = "error" /\ attempt[r] = 1 /\ table \in Pools
              /\ pc' = [pc EXCEPT ![r] = "clear"]
              /\ pool' = [pool EXCEPT ![r] = table]
              /\ UNCHANGED <<attempt, result, table, made>>
           \/ /\ ~(result[r] = "error" /\ attempt[r] = 1)
              /\ pc' = [pc EXCEPT ![r] = "done"]
              /\ UNCHANGED <<pool, attempt, result, table, made>>
  BY DEF AfterRelease, Types

\* The connection has a user less, and is retired unless it is healthy.
LEMMA ReleaseEffect ==
    ASSUME Types, Placed, NEW r \in Requests, Release(r)
    PROVE  /\ pool[r] \in Pools /\ conn[r] \in Conns
           /\ users' = [users EXCEPT ![conn[r]] = users[conn[r]] - 1]
           /\ conn' = [conn EXCEPT ![r] = None]
           /\ \/ pcClosed' = pcClosed /\ connections' = connections
              \/ /\ pcClosed' = [pcClosed EXCEPT ![conn[r]] = TRUE]
                 /\ connections' = [connections EXCEPT
                                       ![pool[r]] = connections[pool[r]] \ {conn[r]}]
           /\ AfterRelease(r)
  <1>1. pool[r] \in Pools /\ conn[r] \in Conns
    BY DEF Placed, RequestPlaced, Release
  <1> QED
    BY <1>1 DEF Release, Leave

\* It brings nothing back to the pool.
LEMMA ReleaseKeeps ==
    ASSUME Types, Placed, NEW r \in Requests, Release(r)
    PROVE  /\ \A c \in Conns : pcClosed[c] => pcClosed'[c]
           /\ \A p \in Pools : connections'[p] \subseteq connections[p]
  <1>1. /\ pool[r] \in Pools /\ conn[r] \in Conns
        /\ \/ pcClosed' = pcClosed /\ connections' = connections
           \/ /\ pcClosed' = [pcClosed EXCEPT ![conn[r]] = TRUE]
              /\ connections' = [connections EXCEPT
                                    ![pool[r]] = connections[pool[r]] \ {conn[r]}]
    BY ReleaseEffect
  <1>2. pcClosed \in [Conns -> BOOLEAN] /\ connections \in [Pools -> SUBSET Conns]
    BY DEF Types
  <1> QED
    BY <1>1, <1>2

\* A connection is closed, or its GOAWAY raises and poisons the mutex.
LEMMA ClearEffect ==
    ASSUME Types, Placed, NEW r \in Requests, ClearOne(r)
    PROVE  \E c \in Conns :
              /\ pool[r] \in Pools /\ c \in connections[pool[r]]
              /\ pcClosed' = [pcClosed EXCEPT ![c] = TRUE]
              /\ Disturb(Waiting(c))
              /\ \/ PoisonBy(r, pool[r]) /\ flow' = flow /\ h2' = h2
                 \/ /\ flow' = [flow EXCEPT ![c] = "closed"]
                    /\ h2' = [h2 EXCEPT ![c] = IF h2[c] = "open" THEN "closed"
                                               ELSE h2[c]]
                    /\ UNCHANGED <<poisoned, owner, pc, result>>
  <1>1. pool[r] \in Pools
    BY DEF Placed, RequestPlaced, ClearOne
  <1>2. PICK c \in Newest(Open(pool[r])) :
           /\ pcClosed' = [pcClosed EXCEPT ![c] = TRUE]
           /\ Disturb(Waiting(c))
           /\ IF h2[c] = "open" /\ flow[c] = "broken"
              THEN PoisonBy(r, pool[r]) /\ UNCHANGED <<flow, h2>>
              ELSE /\ flow' = [flow EXCEPT ![c] = "closed"]
                   /\ h2' = [h2 EXCEPT ![c] = IF @ = "open" THEN "closed" ELSE @]
                   /\ UNCHANGED <<poisoned, owner, pc, result>>
    BY DEF ClearOne
  <1>3. c \in Conns /\ c \in connections[pool[r]]
    BY <1>1, <1>2 DEF Types, Newest, Open
  <1>4. \/ PoisonBy(r, pool[r]) /\ flow' = flow /\ h2' = h2
        \/ /\ flow' = [flow EXCEPT ![c] = "closed"]
           /\ h2' = [h2 EXCEPT ![c] = IF h2[c] = "open" THEN "closed"
                                      ELSE h2[c]]
           /\ UNCHANGED <<poisoned, owner, pc, result>>
    BY <1>2
  <1> QED
    BY <1>1, <1>2, <1>3, <1>4

\* The mutex is disabled, and r and those who wait for it are done.
LEMMA PoisonEffect ==
    ASSUME Types, NEW r \in Requests, NEW p \in Pools, PoisonBy(r, p)
    PROVE  /\ poisoned' = [poisoned EXCEPT ![p] = TRUE]
           /\ owner' = [owner EXCEPT ![p] = NoOne]
           /\ pc' \in [Requests -> {"idle", "acquire", "connect", "write", "wait",
                                    "release", "clear", "closing", "done"}]
           /\ result' \in [Requests -> {"none", "ok", "error", "raised"}]
           /\ pc'[r] = "done" /\ result'[r] = "raised"
           /\ \A s \in Requests \ {r} :
                 \/ pc'[s] = pc[s] /\ result'[s] = result[s]
                 \/ /\ pc[s] \in {"acquire", "release", "clear"}
                    /\ pc'[s] = "done" /\ result'[s] = "raised"
  BY DEF Types, PoisonBy, Queued

\* Those who are done because of it were at the mutex.
LEMMA PoisonDone ==
    ASSUME Types, NEW r \in Requests, NEW p, PoisonBy(r, p)
    PROVE  /\ pc'[r] = "done"
           /\ \A s \in Requests \ {r} :
                 \/ pc'[s] = pc[s]
                 \/ /\ pc[s] \in {"acquire", "release", "clear"}
                    /\ pc'[s] = "done"
  <1>1. pc' = [s \in Requests |->
                  IF s = r \/ s \in Queued(p) THEN "done" ELSE pc[s]]
    BY DEF PoisonBy
  <1>2. \A s \in Queued(p) : pc[s] \in {"acquire", "release", "clear"}
    BY DEF Queued
  <1> QED
    BY <1>1, <1>2

----------------------------------------------------------------------------
(* The invariant: types and placement.                                        *)

\* Nobody has a connection yet.
LEMMA UsersInit == Init => UsersExact
  <1> SUFFICES ASSUME Init PROVE UsersExact
    OBVIOUS
  <1>1. \A c \in Conns : users[c] = 0 /\ Holders(c) = {}
    BY DEF Init, Holders
  <1> QED
    BY <1>1, FS_EmptySet DEF UsersExact

\* Types and placement hold at first.
LEMMA TypesInit == Init => Types /\ Placed
  BY PoolAssumption DEF Init, Types, Placed, RequestPlaced, PoolsPlaced


\* Who has a connection is counted among its users.
LEMMA UsersPositive ==
    ASSUME Types, UsersExact, NEW r \in Requests, conn[r] \in Conns
    PROVE  users[conn[r]] - 1 \in Nat
  <1>1. IsFiniteSet(Holders(conn[r])) /\ r \in Holders(conn[r])
    BY FS_Subset, PoolAssumption DEF Holders
  <1>2. Cardinality(Holders(conn[r])) # 0
    BY <1>1, FS_EmptySet
  <1> QED
    BY <1>2 DEF Types, UsersExact

\* A step keeps the types.
LEMMA TypesStep ==
    ASSUME Types, UsersExact, Placed, [Next]_vars
    PROVE  Types'
  <1>1. ASSUME NEW r \in Requests, Start(r)
         PROVE  Types'
    <2>0. UNCHANGED <<attempt, answer, conn, disturbed, owner,
                       poisoned, connections, created, users, pcClosed, flow,
                       h2, lost, reader, cached, peerLimit, faults>>
      BY <1>1 DEF Start, Lookup, poolVars, connVars, h2Vars, requestVars
    <2>1. PICK p \in Pools :
             /\ table' = p /\ pool' = [pool EXCEPT ![r] = p]
             /\ \/ table = None /\ p = made + 1 /\ made' = p
                \/ table = p /\ made' = made
             /\ \/ /\ poisoned[p]
                   /\ pc' = [pc EXCEPT ![r] = "done"]
                   /\ result' = [result EXCEPT ![r] = "raised"]
                \/ /\ ~poisoned[p]
                   /\ pc' = [pc EXCEPT ![r] = "acquire"]
                   /\ result' = [result EXCEPT ![r] = "none"]
      BY <1>1, LookupEffect DEF Start
    <2>2. table' \in Pools \cup {None}
      BY <2>1, PoolAssumption DEF Types
    <2>3. made' \in 0 .. MaxPools
      BY <2>1, PoolAssumption DEF Types
    <2>4. pool' \in [Requests -> Pools \cup {None}]
      BY <2>1, PoolAssumption DEF Types
    <2>5. pc' \in [Requests -> {"idle", "acquire", "connect", "write", "wait",
                              "release", "clear", "closing", "done"}]
      BY <2>1, PoolAssumption DEF Types
    <2>6. result' \in [Requests -> {"none", "ok", "error", "raised"}]
      BY <2>1, PoolAssumption DEF Types
    <2> QED
      BY <2>0, <2>2, <2>3, <2>4, <2>5, <2>6 DEF Types
  <1>2. ASSUME NEW r \in Requests, AcquireReuse(r)
         PROVE  Types'
    <2>0. UNCHANGED <<attempt, answer, pool, disturbed, table,
                       made, owner, poisoned, created, flow, h2, lost,
                       reader, cached, peerLimit, faults>>
      BY <1>2 DEF AcquireReuse, Newest, Available, Open, poolVars, connVars,
         h2Vars, requestVars
    <2>1. PICK c \in Conns :
             /\ users' = [users EXCEPT ![c] = users[c] + 1]
             /\ conn' = [conn EXCEPT ![r] = c]
             /\ \/ /\ result' = [result EXCEPT ![r] = "error"]
                   /\ pc' = [pc EXCEPT ![r] = "release"]
                \/ /\ pc' = [pc EXCEPT ![r] = "write"]
                   /\ result' = result
      BY <1>2, ReuseEffect
    <2>2. /\ connections' = [connections EXCEPT ![pool[r]] = Open(pool[r])]
          /\ pcClosed' = [d \in Conns |-> pcClosed[d] \/ d \in Passed(pool[r])]
          /\ pool[r] \in Pools
      BY <1>2 DEF AcquireReuse, Placed, RequestPlaced
    <2>3. connections' \in [Pools -> SUBSET Conns]
      BY <2>1, <2>2 DEF Types, Open
    <2>4. pcClosed' \in [Conns -> BOOLEAN]
      <3>1. pcClosed' = [d \in Conns |-> pcClosed[d] \/ d \in Passed(pool[r])]
        BY <2>2
      <3> QED
        BY <3>1, Zenon
    <2>5. users' \in [Conns -> Nat]
      BY <2>1, <2>2 DEF Types, Open
    <2>6. conn' \in [Requests -> Conns \cup {None}]
      BY <2>1, <2>2 DEF Types, Open
    <2>7. result' \in [Requests -> {"none", "ok", "error", "raised"}]
      BY <2>1, <2>2 DEF Types, Open
    <2>8. pc' \in [Requests -> {"idle", "acquire", "connect", "write", "wait",
                              "release", "clear", "closing", "done"}]
      BY <2>1, <2>2 DEF Types, Open
    <2> QED
      BY <2>0, <2>3, <2>4, <2>5, <2>6, <2>7, <2>8 DEF Types
  <1>3. ASSUME NEW r \in Requests, AcquireConnect(r)
         PROVE  Types'
    BY <1>3, PoolAssumption DEF Types, Placed, RequestPlaced, AcquireConnect,
       Open, poolVars, connVars, h2Vars, requestVars
  <1>4. ASSUME NEW r \in Requests, ConnectOk(r)
         PROVE  Types'
    <2>0. UNCHANGED <<attempt, answer, result, pool, disturbed,
                       table, made, poisoned, pcClosed, h2, lost, cached,
                       peerLimit, faults>>
      BY <1>4 DEF ConnectOk, poolVars, connVars, h2Vars, requestVars
    <2>1. /\ pool[r] \in Pools /\ created + 1 \in Conns
          /\ created' = created + 1
          /\ connections' = [connections EXCEPT ![pool[r]] =
                                connections[pool[r]] \cup {created + 1}]
          /\ users' = [users EXCEPT ![created + 1] = 1]
          /\ flow' = [flow EXCEPT ![created + 1] = "open"]
          /\ reader' = [reader EXCEPT ![created + 1] = TRUE]
          /\ owner' = [owner EXCEPT ![pool[r]] = NoOne]
          /\ conn' = [conn EXCEPT ![r] = created + 1]
          /\ pc' = [pc EXCEPT ![r] = "write"]
      BY <1>4, ConnectEffect
    <2>2. created' \in 0 .. MaxCreated
      BY <2>1 DEF Types
    <2>3. connections' \in [Pools -> SUBSET Conns]
      BY <2>1 DEF Types
    <2>4. users' \in [Conns -> Nat]
      BY <2>1 DEF Types
    <2>5. flow' \in [Conns -> {"open", "broken", "closed"}]
      BY <2>1 DEF Types
    <2>6. reader' \in [Conns -> BOOLEAN]
      BY <2>1 DEF Types
    <2>7. owner' \in [Pools -> Requests \cup {NoOne}]
      BY <2>1 DEF Types
    <2>8. conn' \in [Requests -> Conns \cup {None}]
      BY <2>1 DEF Types
    <2>9. pc' \in [Requests -> {"idle", "acquire", "connect", "write", "wait",
                              "release", "clear", "closing", "done"}]
      BY <2>1 DEF Types
    <2> QED
      BY <2>0, <2>2, <2>3, <2>4, <2>5, <2>6, <2>7, <2>8, <2>9 DEF Types
  <1>5. ASSUME NEW r \in Requests, ConnectFails(r)
         PROVE  Types'
    <2>0. UNCHANGED <<attempt, answer, pool, conn, table, made,
                       connections, created, users, pcClosed, flow, h2, lost,
                       reader, cached, peerLimit>>
      BY <1>5 DEF ConnectFails, PoisonBy, Disturb, poolVars, connVars, h2Vars,
         requestVars
    <2>1. poisoned' \in [Pools -> BOOLEAN]
      BY <1>5, PoolAssumption DEF Types, ConnectFails, PoisonBy, Disturb
    <2>2. owner' \in [Pools -> Requests \cup {NoOne}]
      BY <1>5, PoolAssumption DEF Types, ConnectFails, PoisonBy, Disturb
    <2>3. pc' \in [Requests -> {"idle", "acquire", "connect", "write", "wait",
                              "release", "clear", "closing", "done"}]
      BY <1>5, PoolAssumption DEF Types, ConnectFails, PoisonBy, Disturb
    <2>4. result' \in [Requests -> {"none", "ok", "error", "raised"}]
      BY <1>5, PoolAssumption DEF Types, ConnectFails, PoisonBy, Disturb
    <2>5. disturbed' \in [Requests -> BOOLEAN]
      BY <1>5, PoolAssumption DEF Types, ConnectFails, PoisonBy, Disturb
    <2>6. faults' \in 0 .. MaxFaults
      BY <1>5, PoolAssumption DEF Types, ConnectFails, PoisonBy, Disturb
    <2> QED
      BY <2>0, <2>1, <2>2, <2>3, <2>4, <2>5, <2>6 DEF Types
  <1>6. ASSUME NEW r \in Requests, Write(r)
         PROVE  Types'
    <2>0. UNCHANGED <<attempt, pool, conn, disturbed, table,
                       made, owner, poisoned, connections, created, users,
                       pcClosed, flow, h2, lost, reader, cached, peerLimit, faults>>
      BY <1>6 DEF Write, poolVars, connVars, h2Vars, requestVars
    <2>1. /\ conn[r] \in Conns
          /\ \/ /\ pc' = [pc EXCEPT ![r] = "wait"]
                /\ answer' = answer /\ result' = result
             \/ /\ pc' = [pc EXCEPT ![r] = "release"]
                /\ result' = [result EXCEPT ![r] = "raised"]
                /\ answer' = [answer EXCEPT ![r] = "none"]
      BY <1>6, WriteEffect
    <2>2. pc' \in [Requests -> {"idle", "acquire", "connect", "write", "wait",
                              "release", "clear", "closing", "done"}]
      BY <2>1 DEF Types
    <2>3. answer' \in [Requests -> {"none", "ok", "error"}]
      BY <2>1 DEF Types
    <2>4. result' \in [Requests -> {"none", "ok", "error", "raised"}]
      BY <2>1 DEF Types
    <2> QED
      BY <2>0, <2>2, <2>3, <2>4 DEF Types
  <1>7. ASSUME NEW r \in Requests, Take(r)
         PROVE  Types'
    BY <1>7, PoolAssumption DEF Types, Placed, RequestPlaced, Take, poolVars,
       connVars, h2Vars, requestVars
  <1>8. ASSUME NEW r \in Requests, Cancel(r)
         PROVE  Types'
    <2>0. UNCHANGED <<attempt, pool, conn, table, made, owner, poisoned,
                       connections, created, users, pcClosed, flow, h2, lost,
                       reader, cached, peerLimit, faults>>
      BY <1>8 DEF Cancel, Disturb, poolVars, connVars, h2Vars, requestVars
    <2>1. pc' \in [Requests -> {"idle", "acquire", "connect", "write", "wait",
                              "release", "clear", "closing", "done"}]
      BY <1>8, PoolAssumption DEF Types, Cancel, Disturb
    <2>2. result' \in [Requests -> {"none", "ok", "error", "raised"}]
      BY <1>8, PoolAssumption DEF Types, Cancel, Disturb
    <2>3. answer' \in [Requests -> {"none", "ok", "error"}]
      BY <1>8, PoolAssumption DEF Types, Cancel, Disturb
    <2>4. disturbed' \in [Requests -> BOOLEAN]
      BY <1>8, PoolAssumption DEF Types, Cancel, Disturb
    <2> QED
      BY <2>0, <2>1, <2>2, <2>3, <2>4 DEF Types
  <1>9. ASSUME NEW r \in Requests, Release(r)
         PROVE  Types'
    <2>0. UNCHANGED <<answer, disturbed, owner, poisoned,
                       created, flow, h2, lost, reader, cached, peerLimit, faults>>
      BY <1>9 DEF Release, AfterRelease, Lookup, poolVars, connVars, h2Vars,
         requestVars
    <2>6. /\ pool[r] \in Pools /\ conn[r] \in Conns
          /\ users' = [users EXCEPT ![conn[r]] = users[conn[r]] - 1]
          /\ conn' = [conn EXCEPT ![r] = None]
          /\ \/ pcClosed' = pcClosed /\ connections' = connections
             \/ /\ pcClosed' = [pcClosed EXCEPT ![conn[r]] = TRUE]
                /\ connections' = [connections EXCEPT
                                      ![pool[r]] = connections[pool[r]] \ {conn[r]}]
      BY <1>9, ReleaseEffect
    <2>7. users[conn[r]] - 1 \in Nat
      BY <2>6, UsersPositive
    <2>1. users' \in [Conns -> Nat]
      BY <2>6, <2>7 DEF Types
    <2>2. conn' \in [Requests -> Conns \cup {None}]
      BY <2>6 DEF Types
    <2>3. pcClosed' \in [Conns -> BOOLEAN]
      <3>1. pcClosed \in [Conns -> BOOLEAN]
        BY DEF Types
      <3> QED
        BY <2>6, <3>1
    <2>4. connections' \in [Pools -> SUBSET Conns]
      <3>1. connections \in [Pools -> SUBSET Conns]
        BY DEF Types
      <3> QED
        BY <2>6, <3>1
    <2>5. /\ pc' \in [Requests -> {"idle", "acquire", "connect", "write", "wait",
                                   "release", "clear", "closing", "done"}]
          /\ pool' \in [Requests -> Pools \cup {None}]
          /\ attempt' \in [Requests -> {1, 2}]
          /\ result' \in [Requests -> {"none", "ok", "error", "raised"}]
          /\ table' \in Pools \cup {None}
          /\ made' \in 0 .. MaxPools
      <3>1. CASE Lookup(r) /\ attempt' = [attempt EXCEPT ![r] = 2]
        <4>0. PICK p \in Pools :
                 /\ table' = p /\ pool' = [pool EXCEPT ![r] = p]
                 /\ \/ table = None /\ p = made + 1 /\ made' = p
                    \/ table = p /\ made' = made
                 /\ \/ /\ poisoned[p]
                       /\ pc' = [pc EXCEPT ![r] = "done"]
                       /\ result' = [result EXCEPT ![r] = "raised"]
                    \/ /\ ~poisoned[p]
                       /\ pc' = [pc EXCEPT ![r] = "acquire"]
                       /\ result' = [result EXCEPT ![r] = "none"]
          BY <3>1, LookupEffect
        <4>1. pc' \in [Requests -> {"idle", "acquire", "connect", "write", "wait",
                                  "release", "clear", "closing", "done"}]
          BY <3>1, <4>0, PoolAssumption DEF Types
        <4>2. pool' \in [Requests -> Pools \cup {None}]
          BY <3>1, <4>0, PoolAssumption DEF Types
        <4>3. attempt' \in [Requests -> {1, 2}]
          BY <3>1, <4>0, PoolAssumption DEF Types
        <4>4. result' \in [Requests -> {"none", "ok", "error", "raised"}]
          BY <3>1, <4>0, PoolAssumption DEF Types
        <4>5. table' \in Pools \cup {None}
          BY <3>1, <4>0, PoolAssumption DEF Types
        <4>6. made' \in 0 .. MaxPools
          BY <3>1, <4>0, PoolAssumption DEF Types
        <4> QED
          BY <4>1, <4>2, <4>3, <4>4, <4>5, <4>6
      <3>2. CASE /\ \/ pc' = [pc EXCEPT ![r] = "clear"] /\ table \in Pools
                       /\ pool' = [pool EXCEPT ![r] = table]
                    \/ pc' = [pc EXCEPT ![r] = "done"] /\ pool' = pool
                 /\ UNCHANGED <<attempt, result, table, made>>
        <4>1. pc' \in [Requests -> {"idle", "acquire", "connect", "write", "wait",
                                  "release", "clear", "closing", "done"}]
          BY <3>2 DEF Types
        <4>2. pool' \in [Requests -> Pools \cup {None}]
          BY <3>2 DEF Types
        <4>3. attempt' \in [Requests -> {1, 2}]
          BY <3>2 DEF Types
        <4>4. result' \in [Requests -> {"none", "ok", "error", "raised"}]
          BY <3>2 DEF Types
        <4>5. table' \in Pools \cup {None}
          BY <3>2 DEF Types
        <4>6. made' \in 0 .. MaxPools
          BY <3>2 DEF Types
        <4> QED
          BY <4>1, <4>2, <4>3, <4>4, <4>5, <4>6
      <3> QED
        BY <1>9, <3>1, <3>2, ReleaseEffect, AfterReleaseEffect
    <2> QED
      BY <2>0, <2>1, <2>2, <2>3, <2>4, <2>5 DEF Types
  <1>10. ASSUME NEW r \in Requests, LockPoisoned(r)
         PROVE  Types'
    BY <1>10, PoolAssumption DEF Types, Placed, RequestPlaced, LockPoisoned,
       poolVars, connVars, h2Vars, requestVars
  <1>11. ASSUME NEW r \in Requests, ClearLock(r)
         PROVE  Types'
    BY <1>11, PoolAssumption DEF Types, Placed, RequestPlaced, ClearLock,
       poolVars, connVars, h2Vars, requestVars
  <1>12. ASSUME NEW r \in Requests, ClearOne(r)
         PROVE  Types'
    <2>0. UNCHANGED <<attempt, answer, pool, conn, table, made,
                       connections, created, users, lost, reader, cached,
                       peerLimit, faults>>
      BY <1>12 DEF ClearOne, poolVars, connVars, h2Vars, requestVars
    <2>1. PICK c \in Conns :
             /\ pcClosed' = [pcClosed EXCEPT ![c] = TRUE]
             /\ Disturb(Waiting(c))
             /\ \/ PoisonBy(r, pool[r]) /\ flow' = flow /\ h2' = h2
                \/ /\ flow' = [flow EXCEPT ![c] = "closed"]
                   /\ h2' = [h2 EXCEPT ![c] = IF h2[c] = "open" THEN "closed"
                                              ELSE h2[c]]
                   /\ UNCHANGED <<poisoned, owner, pc, result>>
      BY <1>12, ClearEffect
    <2>2. pool[r] \in Pools
      BY <1>12 DEF Placed, RequestPlaced, ClearOne
    <2>3. pcClosed' \in [Conns -> BOOLEAN]
      BY <2>1 DEF Types
    <2>4. disturbed' \in [Requests -> BOOLEAN]
      BY <2>1 DEF Types, Disturb
    <2>5. CASE PoisonBy(r, pool[r]) /\ flow' = flow /\ h2' = h2
      <3>0. /\ poisoned' = [poisoned EXCEPT ![pool[r]] = TRUE]
            /\ owner' = [owner EXCEPT ![pool[r]] = NoOne]
        BY <2>2, <2>5, PoisonEffect
      <3>1. /\ poisoned' \in [Pools -> BOOLEAN]
            /\ owner' \in [Pools -> Requests \cup {NoOne}]
        BY <2>2, <3>0 DEF Types
      <3>2. /\ pc' \in [Requests -> {"idle", "acquire", "connect", "write", "wait",
                                     "release", "clear", "closing", "done"}]
            /\ result' \in [Requests -> {"none", "ok", "error", "raised"}]
        BY <2>2, <2>5, PoisonEffect
      <3> QED
        BY <2>0, <2>3, <2>4, <2>5, <3>1, <3>2 DEF Types
    <2>6. CASE /\ flow' = [flow EXCEPT ![c] = "closed"]
               /\ h2' = [h2 EXCEPT ![c] = IF h2[c] = "open" THEN "closed"
                                          ELSE h2[c]]
               /\ UNCHANGED <<poisoned, owner, pc, result>>
      <3>1. /\ flow' \in [Conns -> {"open", "broken", "closed"}]
            /\ h2' \in [Conns -> {"open", "closing", "closed"}]
        BY <2>6 DEF Types
      <3> QED
        BY <2>0, <2>3, <2>4, <2>6, <3>1 DEF Types
    <2> QED
      BY <2>1, <2>5, <2>6
  <1>13. ASSUME NEW r \in Requests, ClearEnd(r)
         PROVE  Types'
    <2>0. UNCHANGED <<answer, conn, disturbed, poisoned,
                       created, users, pcClosed, flow, h2, lost, reader,
                       cached, peerLimit, faults>>
      BY <1>13 DEF ClearEnd, poolVars, connVars, h2Vars, requestVars
    <2>1. connections' \in [Pools -> SUBSET Conns]
      BY <1>13, PoolAssumption DEF Types, ClearEnd
    <2>2. owner' \in [Pools -> Requests \cup {NoOne}]
      BY <1>13, PoolAssumption DEF Types, ClearEnd
    <2>3. made' \in 0 .. MaxPools
      BY <1>13, PoolAssumption DEF Types, ClearEnd
    <2>4. table' \in Pools \cup {None}
      BY <1>13, PoolAssumption DEF Types, ClearEnd
    <2>5. pool' \in [Requests -> Pools \cup {None}]
      BY <1>13, PoolAssumption DEF Types, ClearEnd
    <2>6. attempt' \in [Requests -> {1, 2}]
      BY <1>13, PoolAssumption DEF Types, ClearEnd
    <2>7. result' \in [Requests -> {"none", "ok", "error", "raised"}]
      BY <1>13, PoolAssumption DEF Types, ClearEnd
    <2>8. pc' \in [Requests -> {"idle", "acquire", "connect", "write", "wait",
                              "release", "clear", "closing", "done"}]
      BY <1>13, PoolAssumption DEF Types, ClearEnd
    <2> QED
      BY <2>0, <2>1, <2>2, <2>3, <2>4, <2>5, <2>6, <2>7, <2>8 DEF Types
  <1>14. ASSUME NEW r \in Requests, PeerReplies(r)
         PROVE  Types'
    BY <1>14, PoolAssumption DEF Types, Placed, RequestPlaced, PeerReplies,
       poolVars, connVars, h2Vars, requestVars
  <1>15. ASSUME NEW r \in Requests, PeerResets(r)
         PROVE  Types'
    <2>0. UNCHANGED <<pc, attempt, result, pool, conn, table,
                       made, owner, poisoned, connections, created, users,
                       pcClosed, flow, h2, lost, reader, cached, peerLimit>>
      BY <1>15 DEF PeerResets, Fault, Disturb, poolVars, connVars, h2Vars,
         requestVars
    <2>1. answer' \in [Requests -> {"none", "ok", "error"}]
      BY <1>15, PoolAssumption DEF Types, PeerResets, Fault, Disturb
    <2>2. disturbed' \in [Requests -> BOOLEAN]
      BY <1>15, PoolAssumption DEF Types, PeerResets, Fault, Disturb
    <2>3. faults' \in 0 .. MaxFaults
      BY <1>15, PoolAssumption DEF Types, PeerResets, Fault, Disturb
    <2> QED
      BY <2>0, <2>1, <2>2, <2>3 DEF Types
  <1>16. ASSUME NEW c \in Conns, ReaderCancelled(c)
         PROVE  Types'
    BY <1>16, PoolAssumption DEF Types, Placed, RequestPlaced, ReaderCancelled,
       TellHandlers, poolVars, connVars, h2Vars, requestVars
  <1>17. ASSUME NEW c \in Conns, PeerGoesAway(c)
         PROVE  Types'
    <2>0. UNCHANGED <<pc, attempt, result, pool, conn, table,
                       made, owner, poisoned, connections, created, users,
                       pcClosed, flow, lost, reader, cached, peerLimit>>
      BY <1>17 DEF PeerGoesAway, Fault, TellHandlers, Disturb, poolVars,
         connVars, h2Vars, requestVars
    <2>1. h2' \in [Conns -> {"open", "closing", "closed"}]
      BY <1>17, PoolAssumption DEF Types, PeerGoesAway, Fault, TellHandlers,
         Disturb
    <2>2. answer' \in [Requests -> {"none", "ok", "error"}]
      BY <1>17, PoolAssumption DEF Types, PeerGoesAway, Fault, TellHandlers,
         Disturb
    <2>3. disturbed' \in [Requests -> BOOLEAN]
      BY <1>17, PoolAssumption DEF Types, PeerGoesAway, Fault, TellHandlers,
         Disturb
    <2>4. faults' \in 0 .. MaxFaults
      BY <1>17, PoolAssumption DEF Types, PeerGoesAway, Fault, TellHandlers,
         Disturb
    <2> QED
      BY <2>0, <2>1, <2>2, <2>3, <2>4 DEF Types
  <1>18. ASSUME NEW c \in Conns, PeerSets(c)
         PROVE  Types'
    <2>0. UNCHANGED <<pc, attempt, answer, result, pool, conn, disturbed, table,
                       made, owner, poisoned, connections, created, users,
                       pcClosed, flow, h2, lost, reader, cached>>
      BY <1>18 DEF PeerSets, Fault, poolVars, connVars, h2Vars, requestVars
    <2>1. peerLimit' \in [Conns -> Nat]
      BY <1>18, PoolAssumption DEF Types, PeerSets, Fault
    <2>2. faults' \in 0 .. MaxFaults
      BY <1>18, PoolAssumption DEF Types, PeerSets, Fault
    <2> QED
      BY <2>0, <2>1, <2>2 DEF Types
  <1>19. ASSUME NEW c \in Conns, NEW kind \in {"eof", "reset"}, PeerEnds(c, kind)
         PROVE  Types'
    <2>0. UNCHANGED <<pc, attempt, result, pool, conn, table,
                       made, owner, poisoned, connections, created, users,
                       pcClosed, h2, cached, peerLimit>>
      BY <1>19 DEF PeerEnds, Fault, TellHandlers, Disturb, poolVars, connVars,
         h2Vars, requestVars
    <2>1. flow' \in [Conns -> {"open", "broken", "closed"}]
      BY <1>19, PoolAssumption DEF Types, PeerEnds, Fault, TellHandlers, Disturb
    <2>2. reader' \in [Conns -> BOOLEAN]
      BY <1>19, PoolAssumption DEF Types, PeerEnds, Fault, TellHandlers, Disturb
    <2>3. lost' \in [Conns -> BOOLEAN]
      BY <1>19, PoolAssumption DEF Types, PeerEnds, Fault, TellHandlers, Disturb
    <2>4. answer' \in [Requests -> {"none", "ok", "error"}]
      BY <1>19, PoolAssumption DEF Types, PeerEnds, Fault, TellHandlers, Disturb
    <2>5. disturbed' \in [Requests -> BOOLEAN]
      BY <1>19, PoolAssumption DEF Types, PeerEnds, Fault, TellHandlers, Disturb
    <2>6. faults' \in 0 .. MaxFaults
      BY <1>19, PoolAssumption DEF Types, PeerEnds, Fault, TellHandlers, Disturb
    <2> QED
      BY <2>0, <2>1, <2>2, <2>3, <2>4, <2>5, <2>6 DEF Types
  <1>20. CASE UNCHANGED vars
    BY <1>20 DEF Types, Placed, RequestPlaced, vars, poolVars, connVars,
       h2Vars, requestVars
  <1> QED
    BY <1>1, <1>2, <1>3, <1>4, <1>5, <1>6, <1>7, <1>8, <1>9, <1>10, <1>11,
       <1>12, <1>13, <1>14, <1>15, <1>16, <1>17, <1>18, <1>19, <1>20 DEF Next

\* A request without a connection that gets c is one more holder of it.
LEMMA HoldersGain ==
    ASSUME Types, NEW r \in Requests, NEW c \in Conns, conn[r] = None,
           conn' = [conn EXCEPT ![r] = c]
    PROVE  /\ Cardinality(Holders(c)') = Cardinality(Holders(c)) + 1
           /\ \A d \in Conns \ {c} : Holders(d)' = Holders(d)
  <1>1. Holders(c)' = Holders(c) \cup {r} /\ r \notin Holders(c)
    BY DEF Types, Holders
  <1>2. IsFiniteSet(Holders(c))
    BY FS_Subset, PoolAssumption DEF Holders
  <1>3. \A d \in Conns \ {c} : Holders(d)' = Holders(d)
    BY DEF Types, Holders
  <1> QED
    BY <1>1, <1>2, <1>3, FS_AddElement

\* A request that gives c up is one holder less.
LEMMA HoldersLose ==
    ASSUME Types, NEW r \in Requests, NEW c \in Conns, conn[r] = c,
           conn' = [conn EXCEPT ![r] = None]
    PROVE  /\ Cardinality(Holders(c)') = Cardinality(Holders(c)) - 1
           /\ \A d \in Conns \ {c} : Holders(d)' = Holders(d)
  <1>1. Holders(c)' = Holders(c) \ {r} /\ r \in Holders(c)
    BY DEF Types, Holders
  <1>2. IsFiniteSet(Holders(c))
    BY FS_Subset, PoolAssumption DEF Holders
  <1>3. \A d \in Conns \ {c} : Holders(d)' = Holders(d)
    BY DEF Types, Holders
  <1> QED
    BY <1>1, <1>2, <1>3, FS_RemoveElement

\* A step keeps the count of users exact.
LEMMA UsersStep ==
    ASSUME Types, UsersExact, Placed, [Next]_vars
    PROVE  UsersExact'
  <1>1. ASSUME NEW r \in Requests, Start(r)
         PROVE  UsersExact'
    BY <1>1 DEF UsersExact, Holders, Start, Lookup, poolVars, connVars, h2Vars,
       requestVars
  <1>2. ASSUME NEW r \in Requests, AcquireReuse(r)
         PROVE  UsersExact'
    <2>1. PICK c \in Conns : /\ users' = [users EXCEPT ![c] = users[c] + 1]
                             /\ conn' = [conn EXCEPT ![r] = c]
      BY <1>2, ReuseEffect
    <2>2. conn[r] = None
      BY <1>2 DEF Placed, RequestPlaced, AcquireReuse
    <2>3. /\ Cardinality(Holders(c)') = Cardinality(Holders(c)) + 1
          /\ \A d \in Conns \ {c} : Holders(d)' = Holders(d)
      BY <2>1, <2>2, HoldersGain
    <2>4. users'[c] = Cardinality(Holders(c)')
      BY <2>1, <2>3 DEF Types, UsersExact
    <2>5. \A d \in Conns \ {c} : users'[d] = Cardinality(Holders(d)')
      BY <2>1, <2>3 DEF Types, UsersExact
    <2> QED
      BY <2>4, <2>5 DEF UsersExact
  <1>3. ASSUME NEW r \in Requests, AcquireConnect(r)
         PROVE  UsersExact'
    BY <1>3 DEF UsersExact, Holders, AcquireConnect, Open, poolVars, connVars,
       h2Vars, requestVars
  <1>4. ASSUME NEW r \in Requests, ConnectOk(r)
         PROVE  UsersExact'
    <2>1. PICK c \in Conns :
             /\ c = created + 1
             /\ users' = [users EXCEPT ![c] = 1] /\ conn' = [conn EXCEPT ![r] = c]
      <3>1. created + 1 \in Conns
        BY <1>4, ConnectEffect
      <3>2. /\ users' = [users EXCEPT ![created + 1] = 1]
            /\ conn' = [conn EXCEPT ![r] = created + 1]
        BY <1>4, ConnectEffect
      <3> QED
        BY <3>1, <3>2
    <2>2. conn[r] = None
      BY <1>4 DEF Placed, RequestPlaced, ConnectOk
    <2>3. /\ Cardinality(Holders(c)') = Cardinality(Holders(c)) + 1
          /\ \A d \in Conns \ {c} : Holders(d)' = Holders(d)
      BY <2>1, <2>2, HoldersGain
    <2>4. Holders(c) = {}
      <3>1. \A s \in Requests : conn[s] # c
        BY <2>1 DEF Types, Placed, RequestPlaced, PoolsPlaced
      <3> QED
        BY <3>1 DEF Holders
    <2>5. users'[c] = Cardinality(Holders(c)')
      <3>1. users'[c] = 1
        BY <2>1 DEF Types
      <3>2. Cardinality(Holders(c)) = 0
        BY <2>4, FS_EmptySet
      <3> QED
        BY <2>3, <3>1, <3>2
    <2>6. \A d \in Conns \ {c} : users'[d] = Cardinality(Holders(d)')
      BY <2>1, <2>3 DEF Types, UsersExact
    <2> QED
      BY <2>5, <2>6 DEF UsersExact
  <1>5. ASSUME NEW r \in Requests, ConnectFails(r)
         PROVE  UsersExact'
    BY <1>5 DEF UsersExact, Holders, ConnectFails, PoisonBy, Disturb, poolVars,
       connVars, h2Vars, requestVars
  <1>6. ASSUME NEW r \in Requests, Write(r)
         PROVE  UsersExact'
    BY <1>6 DEF UsersExact, Holders, Write, poolVars, connVars, h2Vars,
       requestVars
  <1>7. ASSUME NEW r \in Requests, Take(r)
         PROVE  UsersExact'
    BY <1>7 DEF UsersExact, Holders, Take, poolVars, connVars, h2Vars,
       requestVars
  <1>8. ASSUME NEW r \in Requests, Cancel(r)
         PROVE  UsersExact'
    BY <1>8 DEF UsersExact, Holders, Cancel, Disturb, poolVars, connVars,
       h2Vars, requestVars
  <1>9. ASSUME NEW r \in Requests, Release(r)
         PROVE  UsersExact'
    <2>1. PICK c \in Conns :
             /\ conn[r] = c /\ conn' = [conn EXCEPT ![r] = None]
             /\ users' = [users EXCEPT ![c] = users[c] - 1]
      BY <1>9, ReleaseEffect
    <2>2. /\ Cardinality(Holders(c)') = Cardinality(Holders(c)) - 1
          /\ \A d \in Conns \ {c} : Holders(d)' = Holders(d)
      BY <2>1, HoldersLose
    <2>3. users'[c] = Cardinality(Holders(c)')
      BY <2>1, <2>2 DEF Types, UsersExact
    <2>4. \A d \in Conns \ {c} : users'[d] = Cardinality(Holders(d)')
      BY <2>1, <2>2 DEF Types, UsersExact
    <2> QED
      BY <2>3, <2>4 DEF UsersExact
  <1>10. ASSUME NEW r \in Requests, LockPoisoned(r)
         PROVE  UsersExact'
    BY <1>10 DEF UsersExact, Holders, LockPoisoned, poolVars, connVars, h2Vars,
       requestVars
  <1>11. ASSUME NEW r \in Requests, ClearLock(r)
         PROVE  UsersExact'
    BY <1>11 DEF UsersExact, Holders, ClearLock, poolVars, connVars, h2Vars,
       requestVars
  <1>12. ASSUME NEW r \in Requests, ClearOne(r)
         PROVE  UsersExact'
    BY <1>12 DEF UsersExact, Holders, ClearOne, PoisonBy, Disturb, Newest,
       Open, poolVars, connVars, h2Vars, requestVars
  <1>13. ASSUME NEW r \in Requests, ClearEnd(r)
         PROVE  UsersExact'
    BY <1>13 DEF UsersExact, Holders, ClearEnd, poolVars, connVars, h2Vars,
       requestVars
  <1>14. ASSUME NEW r \in Requests, PeerReplies(r)
         PROVE  UsersExact'
    BY <1>14 DEF UsersExact, Holders, PeerReplies, poolVars, connVars, h2Vars,
       requestVars
  <1>15. ASSUME NEW r \in Requests, PeerResets(r)
         PROVE  UsersExact'
    BY <1>15 DEF UsersExact, Holders, PeerResets, Fault, Disturb, poolVars,
       connVars, h2Vars, requestVars
  <1>16. ASSUME NEW c \in Conns, ReaderCancelled(c)
         PROVE  UsersExact'
    BY <1>16 DEF UsersExact, Holders, ReaderCancelled, TellHandlers, poolVars,
       connVars, h2Vars, requestVars
  <1>17. ASSUME NEW c \in Conns, PeerGoesAway(c)
         PROVE  UsersExact'
    BY <1>17 DEF UsersExact, Holders, PeerGoesAway, Fault, TellHandlers,
       Disturb, poolVars, connVars, h2Vars, requestVars
  <1>18. ASSUME NEW c \in Conns, PeerSets(c)
         PROVE  UsersExact'
    BY <1>18 DEF UsersExact, Holders, PeerSets, Fault, poolVars, connVars,
       h2Vars, requestVars
  <1>19. ASSUME NEW c \in Conns, NEW kind \in {"eof", "reset"}, PeerEnds(c, kind)
         PROVE  UsersExact'
    BY <1>19 DEF UsersExact, Holders, PeerEnds, Fault, TellHandlers, Disturb,
       poolVars, connVars, h2Vars, requestVars
  <1>20. CASE UNCHANGED vars
    BY <1>20 DEF UsersExact, Holders, vars, poolVars, connVars, h2Vars,
       requestVars
  <1> QED
    BY <1>1, <1>2, <1>3, <1>4, <1>5, <1>6, <1>7, <1>8, <1>9, <1>10, <1>11,
       <1>12, <1>13, <1>14, <1>15, <1>16, <1>17, <1>18, <1>19, <1>20 DEF Next

\* A step keeps what requests refer to.
LEMMA PlacedStep ==
    ASSUME Types, Types', Placed, [Next]_vars
    PROVE  Placed'
  <1>1. ASSUME NEW r \in Requests, Start(r)
         PROVE  Placed'
    <2>0. UNCHANGED <<answer, conn, created, connections>> /\ pc[r] = "idle"
      BY <1>1 DEF Start, connVars
    <2>1. PICK p \in Pools :
             /\ table' = p /\ pool' = [pool EXCEPT ![r] = p]
             /\ \/ p = made + 1 /\ made' = p
                \/ table = p /\ made' = made
             /\ \/ pc' = [pc EXCEPT ![r] = "done"]
                \/ pc' = [pc EXCEPT ![r] = "acquire"]
      BY <1>1, LookupEffect DEF Start
    <2>2. p <= made' /\ made <= made' /\ made \in Nat /\ made' \in Nat
      BY <2>1 DEF Types, Placed, PoolsPlaced
    <2>8. \A s \in Requests \ {r} : RequestPlaced(s)'
      <3> SUFFICES ASSUME NEW s \in Requests \ {r} PROVE RequestPlaced(s)'
        OBVIOUS
      <3>1. /\ pc'[s] = pc[s] /\ pool'[s] = pool[s]
            /\ UNCHANGED <<answer, conn, created>>
        BY <2>0, <2>1 DEF Types
      <3>2. pool[s] \in Nat /\ pool[s] <= made /\ RequestPlaced(s)
        BY DEF Types, Placed, RequestPlaced
      <3>3. pool[s] <= made'
        BY <2>2, <3>2
      <3> QED
        BY <3>1, <3>2, <3>3 DEF RequestPlaced
    <2>9. RequestPlaced(r)'
      <3>1. pool'[r] = p /\ pc'[r] \in {"done", "acquire"}
        BY <2>1 DEF Types
      <3>2. RequestPlaced(r)
        BY DEF Placed
      <3> QED
        BY <2>0, <2>2, <3>1, <3>2 DEF RequestPlaced
    <2>10. PoolsPlaced'
      <3>1. \A q \in Pools : q > made' => connections[q] = {}
        BY <2>2 DEF Placed, PoolsPlaced
      <3> QED
        BY <2>0, <2>1, <2>2, <3>1 DEF Placed, PoolsPlaced
    <2> QED
      BY <2>8, <2>9, <2>10 DEF Placed
  <1>2. ASSUME NEW r \in Requests, AcquireReuse(r)
         PROVE  Placed'
    <2>8. \A s \in Requests \ {r} : RequestPlaced(s)'
      BY <1>2 DEF Types, Placed, RequestPlaced, AcquireReuse, Newest,
         Available, Open, poolVars, connVars, h2Vars, requestVars
    <2>1. PICK c \in Conns :
             /\ pool[r] \in Pools /\ c \in connections[pool[r]]
             /\ conn' = [conn EXCEPT ![r] = c]
             /\ pc' = [pc EXCEPT ![r] = "release"] \/ pc' = [pc EXCEPT ![r] = "write"]
      BY <1>2, ReuseEffect
    <2>2. c <= created
      BY <2>1 DEF Placed, PoolsPlaced
    <2>3. pc[r] = "acquire" /\ UNCHANGED <<answer, pool, created, made>>
      BY <1>2 DEF AcquireReuse, poolVars, connVars, h2Vars, requestVars
    <2>9. RequestPlaced(r)'
      BY <2>1, <2>2, <2>3 DEF Types, Placed, RequestPlaced
    <2>10. PoolsPlaced'
      <3>1. /\ UNCHANGED <<table, made, created>>
            /\ connections' = [connections EXCEPT ![pool[r]] = Open(pool[r])]
        BY <1>2 DEF AcquireReuse, h2Vars
      <3>2. \A p \in Pools : connections'[p] \subseteq connections[p]
        BY <3>1 DEF Types, Open
      <3> QED
        BY <3>1, <3>2 DEF Placed, PoolsPlaced
    <2> QED
      BY <2>8, <2>9, <2>10 DEF Placed
  <1>3. ASSUME NEW r \in Requests, AcquireConnect(r)
         PROVE  Placed'
    <2>1. /\ pc[r] = "acquire" /\ pc' = [pc EXCEPT ![r] = "connect"]
          /\ UNCHANGED <<answer, pool, conn, table, made, created>>
          /\ connections' = [connections EXCEPT ![pool[r]] = Open(pool[r])]
      BY <1>3 DEF AcquireConnect
    <2>2. \A s \in Requests : RequestPlaced(s)'
      <3>1. \A s \in Requests \ {r} : pc'[s] = pc[s]
        BY <2>1 DEF Types
      <3>2. pc'[r] = "connect"
        BY <2>1 DEF Types
      <3> QED
        BY <2>1, <3>1, <3>2 DEF Placed, RequestPlaced
    <2>3. \A p \in Pools : connections'[p] \subseteq connections[p]
      BY <2>1 DEF Types, Open
    <2> QED
      BY <2>1, <2>2, <2>3 DEF Placed, PoolsPlaced
  <1>4. ASSUME NEW r \in Requests, ConnectOk(r)
         PROVE  Placed'
    <2>8. \A s \in Requests \ {r} : RequestPlaced(s)'
      BY <1>4 DEF Types, Placed, RequestPlaced, ConnectOk, poolVars, connVars,
         h2Vars, requestVars
    <2>9. RequestPlaced(r)'
      BY <1>4 DEF Types, Placed, RequestPlaced, ConnectOk, poolVars, connVars,
         h2Vars, requestVars
    <2>10. PoolsPlaced'
      BY <1>4 DEF Types, Placed, RequestPlaced, PoolsPlaced, ConnectOk,
         poolVars, connVars, h2Vars, requestVars
    <2> QED
      BY <2>8, <2>9, <2>10 DEF Placed
  <1>5. ASSUME NEW r \in Requests, ConnectFails(r)
         PROVE  Placed'
    <2>1. /\ pc[r] = "connect" /\ pool[r] \in Pools /\ PoisonBy(r, pool[r])
          /\ UNCHANGED <<answer, pool, conn, made, created, table, connections>>
      BY <1>5 DEF ConnectFails, Placed, RequestPlaced, poolVars, connVars,
         h2Vars, requestVars
    <2>2. /\ pc'[r] = "done"
          /\ \A s \in Requests \ {r} :
                \/ pc'[s] = pc[s]
                \/ /\ pc[s] \in {"acquire", "release", "clear"}
                   /\ pc'[s] = "done"
      BY <2>1, PoisonDone
    <2>8. \A s \in Requests \ {r} : RequestPlaced(s)'
      BY <2>1, <2>2 DEF Types, Placed, RequestPlaced
    <2>9. RequestPlaced(r)'
      BY <2>1, <2>2 DEF Types, Placed, RequestPlaced
    <2>10. PoolsPlaced'
      BY <2>1 DEF Placed, PoolsPlaced
    <2> QED
      BY <2>8, <2>9, <2>10 DEF Placed
  <1>6. ASSUME NEW r \in Requests, Write(r)
         PROVE  Placed'
    <2>1. /\ pc[r] = "write" /\ conn[r] \in Conns /\ conn[r] <= created
          /\ UNCHANGED <<pool, conn, made, created, table, connections>>
      BY <1>6 DEF Write, Placed, RequestPlaced, poolVars, connVars, h2Vars,
         requestVars
    <2>2. \/ /\ pc' = [pc EXCEPT ![r] = "wait"]
             /\ answer' = answer
          \/ /\ pc' = [pc EXCEPT ![r] = "release"]
             /\ answer' = [answer EXCEPT ![r] = "none"]
      BY <1>6, WriteEffect
    <2>8. \A s \in Requests \ {r} : RequestPlaced(s)'
      BY <2>1, <2>2 DEF Types, Placed, RequestPlaced
    <2>9. RequestPlaced(r)'
      BY <2>1, <2>2 DEF Types, Placed, RequestPlaced
    <2>10. PoolsPlaced'
      BY <2>1 DEF Placed, PoolsPlaced
    <2> QED
      BY <2>8, <2>9, <2>10 DEF Placed
  <1>7. ASSUME NEW r \in Requests, Take(r)
         PROVE  Placed'
    <2>8. \A s \in Requests \ {r} : RequestPlaced(s)'
      BY <1>7 DEF Types, Placed, RequestPlaced, Take, poolVars, connVars,
         h2Vars, requestVars
    <2>9. RequestPlaced(r)'
      BY <1>7 DEF Types, Placed, RequestPlaced, Take, poolVars, connVars,
         h2Vars, requestVars
    <2>10. PoolsPlaced'
      BY <1>7 DEF Types, Placed, RequestPlaced, PoolsPlaced, Take, poolVars,
         connVars, h2Vars, requestVars
    <2> QED
      BY <2>8, <2>9, <2>10 DEF Placed
  <1>8. ASSUME NEW r \in Requests, Cancel(r)
         PROVE  Placed'
    <2>8. \A s \in Requests \ {r} : RequestPlaced(s)'
      BY <1>8 DEF Types, Placed, RequestPlaced, Cancel, Disturb, poolVars,
         connVars, h2Vars, requestVars
    <2>9. RequestPlaced(r)'
      BY <1>8 DEF Types, Placed, RequestPlaced, Cancel, Disturb, poolVars,
         connVars, h2Vars, requestVars
    <2>10. PoolsPlaced'
      BY <1>8 DEF Types, Placed, RequestPlaced, PoolsPlaced, Cancel, Disturb,
         poolVars, connVars, h2Vars, requestVars
    <2> QED
      BY <2>8, <2>9, <2>10 DEF Placed
  <1>9. ASSUME NEW r \in Requests, Release(r)
         PROVE  Placed'
    <2>1. /\ pc[r] = "release" /\ pool[r] \in Pools /\ pool[r] <= made
          /\ UNCHANGED <<answer, created>>
          /\ conn' = [conn EXCEPT ![r] = None]
          /\ \/ connections' = connections
             \/ connections' = [connections EXCEPT
                                   ![pool[r]] = connections[pool[r]] \ {conn[r]}]
      BY <1>9, ReleaseEffect DEF Release, Placed, RequestPlaced, poolVars,
         connVars, h2Vars, requestVars
    <2>2. PICK p \in Pools :
             /\ p <= made' /\ made <= made' /\ table' <= made'
             /\ \/ pool' = pool
                \/ pool' = [pool EXCEPT ![r] = p]
             /\ \/ pc' = [pc EXCEPT ![r] = "acquire"]
                \/ pc' = [pc EXCEPT ![r] = "clear"]
                \/ pc' = [pc EXCEPT ![r] = "done"]
      <3>1. CASE Lookup(r)
        <4>1. PICK p \in Pools :
                 /\ table' = p /\ pool' = [pool EXCEPT ![r] = p]
                 /\ \/ table = None /\ p = made + 1 /\ made' = p
                    \/ table = p /\ made' = made
                 /\ \/ /\ poisoned[p]
                       /\ pc' = [pc EXCEPT ![r] = "done"]
                       /\ result' = [result EXCEPT ![r] = "raised"]
                    \/ /\ ~poisoned[p]
                       /\ pc' = [pc EXCEPT ![r] = "acquire"]
                       /\ result' = [result EXCEPT ![r] = "none"]
          BY <3>1, LookupEffect
        <4>2. made \in Nat /\ table \in Nat
          BY DEF Types
        <4>3. p <= made' /\ made <= made' /\ table' <= made'
          BY <4>1, <4>2 DEF Placed, PoolsPlaced
        <4> QED
          BY <4>1, <4>3
      <3>2. CASE ~Lookup(r)
        <4>1. /\ UNCHANGED <<table, made>>
              /\ \/ /\ table \in Pools /\ pool' = [pool EXCEPT ![r] = table]
                    /\ pc' = [pc EXCEPT ![r] = "clear"]
                 \/ pool' = pool /\ pc' = [pc EXCEPT ![r] = "done"]
          BY <1>9, <3>2, ReleaseEffect, AfterReleaseEffect
        <4>2. table <= made /\ made \in Nat
          BY DEF Types, Placed, PoolsPlaced
        <4>3. CASE table \in Pools
          BY <4>1, <4>2, <4>3
        <4>4. CASE table \notin Pools
          BY <2>1, <4>1, <4>2, <4>4
        <4> QED
          BY <4>3, <4>4
      <3> QED
        BY <3>1, <3>2
    <2>3. /\ \A s \in Requests \ {r} : /\ pc'[s] = pc[s] /\ pool'[s] = pool[s]
                                      /\ conn'[s] = conn[s]
          /\ pc'[r] \in {"acquire", "clear", "done"} /\ conn'[r] = None
          /\ pool'[r] \in {p, pool[r]}
      <3>1. /\ pc \in [Requests -> {"idle", "acquire", "connect", "write", "wait",
                                    "release", "clear", "closing", "done"}]
            /\ pool \in [Requests -> Pools \cup {None}]
            /\ conn \in [Requests -> Conns \cup {None}]
        BY DEF Types
      <3> QED
        BY <2>1, <2>2, <3>1
    <2>4. /\ made \in Nat /\ made' \in Nat /\ created \in Nat
          /\ \A s \in Requests : pool[s] \in Nat
      BY DEF Types
    <2>8. \A s \in Requests \ {r} : RequestPlaced(s)'
      BY <2>1, <2>2, <2>3, <2>4 DEF Placed, RequestPlaced
    <2>9. RequestPlaced(r)'
      <3>1. answer[r] = "none"
        BY <2>1 DEF Placed, RequestPlaced
      <3> QED
        BY <2>1, <2>2, <2>3, <2>4, <3>1 DEF RequestPlaced
    <2>10. PoolsPlaced'
      <3>1. \A q \in Pools : connections'[q] \subseteq connections[q]
        <4>1. connections \in [Pools -> SUBSET Conns]
          BY DEF Types
        <4> QED
          BY <2>1, <4>1
      <3> QED
        BY <2>1, <2>2, <2>4, <3>1 DEF Placed, PoolsPlaced
    <2> QED
      BY <2>8, <2>9, <2>10 DEF Placed
  <1>10. ASSUME NEW r \in Requests, LockPoisoned(r)
         PROVE  Placed'
    <2>8. \A s \in Requests \ {r} : RequestPlaced(s)'
      BY <1>10 DEF Types, Placed, RequestPlaced, LockPoisoned, poolVars,
         connVars, h2Vars, requestVars
    <2>9. RequestPlaced(r)'
      BY <1>10 DEF Types, Placed, RequestPlaced, LockPoisoned, poolVars,
         connVars, h2Vars, requestVars
    <2>10. PoolsPlaced'
      BY <1>10 DEF Types, Placed, RequestPlaced, PoolsPlaced, LockPoisoned,
         poolVars, connVars, h2Vars, requestVars
    <2> QED
      BY <2>8, <2>9, <2>10 DEF Placed
  <1>11. ASSUME NEW r \in Requests, ClearLock(r)
         PROVE  Placed'
    BY <1>11, PoolAssumption DEF Types, Placed, RequestPlaced, PoolsPlaced,
       ClearLock, poolVars, connVars, h2Vars, requestVars
  <1>12. ASSUME NEW r \in Requests, ClearOne(r)
         PROVE  Placed'
    <2>1. /\ pc[r] = "closing" /\ pool[r] \in Pools
          /\ UNCHANGED <<answer, pool, conn, made, created, table, connections>>
      BY <1>12 DEF ClearOne, Placed, RequestPlaced, poolVars, connVars, h2Vars,
         requestVars
    <2>2. PoisonBy(r, pool[r]) \/ pc' = pc
      BY <1>12, ClearEffect
    <2>3. /\ pc'[r] \in {"closing", "done"}
          /\ \A s \in Requests \ {r} :
                \/ pc'[s] = pc[s]
                \/ /\ pc[s] \in {"acquire", "release", "clear"}
                   /\ pc'[s] = "done"
      <3>1. CASE PoisonBy(r, pool[r])
        BY <3>1, PoisonDone
      <3>2. CASE pc' = pc
        BY <2>1, <3>2
      <3> QED
        BY <2>2, <3>1, <3>2
    <2>8. \A s \in Requests \ {r} : RequestPlaced(s)'
      BY <2>1, <2>3 DEF Types, Placed, RequestPlaced
    <2>9. RequestPlaced(r)'
      BY <2>1, <2>3 DEF Types, Placed, RequestPlaced
    <2>10. PoolsPlaced'
      BY <2>1 DEF Placed, PoolsPlaced
    <2> QED
      BY <2>8, <2>9, <2>10 DEF Placed
  <1>13. ASSUME NEW r \in Requests, ClearEnd(r)
         PROVE  Placed'
    <2>8. \A s \in Requests \ {r} : RequestPlaced(s)'
      BY <1>13 DEF Types, Placed, RequestPlaced, ClearEnd, poolVars, connVars,
         h2Vars, requestVars
    <2>9. RequestPlaced(r)'
      BY <1>13 DEF Types, Placed, RequestPlaced, ClearEnd, poolVars, connVars,
         h2Vars, requestVars
    <2>10. PoolsPlaced'
      BY <1>13 DEF Types, Placed, RequestPlaced, PoolsPlaced, ClearEnd,
         poolVars, connVars, h2Vars, requestVars
    <2> QED
      BY <2>8, <2>9, <2>10 DEF Placed
  <1>14. ASSUME NEW r \in Requests, PeerReplies(r)
         PROVE  Placed'
    <2>8. \A s \in Requests \ {r} : RequestPlaced(s)'
      BY <1>14 DEF Types, Placed, RequestPlaced, PeerReplies, poolVars,
         connVars, h2Vars, requestVars
    <2>9. RequestPlaced(r)'
      BY <1>14 DEF Types, Placed, RequestPlaced, PeerReplies, poolVars,
         connVars, h2Vars, requestVars
    <2>10. PoolsPlaced'
      BY <1>14 DEF Types, Placed, RequestPlaced, PoolsPlaced, PeerReplies,
         poolVars, connVars, h2Vars, requestVars
    <2> QED
      BY <2>8, <2>9, <2>10 DEF Placed
  <1>15. ASSUME NEW r \in Requests, PeerResets(r)
         PROVE  Placed'
    <2>8. \A s \in Requests \ {r} : RequestPlaced(s)'
      BY <1>15 DEF Types, Placed, RequestPlaced, PeerResets, Fault, Disturb,
         poolVars, connVars, h2Vars, requestVars
    <2>9. RequestPlaced(r)'
      BY <1>15 DEF Types, Placed, RequestPlaced, PeerResets, Fault, Disturb,
         poolVars, connVars, h2Vars, requestVars
    <2>10. PoolsPlaced'
      BY <1>15 DEF Types, Placed, RequestPlaced, PoolsPlaced, PeerResets,
         Fault, Disturb, poolVars, connVars, h2Vars, requestVars
    <2> QED
      BY <2>8, <2>9, <2>10 DEF Placed
  <1>16. ASSUME NEW c \in Conns, ReaderCancelled(c)
         PROVE  Placed'
    BY <1>16, PoolAssumption DEF Types, Placed, RequestPlaced, PoolsPlaced,
       ReaderCancelled, TellHandlers, Waiting, poolVars, connVars, h2Vars,
       requestVars
  <1>17. ASSUME NEW c \in Conns, PeerGoesAway(c)
         PROVE  Placed'
    BY <1>17, PoolAssumption DEF Types, Placed, RequestPlaced, PoolsPlaced,
       PeerGoesAway, Fault, TellHandlers, Disturb, Waiting, poolVars, connVars,
       h2Vars, requestVars
  <1>18. ASSUME NEW c \in Conns, PeerSets(c)
         PROVE  Placed'
    BY <1>18, PoolAssumption DEF Types, Placed, RequestPlaced, PoolsPlaced,
       PeerSets, Fault, poolVars, connVars, h2Vars, requestVars
  <1>19. ASSUME NEW c \in Conns, NEW kind \in {"eof", "reset"}, PeerEnds(c, kind)
         PROVE  Placed'
    BY <1>19, PoolAssumption DEF Types, Placed, RequestPlaced, PoolsPlaced,
       PeerEnds, Fault, TellHandlers, Disturb, Waiting, poolVars, connVars,
       h2Vars, requestVars
  <1>20. CASE UNCHANGED vars
    BY <1>20 DEF Types, Placed, RequestPlaced, PoolsPlaced, vars, poolVars,
       connVars, h2Vars, requestVars
  <1> QED
    BY <1>1, <1>2, <1>3, <1>4, <1>5, <1>6, <1>7, <1>8, <1>9, <1>10, <1>11,
       <1>12, <1>13, <1>14, <1>15, <1>16, <1>17, <1>18, <1>19, <1>20 DEF Next

\* The type invariant, with what requests refer to.
THEOREM TypeCorrect == Spec => []TypeOK
  <1>1. Init => TypeOK /\ Placed
    BY TypesInit, UsersInit DEF TypeOK
  <1>2. TypeOK /\ Placed /\ [Next]_vars => (TypeOK /\ Placed)'
    <2> SUFFICES ASSUME Types, UsersExact, Placed, [Next]_vars
                 PROVE  (TypeOK /\ Placed)'
      BY DEF TypeOK
    <2>1. Types'
      BY TypesStep
    <2> QED
      BY <2>1, UsersStep, PlacedStep DEF TypeOK
  <1> QED
    BY <1>1, <1>2, PTL DEF Spec

----------------------------------------------------------------------------
(* What happened to a connection before a request began does not fail it.     *)

\* Sockets: one the pool closed is retired, one that broke is known to be lost,
\* and one not made yet has no history.
Sockets ==
    \A c \in Conns :
        /\ c <= created /\ flow[c] = "closed" => pcClosed[c]
        /\ c <= created /\ flow[c] = "broken" => lost[c]
        /\ c > created => ~lost[c] /\ h2[c] = "open" /\ ~reader[c]

Untouched(c) == ~lost[c] /\ h2[c] = "open" /\ flow[c] = "open"

\* A request that nothing disturbs works on an untouched connection; its first
\* attempt may fail on one lost before, and its second finds no such connection.
Calm(r) ==
    ~disturbed[r] =>
        /\ pc[r] \in {"write", "wait"} =>
              /\ answer[r] # "error"
              /\ \A c \in Conns : conn[r] = c => Untouched(c)
        /\ pc[r] = "release" =>
              result[r] = "ok" \/ (result[r] = "error" /\ attempt[r] = 1)
        /\ pc[r] \in {"acquire", "connect"} /\ attempt[r] = 2 =>
              \A p \in Pools : pool[r] = p =>
                  \A c \in connections[p] : lost[c] => pcClosed[c]
        /\ pc[r] = "done" => result[r] = "ok" \/ \E p \in Pools : poisoned[p]
        /\ pc[r] \in {"idle", "clear", "closing"} => attempt[r] = 1

\* What a step does to those it does not concern.
Unmoved(r) ==
    /\ pc'[r] = pc[r] /\ attempt'[r] = attempt[r] /\ answer'[r] = answer[r]
    /\ result'[r] = result[r] /\ pool'[r] = pool[r] /\ conn'[r] = conn[r]

PoisonKept == \A p \in Pools : poisoned[p] => poisoned'[p]

\* What the pools have at hand gets no worse.
PoolsKept ==
    /\ \A c \in Conns : pcClosed[c] => pcClosed'[c]
    /\ \A p \in Pools : \A c \in connections'[p] :
          lost'[c] => pcClosed'[c] \/ (c \in connections[p] /\ lost[c])

\* A step keeps what is known about the sockets.
LEMMA SocketsStep ==
    ASSUME Types, Placed, Sockets, [Next]_vars
    PROVE  Sockets'
  <1>1. ASSUME NEW r \in Requests, Start(r)
         PROVE  Sockets'
    BY <1>1 DEF Types, Sockets, Start, Lookup, poolVars, connVars, h2Vars,
       requestVars
  <1>2. ASSUME NEW r \in Requests, AcquireReuse(r)
         PROVE  Sockets'
    <2>1. UNCHANGED <<created, flow, lost, h2, reader>>
      BY <1>2 DEF AcquireReuse, h2Vars
    <2>2. \A c \in Conns : pcClosed[c] => pcClosed'[c]
      BY <1>2 DEF AcquireReuse
    <2> QED
      BY <2>1, <2>2 DEF Sockets
  <1>3. ASSUME NEW r \in Requests, AcquireConnect(r)
         PROVE  Sockets'
    BY <1>3 DEF Types, Sockets, AcquireConnect, Open, poolVars, connVars,
       h2Vars, requestVars
  <1>4. ASSUME NEW r \in Requests, ConnectOk(r)
         PROVE  Sockets'
    <2>1. PICK d \in Conns :
             /\ d = created + 1 /\ created' = d
             /\ flow' = [flow EXCEPT ![d] = "open"]
             /\ reader' = [reader EXCEPT ![d] = TRUE]
      <3>1. /\ created + 1 \in Conns /\ created' = created + 1
            /\ flow' = [flow EXCEPT ![created + 1] = "open"]
            /\ reader' = [reader EXCEPT ![created + 1] = TRUE]
        BY <1>4, ConnectEffect
      <3> QED
        BY <3>1
    <2>2. UNCHANGED <<pcClosed, lost, h2>>
      BY <1>4 DEF ConnectOk
    <2>3. /\ flow \in [Conns -> {"open", "broken", "closed"}]
          /\ reader \in [Conns -> BOOLEAN] /\ created \in Nat
      BY DEF Types
    <2>4. /\ flow'[d] = "open"
          /\ \A c \in Conns \ {d} : flow'[c] = flow[c] /\ reader'[c] = reader[c]
      BY <2>1, <2>3
    <2> QED
      BY <2>1, <2>2, <2>3, <2>4 DEF Sockets
  <1>5. ASSUME NEW r \in Requests, ConnectFails(r)
         PROVE  Sockets'
    BY <1>5 DEF Types, Sockets, ConnectFails, PoisonBy, Disturb, poolVars,
       connVars, h2Vars, requestVars
  <1>6. ASSUME NEW r \in Requests, Write(r)
         PROVE  Sockets'
    BY <1>6 DEF Types, Sockets, Write, poolVars, connVars, h2Vars, requestVars
  <1>7. ASSUME NEW r \in Requests, Take(r)
         PROVE  Sockets'
    BY <1>7 DEF Types, Sockets, Take, poolVars, connVars, h2Vars, requestVars
  <1>8. ASSUME NEW r \in Requests, Cancel(r)
         PROVE  Sockets'
    BY <1>8 DEF Types, Sockets, Cancel, Disturb, poolVars, connVars, h2Vars,
       requestVars
  <1>9. ASSUME NEW r \in Requests, Release(r)
         PROVE  Sockets'
    <2>1. UNCHANGED <<created, flow, lost, h2, reader>>
      BY <1>9 DEF Release, h2Vars
    <2>2. \A c \in Conns : pcClosed[c] => pcClosed'[c]
      BY <1>9, ReleaseKeeps
    <2> QED
      BY <2>1, <2>2 DEF Sockets
  <1>10. ASSUME NEW r \in Requests, LockPoisoned(r)
         PROVE  Sockets'
    BY <1>10 DEF Types, Sockets, LockPoisoned, poolVars, connVars, h2Vars,
       requestVars
  <1>11. ASSUME NEW r \in Requests, ClearLock(r)
         PROVE  Sockets'
    BY <1>11 DEF Types, Sockets, ClearLock, poolVars, connVars, h2Vars,
       requestVars
  <1>12. ASSUME NEW r \in Requests, ClearOne(r)
         PROVE  Sockets'
    <2>1. UNCHANGED <<created, lost, reader>>
      BY <1>12 DEF ClearOne
    <2>2. PICK d \in Conns :
             /\ pool[r] \in Pools /\ d \in connections[pool[r]]
             /\ pcClosed' = [pcClosed EXCEPT ![d] = TRUE]
             /\ \/ flow' = flow /\ h2' = h2
                \/ /\ flow' = [flow EXCEPT ![d] = "closed"]
                   /\ h2' = [h2 EXCEPT ![d] = IF h2[d] = "open" THEN "closed"
                                              ELSE h2[d]]
      BY <1>12, ClearEffect
    <2>3. d <= created /\ created \in Nat
      BY <2>2 DEF Types, Placed, PoolsPlaced
    <2>4. \A c \in Conns : pcClosed[c] \/ c = d => pcClosed'[c]
      BY <2>2 DEF Types
    <2>5. \A c \in Conns \ {d} : flow'[c] = flow[c] /\ h2'[c] = h2[c]
      BY <2>2 DEF Types
    <2>6. flow'[d] \in {"closed", flow[d]}
      BY <2>2 DEF Types
    <2> QED
      BY <2>1, <2>3, <2>4, <2>5, <2>6 DEF Sockets
  <1>13. ASSUME NEW r \in Requests, ClearEnd(r)
         PROVE  Sockets'
    BY <1>13 DEF Types, Sockets, ClearEnd, poolVars, connVars, h2Vars,
       requestVars
  <1>14. ASSUME NEW r \in Requests, PeerReplies(r)
         PROVE  Sockets'
    BY <1>14 DEF Types, Sockets, PeerReplies, poolVars, connVars, h2Vars,
       requestVars
  <1>15. ASSUME NEW r \in Requests, PeerResets(r)
         PROVE  Sockets'
    BY <1>15 DEF Types, Sockets, PeerResets, Fault, Disturb, poolVars,
       connVars, h2Vars, requestVars
  <1>16. ASSUME NEW c \in Conns, ReaderCancelled(c)
         PROVE  Sockets'
    BY <1>16 DEF Types, Sockets, ReaderCancelled, TellHandlers, poolVars,
       connVars, h2Vars, requestVars
  <1>17. ASSUME NEW c \in Conns, PeerGoesAway(c)
         PROVE  Sockets'
    BY <1>17 DEF Types, Sockets, PeerGoesAway, Fault, TellHandlers, Disturb,
       poolVars, connVars, h2Vars, requestVars
  <1>18. ASSUME NEW c \in Conns, PeerSets(c)
         PROVE  Sockets'
    BY <1>18 DEF Types, Sockets, PeerSets, Fault, poolVars, connVars, h2Vars,
       requestVars
  <1>19. ASSUME NEW c \in Conns, NEW kind \in {"eof", "reset"}, PeerEnds(c, kind)
         PROVE  Sockets'
    <2>1. UNCHANGED <<created, pcClosed, h2>> /\ reader[c] /\ flow[c] = "open"
      BY <1>19 DEF PeerEnds
    <2>2. /\ lost'[c] /\ flow'[c] \in {"open", "broken"}
          /\ \A d \in Conns \ {c} : /\ lost'[d] = lost[d] /\ flow'[d] = flow[d]
                                    /\ reader'[d] = reader[d]
      BY <1>19 DEF Types, PeerEnds
    <2>3. ~(c > created)
      BY <2>1 DEF Sockets
    <2> QED
      BY <2>1, <2>2, <2>3 DEF Sockets
  <1>20. CASE UNCHANGED vars
    BY <1>20 DEF Types, Sockets, vars, poolVars, connVars, h2Vars, requestVars
  <1> QED
    BY <1>1, <1>2, <1>3, <1>4, <1>5, <1>6, <1>7, <1>8, <1>9, <1>10, <1>11,
       <1>12, <1>13, <1>14, <1>15, <1>16, <1>17, <1>18, <1>19, <1>20 DEF Next

\* A poisoned mutex stays poisoned.
LEMMA PoisonStep ==
    ASSUME Types, [Next]_vars
    PROVE  PoisonKept
  <1>1. ASSUME NEW r \in Requests, Start(r)
         PROVE  PoisonKept
    BY <1>1 DEF PoisonKept, Start, Lookup, poolVars, connVars, h2Vars,
       requestVars
  <1>2. ASSUME NEW r \in Requests, AcquireReuse(r)
         PROVE  PoisonKept
    BY <1>2 DEF PoisonKept, AcquireReuse, Newest, Available, Open, poolVars,
       connVars, h2Vars, requestVars
  <1>3. ASSUME NEW r \in Requests, AcquireConnect(r)
         PROVE  PoisonKept
    BY <1>3 DEF PoisonKept, AcquireConnect, Open, poolVars, connVars, h2Vars,
       requestVars
  <1>4. ASSUME NEW r \in Requests, ConnectOk(r)
         PROVE  PoisonKept
    BY <1>4 DEF PoisonKept, ConnectOk, poolVars, connVars, h2Vars, requestVars
  <1>5. ASSUME NEW r \in Requests, ConnectFails(r)
         PROVE  PoisonKept
    <2>1. poisoned' = [poisoned EXCEPT ![pool[r]] = TRUE]
      BY <1>5 DEF ConnectFails, PoisonBy
    <2> QED
      BY <2>1 DEF Types, PoisonKept
  <1>6. ASSUME NEW r \in Requests, Write(r)
         PROVE  PoisonKept
    BY <1>6 DEF PoisonKept, Write, poolVars, connVars, h2Vars, requestVars
  <1>7. ASSUME NEW r \in Requests, Take(r)
         PROVE  PoisonKept
    BY <1>7 DEF PoisonKept, Take, poolVars, connVars, h2Vars, requestVars
  <1>8. ASSUME NEW r \in Requests, Cancel(r)
         PROVE  PoisonKept
    BY <1>8 DEF PoisonKept, Cancel, Disturb, poolVars, connVars, h2Vars,
       requestVars
  <1>9. ASSUME NEW r \in Requests, Release(r)
         PROVE  PoisonKept
    BY <1>9 DEF PoisonKept, Release, Leave, AfterRelease, Lookup, poolVars,
       connVars, h2Vars, requestVars
  <1>10. ASSUME NEW r \in Requests, LockPoisoned(r)
         PROVE  PoisonKept
    BY <1>10 DEF PoisonKept, LockPoisoned, poolVars, connVars, h2Vars,
       requestVars
  <1>11. ASSUME NEW r \in Requests, ClearLock(r)
         PROVE  PoisonKept
    BY <1>11 DEF PoisonKept, ClearLock, poolVars, connVars, h2Vars, requestVars
  <1>12. ASSUME NEW r \in Requests, ClearOne(r)
         PROVE  PoisonKept
    <2>1. poisoned' = [poisoned EXCEPT ![pool[r]] = TRUE] \/ poisoned' = poisoned
      BY <1>12 DEF ClearOne, PoisonBy
    <2> QED
      BY <2>1 DEF Types, PoisonKept
  <1>13. ASSUME NEW r \in Requests, ClearEnd(r)
         PROVE  PoisonKept
    BY <1>13 DEF PoisonKept, ClearEnd, poolVars, connVars, h2Vars, requestVars
  <1>14. ASSUME NEW r \in Requests, PeerReplies(r)
         PROVE  PoisonKept
    BY <1>14 DEF PoisonKept, PeerReplies, poolVars, connVars, h2Vars,
       requestVars
  <1>15. ASSUME NEW r \in Requests, PeerResets(r)
         PROVE  PoisonKept
    BY <1>15 DEF PoisonKept, PeerResets, Fault, Disturb, poolVars, connVars,
       h2Vars, requestVars
  <1>16. ASSUME NEW c \in Conns, ReaderCancelled(c)
         PROVE  PoisonKept
    BY <1>16 DEF PoisonKept, ReaderCancelled, TellHandlers, poolVars, connVars,
       h2Vars, requestVars
  <1>17. ASSUME NEW c \in Conns, PeerGoesAway(c)
         PROVE  PoisonKept
    BY <1>17 DEF PoisonKept, PeerGoesAway, Fault, TellHandlers, Disturb,
       poolVars, connVars, h2Vars, requestVars
  <1>18. ASSUME NEW c \in Conns, PeerSets(c)
         PROVE  PoisonKept
    BY <1>18 DEF PoisonKept, PeerSets, Fault, poolVars, connVars, h2Vars,
       requestVars
  <1>19. ASSUME NEW c \in Conns, NEW kind \in {"eof", "reset"}, PeerEnds(c, kind)
         PROVE  PoisonKept
    BY <1>19 DEF PoisonKept, PeerEnds, Fault, TellHandlers, Disturb, poolVars,
       connVars, h2Vars, requestVars
  <1>20. CASE UNCHANGED vars
    BY <1>20 DEF PoisonKept, vars, poolVars, connVars, h2Vars, requestVars
  <1> QED
    BY <1>1, <1>2, <1>3, <1>4, <1>5, <1>6, <1>7, <1>8, <1>9, <1>10, <1>11,
       <1>12, <1>13, <1>14, <1>15, <1>16, <1>17, <1>18, <1>19, <1>20 DEF Next

\* Every request in progress is disturbed, and the others are left alone.
AllDisturbed ==
    \A r \in Requests : IF Began(r) THEN disturbed'[r]
                        ELSE Unmoved(r) /\ disturbed'[r] = disturbed[r]

\* A step that disturbs every request in progress leaves the others calm.
LEMMA CalmDisturbed ==
    ASSUME PoisonKept, AllDisturbed, NEW s \in Requests, Calm(s)
    PROVE  Calm(s)'
  <1>1. CASE Began(s)
    BY <1>1 DEF AllDisturbed, Calm
  <1>2. CASE ~Began(s)
    BY <1>2 DEF AllDisturbed, Unmoved, Began, Calm, PoisonKept
  <1> QED
    BY <1>1, <1>2

\* A request that a step does not move stays calm with its connection.
LEMMA CalmKept ==
    ASSUME Types, PoisonKept, PoolsKept, NEW s \in Requests, Calm(s), Unmoved(s),
           disturbed[s] => disturbed'[s],
           \A c \in Conns : /\ conn[s] = c /\ pc[s] \in {"write", "wait"}
                            /\ ~disturbed'[s] /\ Untouched(c)
                            => Untouched(c)'
    PROVE  Calm(s)'
  <1> SUFFICES ASSUME ~disturbed'[s] PROVE Calm(s)'
    BY DEF Calm
  <1>1. CASE pc[s] \in {"write", "wait"}
    BY <1>1 DEF Calm, Unmoved
  <1>2. CASE pc[s] \in {"acquire", "connect"}
    <2>1. ASSUME attempt[s] = 2, NEW p \in Pools, pool[s] = p,
                 NEW c \in connections'[p], lost'[c]
          PROVE  pcClosed'[c]
      <3>1. CASE pcClosed'[c]
        BY <3>1
      <3>2. CASE c \in connections[p] /\ lost[c] /\ ~pcClosed'[c]
        <4>1. c \in Conns
          BY <3>2 DEF Types
        <4>2. pcClosed[c]
          BY <1>2, <2>1, <3>2 DEF Calm
        <4> QED
          BY <4>1, <4>2 DEF PoolsKept
      <3> QED
        BY <2>1, <3>1, <3>2 DEF PoolsKept
    <2> QED
      BY <1>2, <2>1 DEF Calm, Unmoved
  <1>3. CASE pc[s] \notin {"write", "wait", "acquire", "connect"}
    BY <1>3 DEF Calm, Unmoved, PoisonKept
  <1> QED
    BY <1>1, <1>2, <1>3

\* A step leaves the pools no worse, or disturbs every request.
LEMMA PoolsStep ==
    ASSUME Types, Placed, Sockets, [Next]_vars
    PROVE  PoolsKept \/ AllDisturbed
  <1>1. ASSUME NEW r \in Requests, Start(r)
         PROVE  PoolsKept \/ AllDisturbed
    BY <1>1 DEF PoolsKept, Start, Lookup, poolVars, connVars, h2Vars,
       requestVars
  <1>2. ASSUME NEW r \in Requests, AcquireReuse(r)
         PROVE  PoolsKept \/ AllDisturbed
    <2>1. /\ pool[r] \in Pools /\ lost' = lost
          /\ connections' = [connections EXCEPT ![pool[r]] = Open(pool[r])]
          /\ \A c \in Conns : pcClosed[c] => pcClosed'[c]
      BY <1>2 DEF AcquireReuse, Placed, RequestPlaced, h2Vars
    <2>2. \A p \in Pools : connections'[p] \subseteq connections[p]
      BY <2>1 DEF Types, Open
    <2> QED
      BY <2>1, <2>2 DEF PoolsKept
  <1>3. ASSUME NEW r \in Requests, AcquireConnect(r)
         PROVE  PoolsKept \/ AllDisturbed
    <2>1. /\ pool[r] \in Pools /\ lost' = lost
          /\ connections' = [connections EXCEPT ![pool[r]] = Open(pool[r])]
          /\ \A c \in Conns : pcClosed[c] => pcClosed'[c]
      BY <1>3 DEF AcquireConnect, Placed, RequestPlaced, h2Vars
    <2>2. \A p \in Pools : connections'[p] \subseteq connections[p]
      BY <2>1 DEF Types, Open
    <2> QED
      BY <2>1, <2>2 DEF PoolsKept
  <1>4. ASSUME NEW r \in Requests, ConnectOk(r)
         PROVE  PoolsKept \/ AllDisturbed
    <2>1. PICK d \in Conns :
             /\ d = created + 1 /\ pool[r] \in Pools
             /\ connections' = [connections EXCEPT ![pool[r]] =
                                   connections[pool[r]] \cup {d}]
      <3>1. /\ created + 1 \in Conns /\ pool[r] \in Pools
            /\ connections' = [connections EXCEPT ![pool[r]] =
                                  connections[pool[r]] \cup {created + 1}]
        BY <1>4, ConnectEffect
      <3> QED
        BY <3>1
    <2>2. UNCHANGED <<lost, pcClosed>>
      BY <1>4 DEF ConnectOk
    <2>3. ~lost[d]
      BY <2>1 DEF Types, Sockets
    <2>4. \A p \in Pools : connections'[p] \subseteq connections[p] \cup {d}
      BY <2>1 DEF Types
    <2> QED
      BY <2>2, <2>3, <2>4 DEF PoolsKept
  <1>5. ASSUME NEW r \in Requests, ConnectFails(r)
         PROVE  PoolsKept \/ AllDisturbed
    BY <1>5 DEF PoolsKept, ConnectFails, PoisonBy, Disturb, poolVars, connVars,
       h2Vars, requestVars
  <1>6. ASSUME NEW r \in Requests, Write(r)
         PROVE  PoolsKept \/ AllDisturbed
    BY <1>6 DEF PoolsKept, Write, poolVars, connVars, h2Vars, requestVars
  <1>7. ASSUME NEW r \in Requests, Take(r)
         PROVE  PoolsKept \/ AllDisturbed
    BY <1>7 DEF PoolsKept, Take, poolVars, connVars, h2Vars, requestVars
  <1>8. ASSUME NEW r \in Requests, Cancel(r)
         PROVE  PoolsKept \/ AllDisturbed
    BY <1>8 DEF PoolsKept, Cancel, Disturb, poolVars, connVars, h2Vars,
       requestVars
  <1>9. ASSUME NEW r \in Requests, Release(r)
         PROVE  PoolsKept \/ AllDisturbed
    <2>1. lost' = lost
      BY <1>9 DEF Release, h2Vars
    <2>2. \A c \in Conns : pcClosed[c] => pcClosed'[c]
      BY <1>9, ReleaseKeeps
    <2>3. \A p \in Pools : connections'[p] \subseteq connections[p]
      BY <1>9, ReleaseKeeps
    <2> QED
      BY <2>1, <2>2, <2>3 DEF PoolsKept
  <1>10. ASSUME NEW r \in Requests, LockPoisoned(r)
         PROVE  PoolsKept \/ AllDisturbed
    BY <1>10 DEF PoolsKept, LockPoisoned, poolVars, connVars, h2Vars,
       requestVars
  <1>11. ASSUME NEW r \in Requests, ClearLock(r)
         PROVE  PoolsKept \/ AllDisturbed
    BY <1>11 DEF PoolsKept, ClearLock, poolVars, connVars, h2Vars, requestVars
  <1>12. ASSUME NEW r \in Requests, ClearOne(r)
         PROVE  PoolsKept \/ AllDisturbed
    <2>1. UNCHANGED <<lost, connections>>
      BY <1>12 DEF ClearOne
    <2>2. \A c \in Conns : pcClosed[c] => pcClosed'[c]
      BY <1>12, ClearEffect DEF Types
    <2> QED
      BY <2>1, <2>2 DEF PoolsKept
  <1>13. ASSUME NEW r \in Requests, ClearEnd(r)
         PROVE  PoolsKept \/ AllDisturbed
    <2>1. /\ UNCHANGED <<lost, pcClosed>>
          /\ connections' = [connections EXCEPT ![pool[r]] = {}]
      BY <1>13 DEF ClearEnd, h2Vars, connVars
    <2>2. \A p \in Pools : connections'[p] \subseteq connections[p]
      BY <2>1 DEF Types
    <2> QED
      BY <2>1, <2>2 DEF PoolsKept
  <1>14. ASSUME NEW r \in Requests, PeerReplies(r)
         PROVE  PoolsKept \/ AllDisturbed
    BY <1>14 DEF PoolsKept, PeerReplies, poolVars, connVars, h2Vars, requestVars
  <1>15. ASSUME NEW r \in Requests, PeerResets(r)
         PROVE  PoolsKept \/ AllDisturbed
    BY <1>15 DEF PoolsKept, PeerResets, Fault, Disturb, poolVars, connVars,
       h2Vars, requestVars
  <1>16. ASSUME NEW c \in Conns, ReaderCancelled(c)
         PROVE  PoolsKept \/ AllDisturbed
    <2>1. /\ UNCHANGED <<connections, pcClosed>> /\ reader[c] /\ flow[c] = "closed"
          /\ lost' = [lost EXCEPT ![c] = TRUE]
      BY <1>16 DEF ReaderCancelled, poolVars, connVars
    <2>2. c <= created
      BY <2>1 DEF Types, Sockets
    <2>3. pcClosed[c]
      BY <2>1, <2>2 DEF Sockets
    <2>4. \A d \in Conns \ {c} : lost'[d] = lost[d]
      BY <2>1 DEF Types
    <2>5. \A p \in Pools : connections[p] \subseteq Conns
      BY DEF Types
    <2> QED
      BY <2>1, <2>3, <2>4, <2>5 DEF PoolsKept
  <1>17. ASSUME NEW c \in Conns, PeerGoesAway(c)
         PROVE  PoolsKept \/ AllDisturbed
    BY <1>17 DEF PoolsKept, PeerGoesAway, Fault, TellHandlers, Disturb,
       poolVars, connVars, h2Vars, requestVars
  <1>18. ASSUME NEW c \in Conns, PeerSets(c)
         PROVE  PoolsKept \/ AllDisturbed
    BY <1>18 DEF PoolsKept, PeerSets, Fault, poolVars, connVars, h2Vars,
       requestVars
  <1>19. ASSUME NEW c \in Conns, NEW kind \in {"eof", "reset"}, PeerEnds(c, kind)
         PROVE  PoolsKept \/ AllDisturbed
    <2>1. /\ Disturb(InProgress) /\ TellHandlers(c)
          /\ UNCHANGED <<pc, attempt, result, pool, conn>>
      BY <1>19 DEF PeerEnds
    <2>2. \A r \in Requests : IF Began(r) THEN disturbed'[r]
                              ELSE disturbed'[r] = disturbed[r]
      BY <2>1 DEF Disturb, InProgress, Types
    <2>3. \A r \in Requests : ~Began(r) => answer'[r] = answer[r]
      BY <2>1 DEF TellHandlers, Waiting, Began
    <2> QED
      BY <2>1, <2>2, <2>3 DEF AllDisturbed, Unmoved
  <1>20. CASE UNCHANGED vars
    BY <1>20 DEF PoolsKept, vars, poolVars, connVars, h2Vars, requestVars
  <1> QED
    BY <1>1, <1>2, <1>3, <1>4, <1>5, <1>6, <1>7, <1>8, <1>9, <1>10, <1>11,
       <1>12, <1>13, <1>14, <1>15, <1>16, <1>17, <1>18, <1>19, <1>20 DEF Next

\* A fault of the peer disturbs every request in progress.
LEMMA DisturbAll ==
    ASSUME Types, Disturb(InProgress), \A x \in Requests : ~Began(x) => Unmoved(x)
    PROVE  AllDisturbed
  BY DEF Types, AllDisturbed, Disturb, InProgress

\* A step that leaves the pools no worse keeps an undisturbed request calm.
LEMMA CalmStep ==
    ASSUME Types, Placed, Sockets, NEW s \in Requests, Calm(s),
           PoolsKept, [Next]_vars
    PROVE  Calm(s)'
  <1>1. ASSUME NEW r \in Requests, Start(r)
         PROVE  Calm(s)'
    <2>1. CASE s # r
      <3>1. Unmoved(s) /\ disturbed'[s] = disturbed[s]
        BY <1>1, <2>1 DEF Types, Unmoved, Start, Lookup, poolVars, connVars,
           h2Vars, requestVars
      <3>2. \A c \in Conns : Untouched(c) => Untouched(c)'
        BY <1>1 DEF Untouched, Start, Lookup, poolVars, connVars, h2Vars,
           requestVars
      <3> QED
        BY <3>1, <3>2, PoisonStep, CalmKept
    <2>2. CASE s = r
      BY <1>1, <2>2, PoisonStep DEF Types, Placed, RequestPlaced, Calm,
         PoisonKept, Start, Lookup, poolVars, connVars, h2Vars, requestVars
    <2> QED
      BY <2>1, <2>2
  <1>2. ASSUME NEW r \in Requests, AcquireReuse(r)
         PROVE  Calm(s)'
    <2>1. CASE s # r
      <3>1. Unmoved(s) /\ disturbed'[s] = disturbed[s]
        BY <1>2, <2>1 DEF Types, Unmoved, AcquireReuse, Newest, Available,
           Open, poolVars, connVars, h2Vars, requestVars
      <3>2. \A c \in Conns : Untouched(c) => Untouched(c)'
        BY <1>2 DEF Untouched, AcquireReuse, Newest, Available, Open, poolVars,
           connVars, h2Vars, requestVars
      <3> QED
        BY <3>1, <3>2, PoisonStep, CalmKept
    <2>2. CASE s = r
      <3>1. PICK c \in Conns :
               /\ pool[r] \in Pools /\ c \in connections[pool[r]]
               /\ ~pcClosed[c] /\ h2[c] = "open"
               /\ conn' = [conn EXCEPT ![r] = c]
               /\ \/ /\ lost[c]
                     /\ result' = [result EXCEPT ![r] = "error"]
                     /\ pc' = [pc EXCEPT ![r] = "release"]
                  \/ /\ ~lost[c]
                     /\ pc' = [pc EXCEPT ![r] = "write"]
        BY <1>2, ReuseEffect
      <3>2. /\ pc[r] = "acquire" /\ answer[r] = "none"
            /\ UNCHANGED <<attempt, answer, disturbed, lost, h2, flow>>
        BY <1>2 DEF AcquireReuse, Placed, RequestPlaced, h2Vars
      <3>3. CASE lost[c]
        <4>1. pc'[r] = "release" /\ result'[r] = "error"
          BY <3>1, <3>3 DEF Types
        <4>2. ~disturbed[r] => attempt[r] = 1
          BY <2>2, <3>1, <3>2, <3>3 DEF Calm, Types
        <4> QED
          BY <2>2, <3>2, <4>1, <4>2 DEF Calm
      <3>4. CASE ~lost[c]
        <4>1. pc'[r] = "write" /\ conn'[r] = c
          BY <3>1, <3>4 DEF Types
        <4>2. c <= created
          BY <3>1 DEF Placed, PoolsPlaced
        <4>3. flow[c] = "open"
          BY <3>1, <3>4, <4>2 DEF Types, Sockets
        <4>4. Untouched(c)'
          BY <3>1, <3>2, <3>4, <4>3 DEF Untouched
        <4> QED
          BY <2>2, <3>2, <4>1, <4>4 DEF Calm
      <3> QED
        BY <3>3, <3>4
    <2> QED
      BY <2>1, <2>2
  <1>3. ASSUME NEW r \in Requests, AcquireConnect(r)
         PROVE  Calm(s)'
    <2>1. CASE s # r
      <3>1. Unmoved(s) /\ disturbed'[s] = disturbed[s]
        BY <1>3, <2>1 DEF Types, Unmoved, AcquireConnect, Open, poolVars,
           connVars, h2Vars, requestVars
      <3>2. \A c \in Conns : Untouched(c) => Untouched(c)'
        BY <1>3 DEF Untouched, AcquireConnect, Open, poolVars, connVars,
           h2Vars, requestVars
      <3> QED
        BY <3>1, <3>2, PoisonStep, CalmKept
    <2>2. CASE s = r
      BY <1>3, <2>2, PoisonStep DEF Types, Placed, RequestPlaced, Calm,
         PoisonKept, AcquireConnect, Open, poolVars, connVars, h2Vars,
         requestVars
    <2> QED
      BY <2>1, <2>2
  <1>4. ASSUME NEW r \in Requests, ConnectOk(r)
         PROVE  Calm(s)'
    <2>0. PICK d \in Conns :
             /\ d = created + 1 /\ flow' = [flow EXCEPT ![d] = "open"]
             /\ conn' = [conn EXCEPT ![r] = d] /\ pc' = [pc EXCEPT ![r] = "write"]
      <3>1. /\ created + 1 \in Conns /\ flow' = [flow EXCEPT ![created + 1] = "open"]
            /\ conn' = [conn EXCEPT ![r] = created + 1]
            /\ pc' = [pc EXCEPT ![r] = "write"]
        BY <1>4, ConnectEffect
      <3> QED
        BY <3>1
    <2>9. /\ UNCHANGED <<lost, h2, attempt, answer, result, pool, disturbed>>
          /\ pc[r] = "connect"
      BY <1>4 DEF ConnectOk
    <2>1. CASE s # r
      <3>1. Unmoved(s) /\ disturbed'[s] = disturbed[s]
        BY <2>0, <2>1, <2>9 DEF Types, Unmoved
      <3>2. \A c \in Conns : Untouched(c) => Untouched(c)'
        BY <2>0, <2>9 DEF Types, Untouched
      <3> QED
        BY <3>1, <3>2, PoisonStep, CalmKept
    <2>2. CASE s = r
      <3>1. pc'[r] = "write" /\ conn'[r] = d /\ flow'[d] = "open"
        BY <2>0 DEF Types
      <3>2. ~lost[d] /\ h2[d] = "open"
        BY <2>0 DEF Types, Sockets
      <3>3. Untouched(d)'
        BY <2>9, <3>1, <3>2 DEF Untouched
      <3>4. answer'[r] = "none"
        BY <2>9 DEF Placed, RequestPlaced
      <3> QED
        BY <2>2, <3>1, <3>3, <3>4 DEF Calm
    <2> QED
      BY <2>1, <2>2
  <1>5. ASSUME NEW r \in Requests, ConnectFails(r)
         PROVE  Calm(s)'
    <2>1. Disturb(InProgress) /\ pc[r] = "connect" /\ PoisonBy(r, pool[r])
          /\ UNCHANGED <<attempt, answer, pool, conn>>
      BY <1>5 DEF ConnectFails
    <2>2. \A x \in Requests : ~Began(x) => Unmoved(x)
      BY <2>1 DEF PoisonBy, Queued, Began, Unmoved
    <2> QED
      BY <2>1, <2>2, PoisonStep, DisturbAll, CalmDisturbed
  <1>6. ASSUME NEW r \in Requests, Write(r)
         PROVE  Calm(s)'
    <2>1. CASE s # r
      <3>1. Unmoved(s) /\ disturbed'[s] = disturbed[s]
        BY <1>6, <2>1 DEF Types, Unmoved, Write, poolVars, connVars, h2Vars,
           requestVars
      <3>2. \A c \in Conns : Untouched(c) => Untouched(c)'
        BY <1>6 DEF Untouched, Write, poolVars, connVars, h2Vars, requestVars
      <3> QED
        BY <3>1, <3>2, PoisonStep, CalmKept
    <2>2. CASE s = r
      <3>1. /\ pc[r] = "write" /\ conn[r] \in Conns
            /\ UNCHANGED <<conn, attempt, disturbed, lost, h2, flow>>
        BY <1>6 DEF Write, Placed, RequestPlaced, connVars
      <3>2. CASE disturbed[r]
        BY <2>2, <3>1, <3>2 DEF Calm
      <3>3. CASE ~disturbed[r]
        <4>1. flow[conn[r]] = "open"
          BY <2>2, <3>1, <3>3 DEF Calm, Untouched
        <4>2. pc' = [pc EXCEPT ![r] = "wait"] /\ answer' = answer
          BY <1>6, <4>1, WriteEffect
        <4>3. pc'[r] = "wait"
          BY <4>2 DEF Types
        <4>4. \A c \in Conns : Untouched(c)' = Untouched(c)
          BY <3>1 DEF Untouched
        <4> QED
          BY <2>2, <3>1, <3>3, <4>2, <4>3, <4>4 DEF Calm
      <3> QED
        BY <3>2, <3>3
    <2> QED
      BY <2>1, <2>2
  <1>7. ASSUME NEW r \in Requests, Take(r)
         PROVE  Calm(s)'
    <2>1. CASE s # r
      <3>1. Unmoved(s) /\ disturbed'[s] = disturbed[s]
        BY <1>7, <2>1 DEF Types, Unmoved, Take, poolVars, connVars, h2Vars,
           requestVars
      <3>2. \A c \in Conns : Untouched(c) => Untouched(c)'
        BY <1>7 DEF Untouched, Take, poolVars, connVars, h2Vars, requestVars
      <3> QED
        BY <3>1, <3>2, PoisonStep, CalmKept
    <2>2. CASE s = r
      BY <1>7, <2>2, PoisonStep DEF Types, Placed, RequestPlaced, Calm,
         PoisonKept, Take, poolVars, connVars, h2Vars, requestVars
    <2> QED
      BY <2>1, <2>2
  <1>8. ASSUME NEW r \in Requests, Cancel(r)
         PROVE  Calm(s)'
    <2>1. CASE s # r
      <3>1. Unmoved(s) /\ disturbed'[s] = disturbed[s]
        BY <1>8, <2>1 DEF Types, Unmoved, Cancel, Disturb, poolVars, connVars,
           h2Vars, requestVars
      <3>2. \A c \in Conns : Untouched(c) => Untouched(c)'
        BY <1>8 DEF Untouched, Cancel, Disturb, poolVars, connVars, h2Vars,
           requestVars
      <3> QED
        BY <3>1, <3>2, PoisonStep, CalmKept
    <2>2. CASE s = r
      BY <1>8, <2>2, PoisonStep DEF Types, Placed, RequestPlaced, Calm,
         PoisonKept, Cancel, Disturb, poolVars, connVars, h2Vars, requestVars
    <2> QED
      BY <2>1, <2>2
  <1>9. ASSUME NEW r \in Requests, Release(r)
         PROVE  Calm(s)'
    <2>0. /\ UNCHANGED <<answer, disturbed, flow, lost, h2>> /\ pc[r] = "release"
          /\ conn' = [conn EXCEPT ![r] = None] /\ AfterRelease(r)
      BY <1>9, ReleaseEffect DEF Release, h2Vars
    <2>1. CASE s # r
      <3>1. Unmoved(s) /\ disturbed'[s] = disturbed[s]
        <4>1. /\ \E x \in {"acquire", "clear", "done"} : pc' = [pc EXCEPT ![r] = x]
              /\ attempt' = attempt \/ attempt' = [attempt EXCEPT ![r] = 2]
          BY <2>0 DEF AfterRelease, Lookup
        <4>2. /\ \/ result' = result
                 \/ \E x \in {"raised", "none"} : result' = [result EXCEPT ![r] = x]
              /\ \/ pool' = pool \/ pool' = [pool EXCEPT ![r] = table]
                 \/ pool' = [pool EXCEPT ![r] = made + 1]
          BY <2>0 DEF AfterRelease, Lookup
        <4> QED
          BY <2>0, <2>1, <4>1, <4>2 DEF Types, Unmoved
      <3>2. \A c \in Conns : Untouched(c) => Untouched(c)'
        BY <2>0 DEF Untouched
      <3> QED
        BY <3>1, <3>2, PoisonStep, CalmKept
    <2>2. CASE s = r
      <3> SUFFICES ASSUME ~disturbed[r] PROVE Calm(r)'
        BY <2>0, <2>2 DEF Calm
      <3>1. result[r] = "ok" \/ (result[r] = "error" /\ attempt[r] = 1)
        BY <2>0, <2>2 DEF Calm
      <3>2. CASE /\ table = None /\ Lookup(r)
                 /\ attempt' = [attempt EXCEPT ![r] = 2]
        <4>1. PICK p \in Pools :
                 /\ table' = p /\ pool' = [pool EXCEPT ![r] = p]
                 /\ \/ table = None /\ p = made + 1 /\ made' = p
                    \/ table = p /\ made' = made
                 /\ \/ /\ poisoned[p]
                       /\ pc' = [pc EXCEPT ![r] = "done"]
                       /\ result' = [result EXCEPT ![r] = "raised"]
                    \/ /\ ~poisoned[p]
                       /\ pc' = [pc EXCEPT ![r] = "acquire"]
                       /\ result' = [result EXCEPT ![r] = "none"]
          BY <3>2, LookupEffect
        <4>2. p = made + 1 /\ pool'[r] = p
          BY <3>2, <4>1 DEF Types
        <4>3. connections[p] = {}
          BY <4>2 DEF Types, Placed, PoolsPlaced
        <4>4. connections'[p] = {}
          BY <1>9, <4>3, ReleaseKeeps
        <4>5. CASE poisoned[p]
          <5>1. pc'[r] = "done"
            BY <4>1, <4>5 DEF Types
          <5>2. poisoned'[p]
            BY <4>5, PoisonStep DEF PoisonKept
          <5> QED
            BY <5>1, <5>2 DEF Calm
        <4>6. CASE ~poisoned[p]
          <5>1. pc'[r] = "acquire"
            BY <4>1, <4>6 DEF Types
          <5> QED
            BY <4>2, <4>4, <5>1 DEF Calm
        <4> QED
          BY <4>5, <4>6
      <3>3. CASE /\ attempt[r] = 1 /\ pc' = [pc EXCEPT ![r] = "clear"]
                 /\ UNCHANGED attempt
        <4>1. pc'[r] = "clear"
          BY <3>3 DEF Types
        <4> QED
          BY <3>3, <4>1 DEF Calm
      <3>4. CASE /\ ~(result[r] = "error" /\ attempt[r] = 1)
                 /\ pc' = [pc EXCEPT ![r] = "done"] /\ UNCHANGED result
        <4>1. pc'[r] = "done"
          BY <3>4 DEF Types
        <4> QED
          BY <3>1, <3>4, <4>1 DEF Calm
      <3> QED
        BY <2>0, <3>2, <3>3, <3>4, AfterReleaseEffect
    <2> QED
      BY <2>1, <2>2
  <1>10. ASSUME NEW r \in Requests, LockPoisoned(r)
         PROVE  Calm(s)'
    <2>1. CASE s # r
      <3>1. Unmoved(s) /\ disturbed'[s] = disturbed[s]
        BY <1>10, <2>1 DEF Types, Unmoved, LockPoisoned, poolVars, connVars,
           h2Vars, requestVars
      <3>2. \A c \in Conns : Untouched(c) => Untouched(c)'
        BY <1>10 DEF Untouched, LockPoisoned, poolVars, connVars, h2Vars,
           requestVars
      <3> QED
        BY <3>1, <3>2, PoisonStep, CalmKept
    <2>2. CASE s = r
      BY <1>10, <2>2, PoisonStep DEF Types, Placed, RequestPlaced, Calm,
         PoisonKept, LockPoisoned, poolVars, connVars, h2Vars, requestVars
    <2> QED
      BY <2>1, <2>2
  <1>11. ASSUME NEW r \in Requests, ClearLock(r)
         PROVE  Calm(s)'
    <2>1. CASE s # r
      <3>1. Unmoved(s) /\ disturbed'[s] = disturbed[s]
        BY <1>11, <2>1 DEF Types, Unmoved, ClearLock, poolVars, connVars,
           h2Vars, requestVars
      <3>2. \A c \in Conns : Untouched(c) => Untouched(c)'
        BY <1>11 DEF Untouched, ClearLock, poolVars, connVars, h2Vars,
           requestVars
      <3> QED
        BY <3>1, <3>2, PoisonStep, CalmKept
    <2>2. CASE s = r
      BY <1>11, <2>2, PoisonStep DEF Types, Placed, RequestPlaced, Calm,
         PoisonKept, ClearLock, poolVars, connVars, h2Vars, requestVars
    <2> QED
      BY <2>1, <2>2
  <1>12. ASSUME NEW r \in Requests, ClearOne(r)
         PROVE  Calm(s)'
    <2>0. PICK c \in Conns :
             /\ pool[r] \in Pools /\ Disturb(Waiting(c))
             /\ \/ PoisonBy(r, pool[r]) /\ flow' = flow /\ h2' = h2
                \/ /\ flow' = [flow EXCEPT ![c] = "closed"]
                   /\ h2' = [h2 EXCEPT ![c] = IF h2[c] = "open" THEN "closed"
                                              ELSE h2[c]]
                   /\ UNCHANGED <<poisoned, owner, pc, result>>
      BY <1>12, ClearEffect
    <2>1. UNCHANGED <<attempt, answer, pool, conn, lost>> /\ pc[r] = "closing"
      BY <1>12 DEF ClearOne
    <2>2. CASE PoisonBy(r, pool[r]) /\ (s = r \/ s \in Queued(pool[r]))
      <3>1. pc'[s] = "done" /\ poisoned'[pool[r]]
        BY <2>0, <2>2 DEF PoisonBy, Types
      <3> QED
        BY <2>0, <3>1 DEF Calm
    <2>3. CASE ~(PoisonBy(r, pool[r]) /\ (s = r \/ s \in Queued(pool[r])))
      <3>1. Unmoved(s)
        BY <2>0, <2>1, <2>3 DEF PoisonBy, Unmoved
      <3>2. disturbed[s] \/ s \in Waiting(c) => disturbed'[s]
        BY <2>0 DEF Disturb
      <3>3. \A d \in Conns \ {c} : flow'[d] = flow[d] /\ h2'[d] = h2[d]
        BY <2>0 DEF Types
      <3>4. \A d \in Conns : /\ conn[s] = d /\ pc[s] \in {"write", "wait"}
                             /\ ~disturbed'[s] /\ Untouched(d)
                             => Untouched(d)'
        BY <2>1, <3>2, <3>3 DEF Untouched, Waiting
      <3> QED
        BY <3>1, <3>2, <3>4, PoisonStep, CalmKept
    <2> QED
      BY <2>2, <2>3
  <1>13. ASSUME NEW r \in Requests, ClearEnd(r)
         PROVE  Calm(s)'
    <2>1. CASE s # r
      <3>1. Unmoved(s) /\ disturbed'[s] = disturbed[s]
        BY <1>13, <2>1 DEF Types, Unmoved, ClearEnd, poolVars, connVars,
           h2Vars, requestVars
      <3>2. \A c \in Conns : Untouched(c) => Untouched(c)'
        BY <1>13 DEF Untouched, ClearEnd, poolVars, connVars, h2Vars,
           requestVars
      <3> QED
        BY <3>1, <3>2, PoisonStep, CalmKept
    <2>2. CASE s = r
      <3>1. /\ pool[r] \in Pools /\ made + 1 \in Pools
            /\ connections' = [connections EXCEPT ![pool[r]] = {}]
            /\ pool' = [pool EXCEPT ![r] = made + 1]
            /\ pc' = [pc EXCEPT ![r] = "acquire"]
        BY <1>13, PoolAssumption DEF ClearEnd, Types, Placed, RequestPlaced
      <3>2. pool'[r] = made + 1 /\ pc'[r] = "acquire"
        BY <3>1 DEF Types
      <3>3. connections[made + 1] = {}
        BY <3>1 DEF Types, Placed, PoolsPlaced
      <3>4. connections'[made + 1] = {}
        BY <3>1, <3>3 DEF Types
      <3> QED
        BY <2>2, <3>2, <3>4 DEF Calm
    <2> QED
      BY <2>1, <2>2
  <1>14. ASSUME NEW r \in Requests, PeerReplies(r)
         PROVE  Calm(s)'
    <2>1. CASE s # r
      <3>1. Unmoved(s) /\ disturbed'[s] = disturbed[s]
        BY <1>14, <2>1 DEF Types, Unmoved, PeerReplies, poolVars, connVars,
           h2Vars, requestVars
      <3>2. \A c \in Conns : Untouched(c) => Untouched(c)'
        BY <1>14 DEF Untouched, PeerReplies, poolVars, connVars, h2Vars,
           requestVars
      <3> QED
        BY <3>1, <3>2, PoisonStep, CalmKept
    <2>2. CASE s = r
      <3>1. /\ pc[r] = "wait" /\ answer' = [answer EXCEPT ![r] = "ok"]
            /\ UNCHANGED <<pc, conn, attempt, disturbed, lost, h2, flow>>
        BY <1>14 DEF PeerReplies, connVars
      <3>2. answer'[r] = "ok"
        BY <3>1 DEF Types
      <3>3. \A c \in Conns : Untouched(c)' = Untouched(c)
        BY <3>1 DEF Untouched
      <3> QED
        BY <2>2, <3>1, <3>2, <3>3 DEF Calm
    <2> QED
      BY <2>1, <2>2
  <1>15. ASSUME NEW r \in Requests, PeerResets(r)
         PROVE  Calm(s)'
    <2>1. CASE s # r
      <3>1. Unmoved(s) /\ disturbed'[s] = disturbed[s]
        BY <1>15, <2>1 DEF Types, Unmoved, PeerResets, Fault, Disturb,
           poolVars, connVars, h2Vars, requestVars
      <3>2. \A c \in Conns : Untouched(c) => Untouched(c)'
        BY <1>15 DEF Untouched, PeerResets, Fault, Disturb, poolVars, connVars,
           h2Vars, requestVars
      <3> QED
        BY <3>1, <3>2, PoisonStep, CalmKept
    <2>2. CASE s = r
      BY <1>15, <2>2, PoisonStep DEF Types, Placed, RequestPlaced, Calm,
         PoisonKept, PeerResets, Fault, Disturb, poolVars, connVars, h2Vars,
         requestVars
    <2> QED
      BY <2>1, <2>2
  <1>16. ASSUME NEW c \in Conns, ReaderCancelled(c)
         PROVE  Calm(s)'
    <2>1. /\ UNCHANGED <<pc, attempt, result, pool, conn, disturbed, flow, h2>>
          /\ flow[c] = "closed" /\ TellHandlers(c)
          /\ lost' = [lost EXCEPT ![c] = TRUE]
      BY <1>16 DEF ReaderCancelled, connVars
    <2>2. CASE s \in Waiting(c)
      <3>1. disturbed[s]
        BY <2>1, <2>2 DEF Waiting, Calm, Untouched
      <3> QED
        BY <2>1, <3>1 DEF Calm
    <2>3. CASE s \notin Waiting(c)
      <3>1. Unmoved(s)
        BY <2>1, <2>3 DEF TellHandlers, Unmoved
      <3>2. \A d \in Conns : /\ conn[s] = d /\ pc[s] \in {"write", "wait"}
                             /\ ~disturbed'[s] /\ Untouched(d)
                             => Untouched(d)'
        BY <2>1, <2>3 DEF Types, Untouched, Waiting
      <3> QED
        BY <2>1, <3>1, <3>2, PoisonStep, CalmKept
    <2> QED
      BY <2>2, <2>3
  <1>17. ASSUME NEW c \in Conns, PeerGoesAway(c)
         PROVE  Calm(s)'
    <2>1. Disturb(InProgress) /\ TellHandlers(c)
          /\ UNCHANGED <<pc, attempt, result, pool, conn>>
      BY <1>17 DEF PeerGoesAway
    <2>2. \A x \in Requests : ~Began(x) => Unmoved(x)
      BY <2>1 DEF TellHandlers, Waiting, Began, Unmoved
    <2> QED
      BY <2>1, <2>2, PoisonStep, DisturbAll, CalmDisturbed
  <1>18. ASSUME NEW c \in Conns, PeerSets(c)
         PROVE  Calm(s)'
    <2>1. Unmoved(s) /\ disturbed' = disturbed
      BY <1>18 DEF PeerSets, Unmoved, poolVars, connVars, h2Vars, requestVars
    <2>2. \A d \in Conns : Untouched(d)' = Untouched(d)
      BY <1>18 DEF PeerSets, Untouched, connVars
    <2> QED
      BY <2>1, <2>2, PoisonStep, CalmKept
  <1>19. ASSUME NEW c \in Conns, NEW kind \in {"eof", "reset"}, PeerEnds(c, kind)
         PROVE  Calm(s)'
    <2>1. Disturb(InProgress) /\ TellHandlers(c)
          /\ UNCHANGED <<pc, attempt, result, pool, conn>>
      BY <1>19 DEF PeerEnds
    <2>2. \A x \in Requests : ~Began(x) => Unmoved(x)
      BY <2>1 DEF TellHandlers, Waiting, Began, Unmoved
    <2> QED
      BY <2>1, <2>2, PoisonStep, DisturbAll, CalmDisturbed
  <1>20. CASE UNCHANGED vars
    <2>1. Unmoved(s) /\ disturbed' = disturbed
      BY <1>20 DEF vars, Unmoved, poolVars, connVars, h2Vars, requestVars
    <2>2. \A d \in Conns : Untouched(d)' = Untouched(d)
      BY <1>20 DEF vars, Untouched, connVars, h2Vars
    <2> QED
      BY <2>1, <2>2, PoisonStep, CalmKept
  <1> QED
    BY <1>1, <1>2, <1>3, <1>4, <1>5, <1>6, <1>7, <1>8, <1>9, <1>10, <1>11,
       <1>12, <1>13, <1>14, <1>15, <1>16, <1>17, <1>18, <1>19, <1>20 DEF Next

\* With the sockets and the calm requests.
Settled == TypeOK /\ Placed /\ Sockets /\ \A r \in Requests : Calm(r)

\* It holds at first.
LEMMA SettledInit == Init => Settled
  <1> SUFFICES ASSUME Init PROVE Settled
    OBVIOUS
  <1>1. TypeOK /\ Placed
    BY TypesInit, UsersInit DEF TypeOK
  <1>2. Sockets
    BY DEF Init, Sockets
  <1>3. \A r \in Requests : Calm(r)
    BY DEF Init, Calm
  <1> QED
    BY <1>1, <1>2, <1>3 DEF Settled

\* Every step keeps it.
LEMMA SettledStep == Settled /\ [Next]_vars => Settled'
  <1> SUFFICES ASSUME Types, UsersExact, Placed, Sockets,
                      \A r \in Requests : Calm(r), [Next]_vars
               PROVE  Settled'
    BY DEF Settled, TypeOK
  <1>1. Types'
    BY TypesStep
  <1>2. UsersExact' /\ Placed' /\ Sockets'
    BY <1>1, UsersStep, PlacedStep, SocketsStep
  <1>3. ASSUME NEW s \in Requests PROVE Calm(s)'
    <2>1. CASE PoolsKept
      BY <2>1, CalmStep
    <2>2. CASE AllDisturbed
      BY <2>2, PoisonStep, CalmDisturbed
    <2> QED
      BY <2>1, <2>2, PoolsStep
  <1> QED
    BY <1>1, <1>2, <1>3 DEF Settled, TypeOK

\* A stale connection does not fail a request: if nothing disturbs it while it
\* runs it succeeds, unless an exception has poisoned an endpoint.
THEOREM StaleRetried == Spec => []StaleIsRetried
  <1>1. Settled => StaleIsRetried
    BY DEF Settled, Calm, StaleIsRetried, Undisturbed
  <1> QED
    BY <1>1, SettledInit, SettledStep, PTL DEF Spec

=============================================================================
