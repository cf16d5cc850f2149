------------------------ MODULE ConpoolSafetyProofs ------------------------
(* The types and safety invariants of Conpool, and its refinement of Leases,  *)
(* for every value of its constants.                                          *)
EXTENDS Conpool, FiniteSetTheorems, SequenceTheorems, TLAPS

USE DEF None

----------------------------------------------------------------------------
(* Type correctness.                                                          *)

\* The updates of ep_pool.stats keep the counters natural numbers.
LEMMA StatsTypes ==
    ASSUME NEW s \in Stats, NEW b \in BOOLEAN, NEW h
    PROVE  /\ StatsCreated(s) \in Stats
           /\ StatsReused(s, b) \in Stats
           /\ StatsReleased(s, b) \in Stats
           /\ StatsRetired(s, b, h) \in Stats
  <1>0. /\ s.active \in Nat /\ s.idle \in Nat /\ s.total_created \in Nat
        /\ s.total_reused \in Nat /\ s.total_closed \in Nat /\ s.errors \in Nat
    BY DEF Stats
  <1>1. StatsCreated(s) \in Stats
    <2> DEFINE x == s.total_created + 1
               y == s.active + 1
    <2>1. x \in Nat /\ y \in Nat
      BY <1>0 DEF Dec
    <2>2. StatsCreated(s) = [s EXCEPT !.total_created = x, !.active = y]
      BY DEF StatsCreated
    <2> HIDE DEF x, y
    <2> QED
      BY <2>1, <2>2 DEF Stats
  <1>2. StatsReused(s, b) \in Stats
    <2> DEFINE x == s.total_reused + 1
               y == s.active + 1
               z == IF b THEN Dec(s.idle) ELSE s.idle
    <2>1. x \in Nat /\ y \in Nat /\ z \in Nat
      BY <1>0 DEF Dec
    <2>2. StatsReused(s, b) = [s EXCEPT !.total_reused = x, !.active = y, !.idle = z]
      BY DEF StatsReused
    <2> HIDE DEF x, y, z
    <2> QED
      BY <2>1, <2>2 DEF Stats
  <1>3. StatsReleased(s, b) \in Stats
    <2> DEFINE x == Dec(s.active)
               y == IF b THEN s.idle + 1 ELSE s.idle
    <2>1. x \in Nat /\ y \in Nat
      BY <1>0 DEF Dec
    <2>2. StatsReleased(s, b) = [s EXCEPT !.active = x, !.idle = y]
      BY DEF StatsReleased
    <2> HIDE DEF x, y
    <2> QED
      BY <2>1, <2>2 DEF Stats
  <1>4. StatsRetired(s, b, h) \in Stats
    <2> DEFINE x == s.total_closed + 1
               y == IF b THEN Dec(s.idle) ELSE s.idle
               z == IF h = "error" THEN s.errors + 1 ELSE s.errors
    <2>1. x \in Nat /\ y \in Nat /\ z \in Nat
      BY <1>0 DEF Dec
    <2>2. StatsRetired(s, b, h) = [s EXCEPT !.total_closed = x, !.idle = y, !.errors = z]
      BY DEF StatsRetired
    <2> HIDE DEF x, y, z
    <2> QED
      BY <2>1, <2>2 DEF Stats
  <1> QED
    BY <1>1, <1>2, <1>3, <1>4

\* Dropping a cancelled waiter leaves a queue of fibers.
LEMMA RemoveAtType ==
    ASSUME NEW S, NEW q \in Seq(S), NEW i \in DOMAIN q
    PROVE  RemoveAt(q, i) \in Seq(S)
  <1>1. i \in Nat /\ i >= 1 /\ i <= Len(q) /\ Len(q) \in Nat
    OBVIOUS
  <1>2. SubSeq(q, 1, i - 1) \in Seq(S)
    BY <1>1, SubSeqProperties
  <1>3. SubSeq(q, i + 1, Len(q)) \in Seq(S)
    BY <1>1, SubSeqProperties
  <1> QED
    BY <1>2, <1>3, ConcatProperties DEF RemoveAt

\* The part of TypeOK that is about Eio.Mutex.
MutexType ==
    /\ holder \in [PoolIds -> Fibers \cup {NoFiber}]
    /\ queue \in [PoolIds -> Seq(Fibers)]
    /\ poisoned \in [PoolIds -> BOOLEAN]

\* Eio.Mutex keeps its type in lock, unlock and poison.
LEMMA MutexTypes ==
    ASSUME MutexType, NEW f \in Fibers, NEW p,
           Lock(f, p) \/ Unlock(p) \/ Poison(p) \/ UNCHANGED mutexVars
    PROVE  MutexType'
  <1>1. CASE Lock(f, p)
    <2>1. p \in PoolIds => Append(queue[p], f) \in Seq(Fibers)
      BY AppendProperties DEF MutexType
    <2>2. holder' \in [PoolIds -> Fibers \cup {NoFiber}]
      BY <1>1 DEF MutexType, Lock
    <2>3. queue' \in [PoolIds -> Seq(Fibers)]
      BY <1>1, <2>1 DEF MutexType, Lock
    <2> QED
      BY <1>1, <2>2, <2>3 DEF MutexType, Lock
  <1>2. CASE Unlock(p)
    <2>1. queue[p] # << >> /\ p \in PoolIds =>
             Head(queue[p]) \in Fibers /\ Tail(queue[p]) \in Seq(Fibers)
      BY HeadTailProperties DEF MutexType
    <2>2. holder' \in [PoolIds -> Fibers \cup {NoFiber}]
      BY <1>2, <2>1 DEF MutexType, Unlock
    <2>3. queue' \in [PoolIds -> Seq(Fibers)]
      BY <1>2, <2>1 DEF MutexType, Unlock
    <2> QED
      BY <1>2, <2>2, <2>3 DEF MutexType, Unlock
  <1>3. CASE Poison(p)
    <2>1. holder' \in [PoolIds -> Fibers \cup {NoFiber}]
      BY <1>3 DEF MutexType, Poison
    <2>2. queue' \in [PoolIds -> Seq(Fibers)]
      BY <1>3, EmptySeq DEF MutexType, Poison
    <2> QED
      BY <1>3, <2>1, <2>2 DEF MutexType, Poison
  <1>4. CASE UNCHANGED mutexVars
    BY <1>4 DEF MutexType, mutexVars
  <1> QED
    BY <1>1, <1>2, <1>3, <1>4
\* What a fiber that runs an operation of the pool refers to exists.
Placed ==
    \A f \in Fibers : /\ pc[f] # "idle" => pool[f] \in PoolIds
                      /\ Using(f) => conn[f] \in ConnIds

\* The pool starts well typed.
LEMMA InitType == Init => TypeOK /\ Placed
  <1> SUFFICES ASSUME Init PROVE TypeOK /\ Placed
    OBVIOUS
  <1>1. ZeroStats \in Stats
    BY DEF ZeroStats, Stats
  <1>2. queue \in [PoolIds -> Seq(Fibers)]
    BY EmptySeq DEF Init
  <1>3. /\ pc \in [Fibers -> PCs] /\ pool \in [Fibers -> PoolIds \cup {None}]
        /\ conn \in [Fibers -> ConnIds \cup {None}] /\ ops \in [Fibers -> 0 .. MaxOps]
    BY BoundAssumption DEF Init, PCs
  <1>4. /\ holder \in [PoolIds -> Fibers \cup {NoFiber}]
        /\ poisoned \in [PoolIds -> BOOLEAN]
        /\ connections \in [PoolIds -> SUBSET ConnIds]
    BY DEF Init
  <1>8. stats \in [PoolIds -> Stats]
    <2>1. stats = [p \in PoolIds |-> ZeroStats]
      BY DEF Init
    <2> HIDE DEF ZeroStats
    <2> QED
      BY <1>1, <2>1
  <1>5. /\ made \in 0 .. MaxPools /\ table \in 0 .. made /\ created \in 0 .. MaxCreated
        /\ shut \in BOOLEAN
    <2>1. made = 0 /\ table = 0 /\ created = 0 /\ shut = FALSE
      BY DEF Init, None
    <2>2. MaxPools \in Nat /\ MaxCreated \in Nat
      BY BoundAssumption
    <2>3. 0 \in 0 .. MaxPools /\ 0 \in 0 .. 0 /\ 0 \in 0 .. MaxCreated
      BY <2>2
    <2> QED
      BY <2>1, <2>3
  <1>6. /\ users \in [ConnIds -> Nat] /\ uses \in [ConnIds -> Nat]
        /\ closed \in [ConnIds -> BOOLEAN] /\ flow \in [ConnIds -> BOOLEAN]
        /\ stale \in [ConnIds -> SUBSET StaleKinds] /\ hooked \in [ConnIds -> BOOLEAN]
    BY DEF Init
  <1>7. Placed
    BY DEF Init, Placed, Using
  <1> QED
    BY <1>2, <1>3, <1>4, <1>5, <1>6, <1>7, <1>8 DEF TypeOK

\* Every step of the pool keeps its types and what its fibers refer to.
LEMMA TypeStep ==
    ASSUME TypeOK, Placed, [Next]_vars
    PROVE  TypeOK' /\ Placed'
  <1> USE ConfigAssumption, BoundAssumption
  <1>0. MutexType
    BY DEF TypeOK, MutexType
  <1>1. ASSUME NEW f \in Fibers, StartAcquire(f) PROVE TypeOK' /\ Placed'
    <2>0. PICK p \in PoolIds :
             /\ pc' = [pc EXCEPT ![f] = "lockAcquire"] /\ pool' = [pool EXCEPT ![f] = p]
             \/ UNCHANGED <<pc, pool>>
      <3> DEFINE p == IF table = None THEN made + 1 ELSE table
      <3>1. p \in PoolIds
        BY <1>1 DEF TypeOK, StartAcquire, PoolIds
      <3>2. \/ pc' = [pc EXCEPT ![f] = "lockAcquire"] /\ pool' = [pool EXCEPT ![f] = p]
            \/ UNCHANGED <<pc, pool>>
        BY <1>1 DEF StartAcquire
      <3> HIDE DEF p
      <3> QED
        BY <3>1, <3>2
    <2>1. MutexType'
      BY <1>0, <1>1, MutexTypes DEF StartAcquire, mutexVars
    <2>2. pc' \in [Fibers -> PCs]
      BY <1>1, <2>0 DEF TypeOK, PCs, StartAcquire, ConnIds, PoolIds
    <2>3. pool' \in [Fibers -> PoolIds \cup {None}]
      BY <1>1, <2>0 DEF TypeOK, PCs, StartAcquire, ConnIds, PoolIds
    <2>4. ops' \in [Fibers -> 0 .. MaxOps]
      BY <1>1, <2>0 DEF TypeOK, PCs, StartAcquire, ConnIds, PoolIds
    <2>5. made' \in 0 .. MaxPools /\ table' \in 0 .. made'
      BY <1>1, <2>0 DEF TypeOK, PCs, StartAcquire, ConnIds, PoolIds
    <2>6. Placed'
      BY <1>1, <2>0 DEF TypeOK, Placed, Using, StartAcquire
    <2> QED
      BY <1>1, <2>1, <2>2, <2>3, <2>4, <2>5, <2>6 DEF TypeOK, MutexType, StartAcquire, fiberVars, connVars, mutexVars
  <1>2. ASSUME NEW f \in Fibers, AcquireReuse(f) PROVE TypeOK' /\ Placed'
    <2>0. pool[f] \in PoolIds
      BY <1>2 DEF AcquireReuse, Inside, Placed
    <2>1. PICK c \in Newest(Available(pool[f])) :
             /\ users' = [users EXCEPT ![c] = @ + 1]
             /\ uses' = [uses EXCEPT ![c] = @ + 1]
             /\ stale' = [stale EXCEPT ![c] = @ \ {"idle"}]
             /\ stats' = [stats EXCEPT ![pool[f]] = StatsReused(@, users[c] = 0)]
             /\ HandOver(f, c)
      BY <1>2 DEF AcquireReuse
    <2>2. c \in ConnIds
      BY <2>0 DEF Newest, Available, Open, TypeOK
    <2>3. MutexType'
      BY <1>0, <1>2, MutexTypes DEF AcquireReuse, HandOver, mutexVars
    <2>4. pc' \in [Fibers -> PCs]
      BY <2>0, <2>1, <2>2 DEF TypeOK, PCs, HandOver
    <2>5. conn' \in [Fibers -> ConnIds \cup {None}]
      BY <2>0, <2>1, <2>2 DEF TypeOK, PCs, HandOver
    <2>6. connections' \in [PoolIds -> SUBSET ConnIds]
      BY <1>2, <2>0, <2>1, <2>2 DEF TypeOK, AcquireReuse, Open, MarkClosed
    <2>7. stats' \in [PoolIds -> Stats]
      BY <2>0, <2>1, <2>2, StatsTypes DEF TypeOK
    <2>8. users' \in [ConnIds -> Nat]
      BY <2>0, <2>1, <2>2 DEF TypeOK
    <2>9. uses' \in [ConnIds -> Nat]
      BY <2>0, <2>1, <2>2 DEF TypeOK
    <2>10. closed' \in [ConnIds -> BOOLEAN]
      BY <1>2, <2>0, <2>1, <2>2 DEF TypeOK, AcquireReuse, Open, MarkClosed
    <2>11. stale' \in [ConnIds -> SUBSET StaleKinds]
      BY <2>0, <2>1, <2>2 DEF TypeOK
    <2>12. Placed'
      BY <1>2, <2>0, <2>1, <2>2 DEF TypeOK, Placed, Using, AcquireReuse, HandOver
    <2> QED
      BY <1>2, <2>3, <2>4, <2>5, <2>6, <2>7, <2>8, <2>9, <2>10, <2>11, <2>12 DEF TypeOK, MutexType, AcquireReuse, HandOver, fiberVars, connVars, mutexVars
  <1>3. ASSUME NEW f \in Fibers, AcquireConnect(f) PROVE TypeOK' /\ Placed'
    <2>0. pool[f] \in PoolIds
      BY <1>3 DEF AcquireConnect, Inside, Placed
    <2>1. MutexType'
      BY <1>0, <1>3, MutexTypes DEF AcquireConnect, mutexVars
    <2>2. pc' \in [Fibers -> PCs]
      BY <1>3, <2>0 DEF TypeOK, PCs, AcquireConnect, Open, MarkClosed
    <2>3. connections' \in [PoolIds -> SUBSET ConnIds]
      BY <1>3, <2>0 DEF TypeOK, PCs, AcquireConnect, Open, MarkClosed
    <2>4. closed' \in [ConnIds -> BOOLEAN]
      BY <1>3, <2>0 DEF TypeOK, PCs, AcquireConnect, Open, MarkClosed
    <2>5. Placed'
      BY <1>3, <2>0 DEF TypeOK, Placed, Using, AcquireConnect
    <2> QED
      BY <1>3, <2>1, <2>2, <2>3, <2>4, <2>5 DEF TypeOK, MutexType, AcquireConnect, fiberVars, connVars, mutexVars
  <1>4. ASSUME NEW f \in Fibers, AcquireAtLimit(f) PROVE TypeOK' /\ Placed'
    <2>0. pool[f] \in PoolIds
      BY <1>4 DEF AcquireAtLimit, Inside, Placed
    <2>1. PICK c \in Newest(Open(pool[f])) :
             \/ /\ queue' = [queue EXCEPT ![pool[f]] = Append(@, f)]
                /\ pc' = [pc EXCEPT ![f] = "relock"]
                /\ UNCHANGED conn
             \/ /\ pc' = [pc EXCEPT ![f] = "awaitUser"]
                /\ conn' = [conn EXCEPT ![f] = c]
                /\ UNCHANGED queue
      BY <1>4 DEF AcquireAtLimit
    <2>2. c \in ConnIds
      BY <2>0 DEF Newest, Open, TypeOK
    <2>3. pc' \in [Fibers -> PCs]
      BY <2>0, <2>1, <2>2 DEF TypeOK, PCs
    <2>4. conn' \in [Fibers -> ConnIds \cup {None}]
      BY <2>0, <2>1, <2>2 DEF TypeOK, PCs
    <2>5. connections' \in [PoolIds -> SUBSET ConnIds]
      BY <1>4, <2>0, <2>1, <2>2 DEF TypeOK, PCs, AcquireAtLimit, Open, MarkClosed
    <2>6. closed' \in [ConnIds -> BOOLEAN]
      BY <1>4, <2>0, <2>1, <2>2 DEF TypeOK, PCs, AcquireAtLimit, Open, MarkClosed
    <2>7. queue' \in [PoolIds -> Seq(Fibers)]
      <3>1. Append(queue[pool[f]], f) \in Seq(Fibers)
        BY <2>0, AppendProperties DEF TypeOK
      <3>2. CASE queue' = [queue EXCEPT ![pool[f]] = Append(@, f)]
        BY <3>1, <3>2, <2>0 DEF TypeOK
      <3>3. CASE UNCHANGED queue
        BY <3>3 DEF TypeOK
      <3> QED
        BY <2>1, <3>2, <3>3
    <2>8. Placed'
      BY <1>4, <2>0, <2>1, <2>2 DEF TypeOK, Placed, Using, AcquireAtLimit
    <2> QED
      BY <1>4, <2>3, <2>4, <2>5, <2>6, <2>7, <2>8 DEF TypeOK, MutexType, AcquireAtLimit, fiberVars, connVars, mutexVars
  <1>5. ASSUME NEW f \in Fibers, CreateSucceeds(f) PROVE TypeOK' /\ Placed'
    <2>0. pool[f] \in PoolIds
      BY <1>5 DEF CreateSucceeds, Inside, Placed
    <2>1. MutexType'
      BY <1>0, <1>5, MutexTypes DEF CreateSucceeds, HandOver, mutexVars
    <2>2. pc' \in [Fibers -> PCs]
      BY <1>5, <2>0 DEF TypeOK, PCs, CreateSucceeds, HandOver, ConnIds
    <2>3. conn' \in [Fibers -> ConnIds \cup {None}]
      BY <1>5, <2>0 DEF TypeOK, PCs, CreateSucceeds, HandOver, ConnIds
    <2>4. connections' \in [PoolIds -> SUBSET ConnIds]
      BY <1>5, <2>0 DEF TypeOK, PCs, CreateSucceeds, HandOver, ConnIds
    <2>5. stats' \in [PoolIds -> Stats]
      BY <1>5, <2>0, StatsTypes DEF TypeOK, PCs, CreateSucceeds, HandOver, ConnIds
    <2>6. created' \in 0 .. MaxCreated
      BY <1>5, <2>0 DEF TypeOK, PCs, CreateSucceeds, HandOver, ConnIds
    <2>7. users' \in [ConnIds -> Nat]
      BY <1>5, <2>0 DEF TypeOK, PCs, CreateSucceeds, HandOver, ConnIds
    <2>8. flow' \in [ConnIds -> BOOLEAN]
      BY <1>5, <2>0 DEF TypeOK, PCs, CreateSucceeds, HandOver, ConnIds
    <2>9. Placed'
      BY <1>5, <2>0 DEF TypeOK, Placed, Using, CreateSucceeds, HandOver, ConnIds
    <2> QED
      BY <1>5, <2>1, <2>2, <2>3, <2>4, <2>5, <2>6, <2>7, <2>8, <2>9 DEF TypeOK, MutexType, CreateSucceeds, HandOver, fiberVars, connVars, mutexVars
  <1>6. ASSUME NEW f \in Fibers, CreateFails(f) PROVE TypeOK' /\ Placed'
    <2>0. pool[f] \in PoolIds
      BY <1>6 DEF CreateFails, Inside, Placed
    <2>1. MutexType'
      BY <1>0, <1>6, MutexTypes DEF CreateFails, mutexVars
    <2>2. pc' \in [Fibers -> PCs]
      BY <1>6, <2>0 DEF TypeOK, PCs, CreateFails, ConnIds
    <2>3. conn' \in [Fibers -> ConnIds \cup {None}]
      BY <1>6, <2>0 DEF TypeOK, PCs, CreateFails, ConnIds
    <2>4. created' \in 0 .. MaxCreated
      <3>1. created' = created \/ (created < MaxCreated /\ created' = created + 1)
        BY <1>6 DEF CreateFails
      <3> QED
        BY <3>1, BoundAssumption DEF TypeOK
    <2>5. flow' \in [ConnIds -> BOOLEAN]
      <3>1. (\E x : flow' = [flow EXCEPT ![x] = TRUE]) \/ flow' = flow
        BY <1>6 DEF CreateFails
      <3> QED
        BY <3>1 DEF TypeOK
    <2>6. Placed'
      BY <1>6, <2>0 DEF TypeOK, Placed, Using, CreateFails
    <2> QED
      BY <1>6, <2>1, <2>2, <2>3, <2>4, <2>5, <2>6 DEF TypeOK, MutexType, CreateFails, fiberVars, connVars, mutexVars
  <1>7. ASSUME NEW f \in Fibers, StartRelease(f) PROVE TypeOK' /\ Placed'
    <2>0. pool[f] \in PoolIds
      BY <1>7 DEF StartRelease, Inside, Placed
    <2>1. MutexType'
      BY <1>0, <1>7, MutexTypes DEF StartRelease, mutexVars
    <2>2. pc' \in [Fibers -> PCs]
      <3>1. \/ pc' = [pc EXCEPT ![f] = "lockRelease"]
            \/ pc' = [pc EXCEPT ![f] = "idle"]
        BY <1>7 DEF StartRelease
      <3> QED
        BY <3>1 DEF TypeOK, PCs
    <2>3. conn' \in [Fibers -> ConnIds \cup {None}]
      BY <1>7, <2>0 DEF TypeOK, PCs, StartRelease
    <2>4. Placed'
      BY <1>7, <2>0 DEF TypeOK, Placed, Using, StartRelease
    <2> QED
      BY <1>7, <2>1, <2>2, <2>3, <2>4 DEF TypeOK, MutexType, StartRelease, fiberVars, connVars, mutexVars
  <1>8. ASSUME NEW f \in Fibers, Release(f) PROVE TypeOK' /\ Placed'
    <2>0. pool[f] \in PoolIds
      BY <1>8 DEF Release, Inside, Placed
    <2>1. MutexType'
      BY <1>0, <1>8, MutexTypes DEF Release, mutexVars
    <2>2. pc' \in [Fibers -> PCs]
      BY <1>8, <2>0 DEF TypeOK, PCs, Release, Retire, MarkClosed, Dec
    <2>3. conn' \in [Fibers -> ConnIds \cup {None}]
      BY <1>8, <2>0 DEF TypeOK, PCs, Release, Retire, MarkClosed, Dec
    <2> DEFINE left == Dec(users[conn[f]])
               becameIdle == users[conn[f]] > 0 /\ left = 0
               released == StatsReleased(stats[pool[f]], becameIdle)
               health == Health(conn[f], left)
    <2>c. conn[f] \in ConnIds
      BY <1>8 DEF Release, Inside, Placed, Using
    <2>4. connections' \in [PoolIds -> SUBSET ConnIds]
      <3>1. \/ connections' = connections
            \/ connections' = [connections EXCEPT ![pool[f]] = @ \ {conn[f]}]
        BY <1>8 DEF Release
      <3> QED
        BY <3>1, <2>0 DEF TypeOK
    <2>5. stats' \in [PoolIds -> Stats]
      <3>1. stats[pool[f]] \in Stats
        BY <2>0 DEF TypeOK
      <3>2. becameIdle \in BOOLEAN /\ (left = 0) \in BOOLEAN
        OBVIOUS
      <3>3. released \in Stats
        <4> HIDE DEF becameIdle
        <4> QED
          BY <3>1, <3>2, StatsTypes
      <3>4. StatsRetired(released, left = 0, health) \in Stats
        <4> DEFINE b == left = 0
        <4>1. b \in BOOLEAN
          OBVIOUS
        <4> HIDE DEF released, health, b
        <4>2. StatsRetired(released, b, health) \in Stats
          BY <3>3, <4>1, StatsTypes
        <4> QED
          BY <4>2 DEF b
      <3>5. \/ stats' = [stats EXCEPT ![pool[f]] = released]
            \/ stats' = [stats EXCEPT ![pool[f]] = StatsRetired(released, left = 0, health)]
        BY <1>8 DEF Release
      <3> DEFINE retired == StatsRetired(released, left = 0, health)
      <3>6. retired \in Stats
        BY <3>4
      <3>7. \/ stats' = [stats EXCEPT ![pool[f]] = released]
            \/ stats' = [stats EXCEPT ![pool[f]] = retired]
        BY <3>5
      <3> HIDE DEF released, retired
      <3> QED
        BY <2>0, <3>3, <3>6, <3>7 DEF TypeOK
    <2>6. users' \in [ConnIds -> Nat]
      <3>1. left \in Nat
        BY <2>c DEF TypeOK, Dec
      <3>2. users' = [users EXCEPT ![conn[f]] = left]
        BY <1>8 DEF Release
      <3> HIDE DEF left
      <3> QED
        BY <3>1, <3>2, <2>c DEF TypeOK
    <2>7. closed' \in [ConnIds -> BOOLEAN]
      <3>1. \/ closed' = closed
            \/ closed' = [c \in ConnIds |-> closed[c] \/ c \in {conn[f]}]
        BY <1>8 DEF Release, Retire, MarkClosed
      <3>2. CASE closed' = closed
        BY <3>2 DEF TypeOK
      <3>3. CASE closed' = [c \in ConnIds |-> closed[c] \/ c \in {conn[f]}]
        BY <3>3, Zenon
      <3> QED
        BY <3>1, <3>2, <3>3
    <2>8. Placed'
      BY <1>8, <2>0 DEF TypeOK, Placed, Using, Release
    <2> QED
      BY <1>8, <2>1, <2>2, <2>3, <2>4, <2>5, <2>6, <2>7, <2>8 DEF TypeOK, MutexType, Release, Retire, MarkClosed, fiberVars, connVars, mutexVars
  <1>9. ASSUME NEW f \in Fibers, StartClear(f) PROVE TypeOK' /\ Placed'
    <2>0. table \in PoolIds
      BY <1>9 DEF TypeOK, StartClear, PoolIds
    <2>1. MutexType'
      BY <1>0, <1>9, MutexTypes DEF StartClear, mutexVars
    <2>2. pc' \in [Fibers -> PCs]
      <3>1. pc' = pc \/ pc' = [pc EXCEPT ![f] = "lockClear"]
        BY <1>9 DEF StartClear
      <3> QED
        BY <3>1 DEF TypeOK, PCs
    <2>3. pool' \in [Fibers -> PoolIds \cup {None}]
      <3>1. pool' = pool \/ pool' = [pool EXCEPT ![f] = table]
        BY <1>9 DEF StartClear
      <3> QED
        BY <2>0, <3>1 DEF TypeOK
    <2>4. ops' \in [Fibers -> 0 .. MaxOps]
      <3>1. ops[f] < MaxOps /\ ops' = [ops EXCEPT ![f] = @ + 1]
        BY <1>9 DEF StartClear
      <3> QED
        BY <3>1, BoundAssumption DEF TypeOK
    <2>5. Placed'
      BY <1>9, <2>0 DEF TypeOK, Placed, Using, StartClear
    <2> QED
      BY <1>9, <2>1, <2>2, <2>3, <2>4, <2>5 DEF TypeOK, MutexType, StartClear, fiberVars, connVars, mutexVars
  <1>10. ASSUME NEW f \in Fibers, Clear(f) PROVE TypeOK' /\ Placed'
    <2>0. pool[f] \in PoolIds
      BY <1>10 DEF Clear, Inside, Placed
    <2>1. MutexType'
      BY <1>0, <1>10, MutexTypes DEF Clear, mutexVars
    <2>2. pc' \in [Fibers -> PCs]
      BY <1>10, <2>0 DEF TypeOK, PCs, Clear, CloseAll, MarkClosed
    <2>3. connections' \in [PoolIds -> SUBSET ConnIds]
      BY <1>10, <2>0 DEF TypeOK, PCs, Clear, CloseAll, MarkClosed
    <2>4. made' \in 0 .. MaxPools /\ table' \in 0 .. made'
      BY <1>10, <2>0 DEF TypeOK, PCs, Clear, CloseAll, MarkClosed
    <2>5. closed' \in [ConnIds -> BOOLEAN]
      BY <1>10, <2>0 DEF TypeOK, PCs, Clear, CloseAll, MarkClosed
    <2>6. flow' \in [ConnIds -> BOOLEAN]
      BY <1>10, <2>0 DEF TypeOK, PCs, Clear, CloseAll, MarkClosed
    <2>7. hooked' \in [ConnIds -> BOOLEAN]
      BY <1>10, <2>0 DEF TypeOK, PCs, Clear, CloseAll, MarkClosed
    <2>8. Placed'
      BY <1>10, <2>0 DEF TypeOK, Placed, Using, Clear
    <2> QED
      BY <1>10, <2>1, <2>2, <2>3, <2>4, <2>5, <2>6, <2>7, <2>8 DEF TypeOK, MutexType, Clear, fiberVars, connVars, mutexVars
  <1>11. ASSUME NEW f \in Fibers, CancelLock(f) PROVE TypeOK' /\ Placed'
    <2>0. pool[f] \in PoolIds
      BY <1>11 DEF CancelLock, Inside, Placed
    <2>1. pc' \in [Fibers -> PCs]
      BY <1>11, <2>0 DEF TypeOK, PCs, CancelLock
    <2>2. queue' \in [PoolIds -> Seq(Fibers)]
      BY <1>11, <2>0, RemoveAtType DEF TypeOK, PCs, CancelLock
    <2>3. Placed'
      BY <1>11, <2>0 DEF TypeOK, Placed, Using, CancelLock
    <2> QED
      BY <1>11, <2>1, <2>2, <2>3 DEF TypeOK, MutexType, CancelLock, fiberVars, connVars, mutexVars
  <1>12. ASSUME NEW c \in ConnIds, NEW why \in StaleKinds, GoStale(c, why)
        PROVE  TypeOK' /\ Placed'
    BY <1>12 DEF TypeOK, Placed, Using, GoStale, fiberVars, mutexVars
  <1>13. ASSUME Shutdown PROVE TypeOK' /\ Placed'
    BY <1>13 DEF TypeOK, Placed, Using, Shutdown, MarkClosed, fiberVars, mutexVars
  <1>14. ASSUME UNCHANGED vars PROVE TypeOK' /\ Placed'
    BY <1>14 DEF TypeOK, Placed, Using, vars, fiberVars, mutexVars, connVars
  <1> QED
    BY <1>1, <1>2, <1>3, <1>4, <1>5, <1>6, <1>7, <1>8, <1>9, <1>10, <1>11, <1>12, <1>13, <1>14 DEF Next

\* Every value the pool keeps stays in its domain, whatever the limits and
\* however the fibers, the connects and the faults interleave: the counters
\* never go below zero and no fiber runs a step of the pool without one.
THEOREM TypeCorrect == Spec => [](TypeOK /\ Placed)
  <1>1. Init => TypeOK /\ Placed
    BY InitType
  <1>2. TypeOK /\ Placed /\ [Next]_vars => TypeOK' /\ Placed'
    BY TypeStep
  <1> QED
    BY <1>1, <1>2, PTL DEF Spec

----------------------------------------------------------------------------
(* Mutual exclusion.                                                          *)

\* No step takes the ep_mutex from a fiber suspended in its critical section.
LEMMA OwnedStep ==
    ASSUME TypeOK, Placed, CriticalSectionOwned, [Next]_vars
    PROVE  CriticalSectionOwned'
  <1> USE BoundAssumption DEF CriticalSectionOwned, TypeOK, Placed, Using
  <1>1. ASSUME NEW f \in Fibers, StartAcquire(f) PROVE CriticalSectionOwned'
    BY <1>1 DEF StartAcquire, Lock, mutexVars
  <1>2. ASSUME NEW f \in Fibers, AcquireReuse(f) PROVE CriticalSectionOwned'
    BY <1>2 DEF AcquireReuse, Inside, HandOver, Unlock
  <1>3. ASSUME NEW f \in Fibers, AcquireConnect(f) PROVE CriticalSectionOwned'
    BY <1>3 DEF AcquireConnect, Inside, mutexVars
  <1>4. ASSUME NEW f \in Fibers, AcquireAtLimit(f) PROVE CriticalSectionOwned'
    BY <1>4 DEF AcquireAtLimit, Inside
  <1>5. ASSUME NEW f \in Fibers, CreateSucceeds(f) PROVE CriticalSectionOwned'
    BY <1>5 DEF CreateSucceeds, HandOver, Unlock
  <1>6. ASSUME NEW f \in Fibers, CreateFails(f) PROVE CriticalSectionOwned'
    BY <1>6 DEF CreateFails, Poison
  <1>7. ASSUME NEW f \in Fibers, StartRelease(f) PROVE CriticalSectionOwned'
    BY <1>7 DEF StartRelease, Lock, mutexVars
  <1>8. ASSUME NEW f \in Fibers, Release(f) PROVE CriticalSectionOwned'
    BY <1>8 DEF Release, Inside, Unlock
  <1>9. ASSUME NEW f \in Fibers, StartClear(f) PROVE CriticalSectionOwned'
    BY <1>9 DEF StartClear, Lock, mutexVars
  <1>10. ASSUME NEW f \in Fibers, Clear(f) PROVE CriticalSectionOwned'
    BY <1>10 DEF Clear, Inside, Unlock
  <1>11. ASSUME NEW f \in Fibers, CancelLock(f) PROVE CriticalSectionOwned'
    BY <1>11 DEF CancelLock
  <1>12. ASSUME NEW c \in ConnIds, NEW why \in StaleKinds, GoStale(c, why)
        PROVE  CriticalSectionOwned'
    BY <1>12 DEF GoStale, fiberVars, mutexVars
  <1>13. ASSUME Shutdown PROVE CriticalSectionOwned'
    BY <1>13 DEF Shutdown, fiberVars, mutexVars
  <1>14. ASSUME UNCHANGED vars PROVE CriticalSectionOwned'
    BY <1>14 DEF vars, fiberVars, mutexVars
  <1> QED
    BY <1>1, <1>2, <1>3, <1>4, <1>5, <1>6, <1>7, <1>8, <1>9, <1>10, <1>11,
       <1>12, <1>13, <1>14 DEF Next
----------------------------------------------------------------------------
(* Which pool a connection belongs to.                                        *)

ListedCreated == \A p \in PoolIds : \A c \in connections[p] : c <= created

OneHome ==
    \A p, q \in PoolIds : \A c \in connections[p] : c \in connections[q] => p = q

HeldCreated == \A f \in Fibers : Using(f) => conn[f] <= created

HeldAtHome ==
    \A f \in Fibers, p \in PoolIds :
        Using(f) /\ conn[f] \in connections[p] => p = pool[f]

FreshUntouched ==
    \A c \in ConnIds : c > created => ~closed[c] /\ stale[c] = {}

\* A connection is listed by at most one pool, the pool its users came from;
\* a number not yet given to a socket is mentioned nowhere.
Numbered == ListedCreated /\ OneHome /\ HeldCreated /\ HeldAtHome /\ FreshUntouched

\* A connection that a step marks closed or stale has been created.
FreshKept ==
    \A d \in ConnIds : /\ closed'[d] => closed[d] \/ d <= created
                       /\ stale'[d] = stale[d] \/ d <= created

\* A step that lists nothing, lends nothing, and touches no fresh connection.
LEMMA NumberedKept ==
    ASSUME TypeOK, TypeOK', Numbered, created' >= created,
           \A p \in PoolIds : connections'[p] \subseteq connections[p],
           \A g \in Fibers : Using(g)' => /\ Using(g) /\ conn'[g] = conn[g]
                                          /\ pool'[g] = pool[g],
           FreshKept
    PROVE  Numbered'
  <1>0. /\ created \in Nat /\ created' \in Nat
        /\ \A p \in PoolIds : connections[p] \subseteq ConnIds
        /\ \A d \in ConnIds : d \in Nat
    BY DEF TypeOK, ConnIds
  <1>n. \A g \in Fibers : conn[g] \in Nat
    <2>1. conn \in [Fibers -> ConnIds \cup {0}]
      BY DEF TypeOK, None
    <2> QED
      BY <1>0, <2>1
  <1>1. ListedCreated'
    <2> SUFFICES ASSUME NEW p \in PoolIds, NEW c \in connections'[p] PROVE c <= created'
      BY DEF ListedCreated
    <2>1. c \in connections[p]
      OBVIOUS
    <2>2. c \in Nat /\ c <= created
      BY <1>0, <2>1 DEF Numbered, ListedCreated
    <2> QED
      BY <1>0, <2>2
  <1>2. OneHome'
    BY DEF Numbered, OneHome
  <1>3. HeldCreated'
    <2> SUFFICES ASSUME NEW g \in Fibers, Using(g)' PROVE conn'[g] <= created'
      BY DEF HeldCreated
    <2>1. conn'[g] = conn[g] /\ conn[g] <= created
      BY DEF Numbered, HeldCreated
    <2>2. conn[g] \in Nat
      BY <1>n
    <2> QED
      BY <1>0, <2>1, <2>2
  <1>4. HeldAtHome'
    BY DEF Numbered, HeldAtHome
  <1>5. FreshUntouched'
    <2> SUFFICES ASSUME NEW c \in ConnIds, c > created'
                 PROVE  ~closed'[c] /\ stale'[c] = {}
      BY DEF FreshUntouched
    <2>1. c > created /\ ~(c <= created)
      BY <1>0
    <2>2. ~closed[c] /\ stale[c] = {}
      BY <2>1 DEF Numbered, FreshUntouched
    <2> QED
      BY <2>1, <2>2 DEF FreshKept
  <1> QED
    BY <1>1, <1>2, <1>3, <1>4, <1>5 DEF Numbered

\* The users of a connection came from one pool,
LentBy(d, p) == \A g \in Fibers : Using(g) /\ conn[g] = d => pool[g] = p

\* and no other pool is going to list it.
ListedOnlyBy(d, p) ==
    \A q \in PoolIds : /\ d \in connections'[q] => q = p
                       /\ connections'[q] \ {d} \subseteq connections[q]

\* A fiber is lent a connection of its pool that no other pool lists or lends.
LEMMA NumberedLent ==
    ASSUME TypeOK, TypeOK', Numbered, NEW f \in Fibers, NEW d \in ConnIds,
           NEW p \in PoolIds, pool[f] = p, pool' = pool,
           conn' = [conn EXCEPT ![f] = d], pc' = [pc EXCEPT ![f] = "use"],
           created' >= created, d <= created',
           ListedOnlyBy(d, p), LentBy(d, p), FreshKept
    PROVE  Numbered'
  <1> USE DEF ListedOnlyBy, LentBy
  <1>0. /\ created \in Nat /\ created' \in Nat
        /\ \A q \in PoolIds : connections'[q] \subseteq ConnIds
        /\ \A c \in ConnIds : c \in Nat
    BY DEF TypeOK, ConnIds
  <1>n. \A g \in Fibers : conn[g] \in Nat
    <2>1. conn \in [Fibers -> ConnIds \cup {0}]
      BY DEF TypeOK, None
    <2> QED
      BY <1>0, <2>1
  <1>1. ListedCreated'
    <2> SUFFICES ASSUME NEW q \in PoolIds, NEW c \in connections'[q] PROVE c <= created'
      BY DEF ListedCreated
    <2>1. CASE c = d
      BY <2>1
    <2>2. CASE c # d
      <3>1. c \in connections[q] /\ c \in Nat
        BY <1>0, <2>2
      <3>2. c <= created
        BY <3>1 DEF Numbered, ListedCreated
      <3> QED
        BY <1>0, <3>1, <3>2
    <2> QED
      BY <2>1, <2>2
  <1>2. OneHome'
    BY DEF Numbered, OneHome
  <1>e. /\ conn'[f] = d
        /\ \A g \in Fibers : g # f => conn'[g] = conn[g] /\ (Using(g)' <=> Using(g))
    BY DEF TypeOK, Using
  <1>3. HeldCreated'
    <2> SUFFICES ASSUME NEW g \in Fibers, Using(g)' PROVE conn'[g] <= created'
      BY DEF HeldCreated
    <2>1. CASE g = f
      BY <1>e, <2>1
    <2>2. CASE g # f
      <3>1. conn'[g] = conn[g] /\ conn[g] <= created
        BY <1>e, <2>2 DEF Numbered, HeldCreated
      <3>2. conn[g] \in Nat
        BY <1>n
      <3> QED
        BY <1>0, <3>1, <3>2
    <2> QED
      BY <2>1, <2>2
  <1>4. HeldAtHome'
    <2> SUFFICES ASSUME NEW g \in Fibers, NEW q \in PoolIds, Using(g)',
                        conn'[g] \in connections'[q]
                 PROVE  q = pool'[g]
      BY DEF HeldAtHome
    <2>1. CASE g = f
      BY <1>e, <2>1
    <2>2. CASE g # f /\ conn[g] = d
      BY <1>e, <2>2
    <2>3. CASE g # f /\ conn[g] # d
      BY <1>e, <2>3 DEF Numbered, HeldAtHome
    <2> QED
      BY <2>1, <2>2, <2>3
  <1>5. FreshUntouched'
    <2> SUFFICES ASSUME NEW c \in ConnIds, c > created'
                 PROVE  ~closed'[c] /\ stale'[c] = {}
      BY DEF FreshUntouched
    <2>1. c > created /\ ~(c <= created)
      BY <1>0
    <2>2. ~closed[c] /\ stale[c] = {}
      BY <2>1 DEF Numbered, FreshUntouched
    <2> QED
      BY <2>1, <2>2 DEF FreshKept
  <1> QED
    BY <1>1, <1>2, <1>3, <1>4, <1>5 DEF Numbered

\* Every step keeps connections in their pool and fresh numbers unused.
LEMMA NumberedStep ==
    ASSUME TypeOK, Placed, Numbered, [Next]_vars
    PROVE  Numbered'
  <1>t. TypeOK'
    BY TypeStep
  <1>c. /\ created \in Nat
        /\ \A p \in PoolIds : \A c \in connections[p] : c \in ConnIds /\ c <= created
    BY DEF TypeOK, Numbered, ListedCreated
  <1> DEFINE Lists == \A p \in PoolIds : connections'[p] \subseteq connections[p]
             Lends == \A g \in Fibers : Using(g)' => /\ Using(g) /\ conn'[g] = conn[g]
                                                     /\ pool'[g] = pool[g]
  <1>k. ASSUME created' >= created, Lists, Lends, FreshKept PROVE Numbered'
    BY <1>k, <1>t, NumberedKept
  <1>1. ASSUME NEW f \in Fibers, StartAcquire(f) PROVE Numbered'
    <2>1. /\ created' = created /\ connections' = connections /\ conn' = conn
          /\ closed' = closed /\ stale' = stale
      BY <1>1 DEF StartAcquire, connVars
    <2>2. Lends
      <3>1. /\ pc[f] = "idle"
            /\ \/ pc' = pc /\ pool' = pool
               \/ /\ pc' = [pc EXCEPT ![f] = "lockAcquire"]
                  /\ \A g \in Fibers : g # f => pool'[g] = pool[g]
        BY <1>1 DEF StartAcquire, TypeOK
      <3> QED
        BY <2>1, <3>1 DEF Using, TypeOK
    <2> QED
      BY <1>c, <1>k, <2>1, <2>2 DEF FreshKept
  <1>2. ASSUME NEW f \in Fibers, AcquireReuse(f) PROVE Numbered'
    <2>0. pool[f] \in PoolIds
      BY <1>2 DEF AcquireReuse, Inside, Placed
    <2>p. PICK p \in PoolIds : p = pool[f]
      BY <2>0
    <2>1. PICK c \in Available(p) :
             /\ stale' = [stale EXCEPT ![c] = @ \ {"idle"}]
             /\ conn' = [conn EXCEPT ![f] = c]
             /\ pc' = [pc EXCEPT ![f] = "use"]
             /\ UNCHANGED pool
      BY <1>2, <2>p DEF AcquireReuse, HandOver, Newest
    <2>2. c \in connections[p] /\ c \in ConnIds /\ c <= created
      BY <1>c, <2>1 DEF Available, Open
    <2>3. /\ created' = created /\ connections' = [connections EXCEPT ![p] = Open(p)]
          /\ MarkClosed(Passed(p))
      BY <1>2, <2>p DEF AcquireReuse
    <2>4. \A q \in PoolIds : connections'[q] \subseteq connections[q]
      BY <2>3 DEF Open, TypeOK
    <2>5. FreshKept
      <3> SUFFICES ASSUME NEW d \in ConnIds
                   PROVE  /\ closed'[d] => closed[d] \/ d <= created
                          /\ stale'[d] = stale[d] \/ d <= created
        BY DEF FreshKept
      <3>1. closed'[d] => closed[d] \/ d <= created
        BY <1>c, <2>3 DEF MarkClosed, Passed, Open
      <3>2. stale'[d] = stale[d] \/ d = c
        BY <2>1 DEF TypeOK
      <3> QED
        BY <2>2, <3>1, <3>2
    <2>6. \A q \in PoolIds : c \in connections'[q] => q = p
      BY <2>2, <2>4 DEF Numbered, OneHome
    <2>7. LentBy(c, p)
      BY <2>2 DEF Numbered, HeldAtHome, LentBy
    <2>8. created' >= created /\ c <= created'
      BY <1>c, <2>2, <2>3
    <2>9. ListedOnlyBy(c, p)
      BY <2>4, <2>6 DEF ListedOnlyBy
    <2>10. /\ c \in ConnIds /\ pool[f] = p /\ pool' = pool
           /\ conn' = [conn EXCEPT ![f] = c] /\ pc' = [pc EXCEPT ![f] = "use"]
      BY <2>p, <2>1, <2>2
    <2> QED
      BY <1>t, <2>5, <2>7, <2>8, <2>9, <2>10, NumberedLent
  <1>3. ASSUME NEW f \in Fibers, AcquireConnect(f) PROVE Numbered'
    <2>1. /\ created' = created /\ pool' = pool /\ conn' = conn /\ stale' = stale
          /\ connections' = [connections EXCEPT ![pool[f]] = Open(pool[f])]
          /\ MarkClosed(Passed(pool[f])) /\ pool[f] \in PoolIds
          /\ pc' = [pc EXCEPT ![f] = "connect"]
      BY <1>3 DEF AcquireConnect, Inside, Placed
    <2>2. Lists
      BY <2>1 DEF Open, TypeOK
    <2>3. Lends
      BY <2>1 DEF Using, TypeOK
    <2>4. FreshKept
      BY <1>c, <2>1 DEF MarkClosed, Passed, Open, FreshKept
    <2> QED
      BY <1>c, <1>k, <2>1, <2>2, <2>3, <2>4
  <1>4. ASSUME NEW f \in Fibers, AcquireAtLimit(f) PROVE Numbered'
    <2>1. /\ created' = created /\ pool' = pool /\ stale' = stale
          /\ connections' = [connections EXCEPT ![pool[f]] = Open(pool[f])]
          /\ MarkClosed(Passed(pool[f])) /\ pool[f] \in PoolIds
          /\ \A g \in Fibers : g # f => conn'[g] = conn[g]
          /\ \E where \in {"relock", "awaitUser"} : pc' = [pc EXCEPT ![f] = where]
      BY <1>4 DEF AcquireAtLimit, Inside, Placed, TypeOK
    <2>2. Lists
      BY <2>1 DEF Open, TypeOK
    <2>3. Lends
      BY <2>1 DEF Using, TypeOK
    <2>4. FreshKept
      BY <1>c, <2>1 DEF MarkClosed, Passed, Open, FreshKept
    <2> QED
      BY <1>c, <1>k, <2>1, <2>2, <2>3, <2>4
  <1>5. ASSUME NEW f \in Fibers, CreateSucceeds(f) PROVE Numbered'
    <2>0. pool[f] \in PoolIds
      BY <1>5 DEF CreateSucceeds, Placed
    <2>p. PICK p, c : p \in PoolIds /\ p = pool[f] /\ c = created + 1
      BY <2>0
    <2>1. c \in ConnIds /\ c > created
      BY <1>5, <1>c, <2>p, BoundAssumption DEF CreateSucceeds, ConnIds
    <2>2. /\ conn' = [conn EXCEPT ![f] = c]
          /\ pc' = [pc EXCEPT ![f] = "use"]
          /\ connections' = [connections EXCEPT ![p] = @ \cup {c}]
          /\ created' = c /\ UNCHANGED <<pool, closed, stale>>
      BY <1>5, <2>p DEF CreateSucceeds, HandOver
    <2>3. \A q \in PoolIds : c \notin connections[q]
      <3> SUFFICES ASSUME NEW q \in PoolIds, c \in connections[q] PROVE FALSE
        OBVIOUS
      <3>1. c <= created
        BY <1>c
      <3> QED
        BY <1>c, <2>p, <3>1
    <2>4. ListedOnlyBy(c, p)
      BY <2>2, <2>3 DEF TypeOK, ListedOnlyBy
    <2>5. LentBy(c, p)
      <3> SUFFICES ASSUME NEW g \in Fibers, Using(g), conn[g] = c PROVE FALSE
        BY DEF LentBy
      <3>1. c <= created
        BY DEF Numbered, HeldCreated
      <3> QED
        BY <1>c, <2>p, <3>1
    <2>6. created' >= created /\ c <= created'
      BY <1>c, <2>p, <2>2
    <2> QED
      BY <1>t, <2>p, <2>1, <2>2, <2>4, <2>5, <2>6, NumberedLent DEF FreshKept
  <1>6. ASSUME NEW f \in Fibers, CreateFails(f) PROVE Numbered'
    <2>1. Lends
      BY <1>6 DEF CreateFails, Using
    <2>2. created' >= created
      BY <1>6, <1>c DEF CreateFails
    <2>3. /\ connections' = connections /\ closed' = closed /\ stale' = stale
      BY <1>6 DEF CreateFails
    <2> QED
      BY <1>k, <2>1, <2>2, <2>3 DEF FreshKept
  <1>7. ASSUME NEW f \in Fibers, StartRelease(f) PROVE Numbered'
    <2>1. /\ created' = created /\ connections' = connections /\ pool' = pool
          /\ closed' = closed /\ stale' = stale
      BY <1>7 DEF StartRelease, connVars
    <2>2. Lends
      BY <1>7 DEF StartRelease, Using, TypeOK
    <2> QED
      BY <1>c, <1>k, <2>1, <2>2 DEF FreshKept
  <1>8. ASSUME NEW f \in Fibers, Release(f) PROVE Numbered'
    <2>0. pool[f] \in PoolIds /\ Using(f) /\ conn[f] \in ConnIds
      BY <1>8 DEF Release, Inside, Placed, Using
    <2>1. Lends
      BY <1>8, <2>0 DEF Release, Using, TypeOK
    <2>2. created' = created /\ stale' = stale
      BY <1>8 DEF Release
    <2>3. \/ connections' = connections /\ closed' = closed
          \/ /\ connections' = [connections EXCEPT ![pool[f]] = @ \ {conn[f]}]
             /\ MarkClosed({conn[f]})
      BY <1>8 DEF Release, Retire
    <2>4. Lists
      <3>1. connections \in [PoolIds -> SUBSET ConnIds]
        BY DEF TypeOK
      <3> QED
        BY <2>3, <3>1
    <2>5. conn[f] <= created
      BY <2>0 DEF Numbered, HeldCreated
    <2>6. FreshKept
      BY <2>2, <2>3, <2>5 DEF MarkClosed, FreshKept
    <2> QED
      BY <1>c, <1>k, <2>1, <2>2, <2>4, <2>6
  <1>9. ASSUME NEW f \in Fibers, StartClear(f) PROVE Numbered'
    <2>1. /\ created' = created /\ connections' = connections /\ conn' = conn
          /\ closed' = closed /\ stale' = stale
      BY <1>9 DEF StartClear, connVars
    <2>2. Lends
      <3>1. /\ pc[f] = "idle"
            /\ \/ pc' = pc /\ pool' = pool
               \/ /\ pc' = [pc EXCEPT ![f] = "lockClear"]
                  /\ \A g \in Fibers : g # f => pool'[g] = pool[g]
        BY <1>9 DEF StartClear, TypeOK
      <3> QED
        BY <2>1, <3>1 DEF Using, TypeOK
    <2> QED
      BY <1>c, <1>k, <2>1, <2>2 DEF FreshKept
  <1>10. ASSUME NEW f \in Fibers, Clear(f) PROVE Numbered'
    <2>1. /\ created' = created /\ stale' = stale /\ pool' = pool /\ conn' = conn
          /\ CloseAll(connections[pool[f]]) /\ pool[f] \in PoolIds
          /\ connections' = [connections EXCEPT ![pool[f]] = {}]
          /\ pc' = [pc EXCEPT ![f] = "idle"]
      BY <1>10 DEF Clear, Inside, Placed
    <2>2. Lists
      BY <2>1 DEF TypeOK
    <2>3. Lends
      BY <2>1 DEF Using, TypeOK
    <2>4. FreshKept
      BY <1>c, <2>1 DEF CloseAll, MarkClosed, FreshKept
    <2> QED
      BY <1>c, <1>k, <2>1, <2>2, <2>3, <2>4
  <1>11. ASSUME NEW f \in Fibers, CancelLock(f) PROVE Numbered'
    <2>1. /\ created' = created /\ connections' = connections /\ conn' = conn
          /\ closed' = closed /\ stale' = stale /\ pool' = pool
          /\ pc' = [pc EXCEPT ![f] = "idle"]
      BY <1>11 DEF CancelLock, connVars
    <2>2. Lends
      BY <2>1 DEF Using, TypeOK
    <2> QED
      BY <1>c, <1>k, <2>1, <2>2 DEF FreshKept
  <1>12. ASSUME NEW c \in ConnIds, NEW why \in StaleKinds, GoStale(c, why)
        PROVE  Numbered'
    <2>1. PICK p \in PoolIds : c \in connections[p]
      BY <1>12 DEF GoStale
    <2>2. /\ UNCHANGED <<pc, conn, pool, created, connections, closed>>
          /\ stale' = [stale EXCEPT ![c] = @ \cup {why}]
      BY <1>12 DEF GoStale, fiberVars
    <2>3. FreshKept
      BY <1>c, <2>1, <2>2 DEF TypeOK, FreshKept
    <2> QED
      BY <1>c, <1>k, <2>2, <2>3 DEF Using
  <1>13. ASSUME Shutdown PROVE Numbered'
    <2>1. /\ created' = created /\ stale' = stale /\ connections' = connections
          /\ \A g \in Fibers : ~Using(g)'
      BY <1>13 DEF Shutdown, fiberVars, Using
    <2>2. FreshKept
      <3>1. table # None => table \in PoolIds
        BY BoundAssumption DEF TypeOK, PoolIds, None
      <3>2. \A d \in ConnIds : closed'[d] =>
               closed[d] \/ (table # None /\ d \in connections[table])
        BY <1>13 DEF Shutdown, MarkClosed
      <3> QED
        BY <1>c, <2>1, <3>1, <3>2 DEF FreshKept
    <2> QED
      BY <1>c, <1>k, <2>1, <2>2 DEF FreshKept
  <1>14. ASSUME UNCHANGED vars PROVE Numbered'
    <2>1. /\ created' = created /\ stale' = stale /\ connections' = connections
          /\ closed' = closed /\ conn' = conn /\ pc' = pc /\ pool' = pool
      BY <1>14 DEF vars, fiberVars, connVars
    <2> QED
      BY <1>c, <1>k, <2>1 DEF Using, FreshKept
  <1> QED
    BY <1>1, <1>2, <1>3, <1>4, <1>5, <1>6, <1>7, <1>8, <1>9, <1>10, <1>11,
       <1>12, <1>13, <1>14 DEF Next

\* Until the pool is shut, the sockets of the connections it still offers are
\* open; once it is shut, no fiber is inside.
Live ==
    /\ shut => \A f \in Fibers : pc[f] = "idle"
    /\ ~shut => \A p \in PoolIds : \A c \in connections[p] : closed[c] \/ flow[c]

\* No step closes the socket of a connection the pool still offers.
LEMMA LiveStep ==
    ASSUME TypeOK, Placed, Numbered, Live, [Next]_vars
    PROVE  Live'
  <1> USE BoundAssumption DEF TypeOK, Placed, Using, Numbered, ListedCreated, OneHome,
         Live, ConnIds, Open, Passed, Newest, Available
  <1>1. ASSUME NEW f \in Fibers, StartAcquire(f) PROVE Live'
    BY <1>1 DEF StartAcquire, Lock, mutexVars, connVars
  <1>2. ASSUME NEW f \in Fibers, AcquireReuse(f) PROVE Live'
    BY <1>2 DEF AcquireReuse, Inside, HandOver, Unlock, MarkClosed
  <1>3. ASSUME NEW f \in Fibers, AcquireConnect(f) PROVE Live'
    BY <1>3 DEF AcquireConnect, Inside, MarkClosed, mutexVars
  <1>4. ASSUME NEW f \in Fibers, AcquireAtLimit(f) PROVE Live'
    BY <1>4 DEF AcquireAtLimit, Inside, MarkClosed
  <1>5. ASSUME NEW f \in Fibers, CreateSucceeds(f) PROVE Live'
    <2>0. pool[f] \in PoolIds /\ created + 1 \in ConnIds
      BY <1>5 DEF CreateSucceeds
    <2>1. ~shut /\ ~shut'
      BY <1>5 DEF CreateSucceeds
    <2>2. \A p \in PoolIds : connections'[p] \subseteq connections[p] \cup {created + 1}
      BY <1>5, <2>0 DEF CreateSucceeds
    <2>3. /\ closed' = closed /\ flow'[created + 1]
          /\ \A c \in ConnIds : flow[c] => flow'[c]
      BY <1>5, <2>0 DEF CreateSucceeds
    <2> QED
      BY <2>1, <2>2, <2>3
  <1>6. ASSUME NEW f \in Fibers, CreateFails(f) PROVE Live'
    BY <1>6 DEF CreateFails, Poison
  <1>7. ASSUME NEW f \in Fibers, StartRelease(f) PROVE Live'
    BY <1>7 DEF StartRelease, Lock, mutexVars, connVars
  <1>8. ASSUME NEW f \in Fibers, Release(f) PROVE Live'
    <2>0. pool[f] \in PoolIds /\ Using(f) /\ conn[f] \in ConnIds
      BY <1>8 DEF Release, Inside
    <2>1. ~shut /\ ~shut'
      BY <1>8 DEF Release, Inside
    <2>r. \/ connections' = connections
          \/ connections' = [connections EXCEPT ![pool[f]] = @ \ {conn[f]}]
      BY <1>8 DEF Release
    <2>2. \A p \in PoolIds : connections'[p] \subseteq connections[p]
      <3> SUFFICES ASSUME NEW p \in PoolIds PROVE connections'[p] \subseteq connections[p]
        OBVIOUS
      <3>1. DOMAIN connections = PoolIds
        OBVIOUS
      <3>2. CASE p = pool[f]
        BY <2>r, <3>1, <3>2
      <3>3. CASE p # pool[f]
        BY <2>r, <3>1, <3>3
      <3> QED
        BY <3>2, <3>3
    <2>3. \A c \in ConnIds : (closed[c] => closed'[c]) /\ flow'[c] = flow[c]
      BY <1>8 DEF Release, Retire, MarkClosed
    <2> QED
      BY <2>1, <2>2, <2>3
  <1>9. ASSUME NEW f \in Fibers, StartClear(f) PROVE Live'
    BY <1>9 DEF StartClear, Lock, mutexVars, connVars
  <1>10. ASSUME NEW f \in Fibers, Clear(f) PROVE Live'
    BY <1>10 DEF Clear, Inside, Unlock, CloseAll, MarkClosed
  <1>11. ASSUME NEW f \in Fibers, CancelLock(f) PROVE Live'
    BY <1>11 DEF CancelLock, connVars
  <1>12. ASSUME NEW c \in ConnIds, NEW why \in StaleKinds, GoStale(c, why)
        PROVE  Live'
    BY <1>12 DEF GoStale, fiberVars, mutexVars
  <1>13. ASSUME Shutdown PROVE Live'
    BY <1>13 DEF Shutdown, MarkClosed, fiberVars, mutexVars
  <1>14. ASSUME UNCHANGED vars PROVE Live'
    BY <1>14 DEF vars, fiberVars, mutexVars, connVars
  <1> QED
    BY <1>1, <1>2, <1>3, <1>4, <1>5, <1>6, <1>7, <1>8, <1>9, <1>10, <1>11,
       <1>12, <1>13, <1>14 DEF Next

----------------------------------------------------------------------------
(* What is handed out.                                                        *)

\* A step that hands a connection out hands out an open, healthy one.
LEMMA HandOutStep ==
    ASSUME TypeOK, Placed, Numbered, Live, [Next]_vars,
           NEW f \in Fibers, pc[f] # "use", pc'[f] = "use"
    PROVE  /\ flow'[conn'[f]] /\ ~closed'[conn'[f]]
           /\ stale'[conn'[f]] \cap {"protocol", "lifetime"} = {}
  <1>1. \/ AcquireReuse(f)
        \/ CreateSucceeds(f)
    <2> USE DEF TypeOK
    <2>1. ASSUME NEW g \in Fibers, AcquireReuse(g), ~AcquireReuse(f) PROVE FALSE
      BY <2>1 DEF AcquireReuse, HandOver
    <2>2. ASSUME NEW g \in Fibers, CreateSucceeds(g), ~CreateSucceeds(f) PROVE FALSE
      BY <2>2 DEF CreateSucceeds, HandOver
    <2>3. ASSUME NEW g \in Fibers,
                 StartAcquire(g) \/ AcquireConnect(g) \/ AcquireAtLimit(g) \/ CreateFails(g)
          PROVE  FALSE
      BY <2>3 DEF StartAcquire, AcquireConnect, AcquireAtLimit, CreateFails
    <2>4. ASSUME NEW g \in Fibers, StartRelease(g) \/ Release(g) PROVE FALSE
      <3>1. CASE StartRelease(g)
        BY <3>1 DEF StartRelease
      <3>2. CASE Release(g)
        <4>1. pc' = [h \in Fibers |->
                       CASE h = g -> "idle"
                         [] h # g /\ pc[h] = "awaitUser" /\ conn[h] = conn[g] -> "woken"
                         [] OTHER -> pc[h]]
          BY <3>2 DEF Release
        <4>2. pc'[f] \in {"idle", "woken", pc[f]}
          BY <4>1
        <4> QED
          BY <4>2
      <3> QED
        BY <2>4, <3>1, <3>2
    <2>5. ASSUME NEW g \in Fibers, StartClear(g) \/ Clear(g) \/ CancelLock(g) PROVE FALSE
      BY <2>5 DEF StartClear, Clear, CancelLock
    <2>6. ASSUME NEW c \in ConnIds, NEW why \in StaleKinds, GoStale(c, why) PROVE FALSE
      BY <2>6 DEF GoStale, fiberVars
    <2>7. ASSUME Shutdown \/ UNCHANGED vars PROVE FALSE
      BY <2>7 DEF Shutdown, fiberVars, vars
    <2> HIDE DEF TypeOK
    <2> QED
      BY <2>1, <2>2, <2>3, <2>4, <2>5, <2>6, <2>7 DEF Next
  <1>2. CASE AcquireReuse(f)
    <2>0. pool[f] \in PoolIds /\ ~shut
      BY <1>2 DEF AcquireReuse, Inside, Placed, Live
    <2>1. PICK c \in Available(pool[f]) :
             /\ stale' = [stale EXCEPT ![c] = @ \ {"idle"}]
             /\ conn' = [conn EXCEPT ![f] = c]
      BY <1>2 DEF AcquireReuse, HandOver, Newest
    <2>2. c \in connections[pool[f]] /\ c \in ConnIds /\ ~closed[c] /\ Healthy(c)
      BY <2>0, <2>1 DEF Available, Open, TypeOK
    <2>3. conn'[f] = c
      BY <2>1 DEF TypeOK
    <2>4. flow'[c]
      BY <1>2, <2>0, <2>2 DEF AcquireReuse, Live
    <2>5. ~closed'[c]
      BY <1>2, <2>2 DEF AcquireReuse, MarkClosed, Passed
    <2>6. stale'[c] \cap {"protocol", "lifetime"} = {}
      <3>1. "protocol" \notin stale[c] /\ "lifetime" \notin stale[c]
        BY <2>2 DEF Healthy, Health
      <3>2. stale'[c] = stale[c] \ {"idle"}
        BY <2>1, <2>2 DEF TypeOK
      <3> QED
        BY <3>1, <3>2
    <2> QED
      BY <2>3, <2>4, <2>5, <2>6
  <1>3. CASE CreateSucceeds(f)
    <2> DEFINE c == created + 1
    <2>1. c \in ConnIds /\ c > created
      BY <1>3, BoundAssumption DEF CreateSucceeds, TypeOK, ConnIds
    <2>2. conn' = [conn EXCEPT ![f] = c] /\ flow' = [flow EXCEPT ![c] = TRUE]
          /\ UNCHANGED <<closed, stale>>
      BY <1>3 DEF CreateSucceeds, HandOver
    <2>3. ~closed[c] /\ stale[c] = {}
      BY <2>1 DEF Numbered, FreshUntouched
    <2> HIDE DEF c
    <2> QED
      BY <2>1, <2>2, <2>3 DEF TypeOK
  <1> QED
    BY <1>1, <1>2, <1>3

\* Reuse stops at max_connection_uses: check_health sees the count first.
LEMMA UseCountStep ==
    ASSUME TypeOK, Placed, UseCountLimit, [Next]_vars
    PROVE  UseCountLimit'
  <1> SUFFICES ASSUME MaxUses # NoLimit, NEW c \in ConnIds PROVE uses'[c] <= MaxUses
    BY DEF UseCountLimit
  <1>0. uses[c] \in Nat /\ uses[c] <= MaxUses /\ MaxUses \in Nat
    BY ConfigAssumption DEF TypeOK, UseCountLimit
  <1>1. ASSUME NEW f \in Fibers, AcquireReuse(f) PROVE uses'[c] <= MaxUses
    <2>1. PICK d \in Available(pool[f]) : uses' = [uses EXCEPT ![d] = @ + 1]
      BY <1>1 DEF AcquireReuse, Newest
    <2>2. CASE c = d
      <3>1. ~(uses[c] >= MaxUses)
        BY <2>1, <2>2 DEF Available, Open, Healthy, Health, UsedUp
      <3>2. uses'[c] = uses[c] + 1
        BY <2>1, <2>2 DEF TypeOK
      <3> QED
        BY <1>0, <3>1, <3>2
    <2>3. CASE c # d
      BY <1>0, <2>1, <2>3 DEF TypeOK
    <2> QED
      BY <2>2, <2>3
  <1>2. \/ uses' = uses
        \/ \E f \in Fibers : AcquireReuse(f)
    BY DEF Next, StartAcquire, AcquireConnect, AcquireAtLimit, CreateSucceeds,
          CreateFails, StartRelease, Release, StartClear, Clear, CancelLock, GoStale,
          Shutdown, connVars, vars
  <1> QED
    BY <1>0, <1>1, <1>2

----------------------------------------------------------------------------
(* The connection limit.                                                      *)

\* Lists of connections are finite.
LEMMA FiniteSubset ==
    ASSUME NEW S \in SUBSET ConnIds
    PROVE  IsFiniteSet(S) /\ Cardinality(S) \in Nat
  <1>1. IsFiniteSet(ConnIds)
    BY FS_Interval, BoundAssumption DEF ConnIds
  <1> QED
    BY <1>1, FS_Subset, FS_CardinalityType

\* The steps after which every list is as long as before or shorter, and
\* nobody has started to connect.
LEMMA LimitKept ==
    ASSUME TypeOK, TypeOK', ConnectionLimit,
           \A p \in PoolIds : connections'[p] \subseteq connections[p],
           \A f \in Fibers : pc'[f] = "connect" => pc[f] = "connect" /\ pool'[f] = pool[f]
    PROVE  ConnectionLimit'
  <1> SUFFICES ASSUME NEW p \in PoolIds
               PROVE  /\ Cardinality(connections'[p]) <= MaxConns
                      /\ (\E f \in Fibers : pc'[f] = "connect" /\ pool'[f] = p)
                            => Cardinality(connections'[p]) < MaxConns
    BY DEF ConnectionLimit
  <1>1. connections[p] \in SUBSET ConnIds /\ connections'[p] \in SUBSET ConnIds
    BY DEF TypeOK
  <1>2. /\ Cardinality(connections'[p]) <= Cardinality(connections[p])
        /\ Cardinality(connections'[p]) \in Nat /\ Cardinality(connections[p]) \in Nat
    BY <1>1, FiniteSubset, FS_Subset
  <1>3. /\ Cardinality(connections[p]) <= MaxConns
        /\ (\E f \in Fibers : pc[f] = "connect" /\ pool[f] = p)
              => Cardinality(connections[p]) < MaxConns
    BY DEF ConnectionLimit
  <1> QED
    BY <1>2, <1>3, ConfigAssumption

\* The slot a fiber saw free before connecting is still free afterwards.
LEMMA LimitStep ==
    ASSUME TypeOK, TypeOK', Placed, CriticalSectionOwned, ConnectionLimit, [Next]_vars
    PROVE  ConnectionLimit'
  <1> USE BoundAssumption
  <1>1. ASSUME NEW f \in Fibers, StartAcquire(f) PROVE ConnectionLimit'
    <2>1. \A p \in PoolIds : connections'[p] \subseteq connections[p]
      BY <1>1 DEF StartAcquire, Open, TypeOK, connVars, mutexVars
    <2>2. \A g \in Fibers : pc'[g] = "connect" => pc[g] = "connect" /\ pool'[g] = pool[g]
      BY <1>1 DEF StartAcquire, HandOver, TypeOK
    <2> QED
      BY <2>1, <2>2, LimitKept
  <1>2. ASSUME NEW f \in Fibers, AcquireReuse(f) PROVE ConnectionLimit'
    <2>1. \A p \in PoolIds : connections'[p] \subseteq connections[p]
      BY <1>2 DEF AcquireReuse, Inside, Open, TypeOK, connVars, mutexVars
    <2>2. \A g \in Fibers : pc'[g] = "connect" => pc[g] = "connect" /\ pool'[g] = pool[g]
      BY <1>2 DEF AcquireReuse, Inside, HandOver, TypeOK
    <2> QED
      BY <2>1, <2>2, LimitKept
  <1>3. ASSUME NEW f \in Fibers, AcquireConnect(f) PROVE ConnectionLimit'
    <2>0. pool[f] \in PoolIds
      BY <1>3 DEF AcquireConnect, Inside, Placed
    <2>1. /\ connections' = [connections EXCEPT ![pool[f]] = Open(pool[f])]
          /\ pc' = [pc EXCEPT ![f] = "connect"] /\ pool' = pool
          /\ ~(Cardinality(Open(pool[f])) >= MaxConns)
      BY <1>3 DEF AcquireConnect, AtLimit
    <2>2. Cardinality(Open(pool[f])) \in Nat
      BY <2>0, FiniteSubset DEF Open, TypeOK
    <2> SUFFICES ASSUME NEW p \in PoolIds
                 PROVE  /\ Cardinality(connections'[p]) <= MaxConns
                        /\ (\E g \in Fibers : pc'[g] = "connect" /\ pool'[g] = p)
                              => Cardinality(connections'[p]) < MaxConns
      BY DEF ConnectionLimit
    <2>3. CASE p = pool[f]
      <3>1. connections'[p] = Open(p)
        BY <2>1, <2>3 DEF TypeOK
      <3> QED
        BY <3>1, <2>1, <2>2, <2>3, ConfigAssumption
    <2>4. CASE p # pool[f]
      <3>1. connections'[p] = connections[p]
        BY <2>1, <2>4 DEF TypeOK
      <3>2. \A g \in Fibers : pc'[g] = "connect" /\ pool'[g] = p => pc[g] = "connect" /\ pool[g] = p
        BY <2>1, <2>4 DEF TypeOK
      <3> QED
        BY <3>1, <3>2 DEF ConnectionLimit
    <2> QED
      BY <2>3, <2>4
  <1>4. ASSUME NEW f \in Fibers, AcquireAtLimit(f) PROVE ConnectionLimit'
    <2>1. \A p \in PoolIds : connections'[p] \subseteq connections[p]
      BY <1>4 DEF AcquireAtLimit, Open, TypeOK
    <2>2. PICK where \in {"relock", "awaitUser"} : pc' = [pc EXCEPT ![f] = where]
      BY <1>4 DEF AcquireAtLimit
    <2>3. \A g \in Fibers : pc'[g] = "connect" => pc[g] = "connect" /\ pool'[g] = pool[g]
      BY <1>4, <2>2 DEF AcquireAtLimit, TypeOK
    <2> QED
      BY <2>1, <2>3, LimitKept
  <1>5. ASSUME NEW f \in Fibers, CreateSucceeds(f) PROVE ConnectionLimit'
    <2>0. pool[f] \in PoolIds /\ created + 1 \in ConnIds /\ holder[pool[f]] = f
      BY <1>5 DEF CreateSucceeds, Placed, TypeOK, ConnIds, CriticalSectionOwned
    <2>1. /\ connections' = [connections EXCEPT ![pool[f]] = @ \cup {created + 1}]
          /\ pc' = [pc EXCEPT ![f] = "use"] /\ pool' = pool
      BY <1>5 DEF CreateSucceeds, HandOver
    <2> SUFFICES ASSUME NEW p \in PoolIds
                 PROVE  /\ Cardinality(connections'[p]) <= MaxConns
                        /\ (\E g \in Fibers : pc'[g] = "connect" /\ pool'[g] = p)
                              => Cardinality(connections'[p]) < MaxConns
      BY DEF ConnectionLimit
    <2>2. CASE p = pool[f]
      <3>1. connections'[p] = connections[p] \cup {created + 1}
        BY <2>1, <2>2 DEF TypeOK
      <3>2. Cardinality(connections[p]) < MaxConns
        BY <1>5, <2>2 DEF ConnectionLimit, CreateSucceeds
      <3>3. IsFiniteSet(connections[p]) /\ Cardinality(connections[p]) \in Nat
        BY FiniteSubset DEF TypeOK
      <3>4. \/ Cardinality(connections'[p]) = Cardinality(connections[p])
            \/ Cardinality(connections'[p]) = Cardinality(connections[p]) + 1
        <4> DEFINE S == connections[p]
                   c == created + 1
        <4> HIDE DEF S, c
        <4>1. IsFiniteSet(S)
          BY <3>3 DEF S
        <4>2. \/ Cardinality(S \cup {c}) = Cardinality(S)
              \/ Cardinality(S \cup {c}) = Cardinality(S) + 1
          BY <4>1, FS_AddElement
        <4> QED
          BY <3>1, <4>2 DEF S, c
      <3>5. ~ \E g \in Fibers : pc'[g] = "connect" /\ pool'[g] = p
        BY <2>0, <2>1, <2>2 DEF CriticalSectionOwned, TypeOK
      <3> QED
        BY <3>2, <3>3, <3>4, <3>5, ConfigAssumption
    <2>3. CASE p # pool[f]
      <3>1. connections'[p] = connections[p]
        BY <2>1, <2>3 DEF TypeOK
      <3>2. \A g \in Fibers : pc'[g] = "connect" /\ pool'[g] = p => pc[g] = "connect" /\ pool[g] = p
        BY <2>1, <2>3 DEF TypeOK
      <3> QED
        BY <3>1, <3>2 DEF ConnectionLimit
    <2> QED
      BY <2>2, <2>3
  <1>6. ASSUME NEW f \in Fibers, CreateFails(f) PROVE ConnectionLimit'
    <2>1. \A p \in PoolIds : connections'[p] \subseteq connections[p]
      BY <1>6 DEF CreateFails, Open, TypeOK, connVars, mutexVars
    <2>2. \A g \in Fibers : pc'[g] = "connect" => pc[g] = "connect" /\ pool'[g] = pool[g]
      BY <1>6 DEF CreateFails, HandOver, TypeOK
    <2> QED
      BY <2>1, <2>2, LimitKept
  <1>7. ASSUME NEW f \in Fibers, StartRelease(f) PROVE ConnectionLimit'
    <2>1. \A p \in PoolIds : connections'[p] \subseteq connections[p]
      BY <1>7 DEF StartRelease, Open, TypeOK, connVars, mutexVars
    <2>2. \A g \in Fibers : pc'[g] = "connect" => pc[g] = "connect" /\ pool'[g] = pool[g]
      BY <1>7 DEF StartRelease, HandOver, TypeOK
    <2> QED
      BY <2>1, <2>2, LimitKept
  <1>8. ASSUME NEW f \in Fibers, Release(f) PROVE ConnectionLimit'
    <2>0. pool[f] \in PoolIds
      BY <1>8 DEF Release, Inside, Placed
    <2>1. \/ connections' = connections
          \/ connections' = [connections EXCEPT ![pool[f]] = @ \ {conn[f]}]
      BY <1>8 DEF Release
    <2>2. DOMAIN connections = PoolIds
      BY DEF TypeOK
    <2>3. ASSUME NEW p \in PoolIds PROVE connections'[p] \subseteq connections[p]
      <3>1. CASE p = pool[f]
        BY <2>1, <2>2, <3>1
      <3>2. CASE p # pool[f]
        BY <2>1, <2>2, <3>2
      <3> QED
        BY <3>1, <3>2
    <2>4. \A g \in Fibers : pc'[g] = "connect" => pc[g] = "connect" /\ pool'[g] = pool[g]
      BY <1>8 DEF Release, TypeOK
    <2> QED
      BY <2>3, <2>4, LimitKept
  <1>9. ASSUME NEW f \in Fibers, StartClear(f) PROVE ConnectionLimit'
    <2>1. \A p \in PoolIds : connections'[p] \subseteq connections[p]
      BY <1>9 DEF StartClear, Open, TypeOK, connVars, mutexVars
    <2>2. \A g \in Fibers : pc'[g] = "connect" => pc[g] = "connect" /\ pool'[g] = pool[g]
      BY <1>9 DEF StartClear, HandOver, TypeOK
    <2> QED
      BY <2>1, <2>2, LimitKept
  <1>10. ASSUME NEW f \in Fibers, Clear(f) PROVE ConnectionLimit'
    <2>1. \A p \in PoolIds : connections'[p] \subseteq connections[p]
      BY <1>10 DEF Clear, Open, TypeOK, connVars, mutexVars
    <2>2. \A g \in Fibers : pc'[g] = "connect" => pc[g] = "connect" /\ pool'[g] = pool[g]
      BY <1>10 DEF Clear, HandOver, TypeOK
    <2> QED
      BY <2>1, <2>2, LimitKept
  <1>11. ASSUME NEW f \in Fibers, CancelLock(f) PROVE ConnectionLimit'
    <2>1. \A p \in PoolIds : connections'[p] \subseteq connections[p]
      BY <1>11 DEF CancelLock, Open, TypeOK, connVars, mutexVars
    <2>2. \A g \in Fibers : pc'[g] = "connect" => pc[g] = "connect" /\ pool'[g] = pool[g]
      BY <1>11 DEF CancelLock, HandOver, TypeOK
    <2> QED
      BY <2>1, <2>2, LimitKept
  <1>12. ASSUME NEW c \in ConnIds, NEW why \in StaleKinds, GoStale(c, why)
        PROVE  ConnectionLimit'
    BY <1>12 DEF GoStale, fiberVars, ConnectionLimit
  <1>13. ASSUME Shutdown PROVE ConnectionLimit'
    BY <1>13 DEF Shutdown, fiberVars, ConnectionLimit
  <1>14. ASSUME UNCHANGED vars PROVE ConnectionLimit'
    BY <1>14 DEF vars, fiberVars, ConnectionLimit
  <1> QED
    BY <1>1, <1>2, <1>3, <1>4, <1>5, <1>6, <1>7, <1>8, <1>9, <1>10, <1>11,
       <1>12, <1>13, <1>14 DEF Next

----------------------------------------------------------------------------
(* Fibers that wait at the limit.                                             *)

Stuck(f) == pc[f] \in {"awaitUser", "relock"}

\* A stuck fiber waits in a full pool; what it awaits is in the pool's list.
StuckFull(f) ==
    Stuck(f) => /\ Cardinality(connections[pool[f]]) = MaxConns
                /\ \A c \in connections[pool[f]] : closed[c] \/ users[c] >= Capacity
                /\ pc[f] = "awaitUser" => conn[f] \in connections[pool[f]]

StuckInv == \A f \in Fibers : StuckFull(f) /\ pc[f] # "woken"

\* A step that leaves the list of a stuck fiber alone and gives none of its
\* connections room leaves the fiber as stuck as it was.
LEMMA StuckKept ==
    ASSUME NEW g \in Fibers, TypeOK, StuckFull(g),
           Stuck(g)' => /\ pc'[g] = pc[g] /\ pool'[g] = pool[g] /\ conn'[g] = conn[g]
                        /\ connections'[pool[g]] = connections[pool[g]]
                        /\ \A c \in connections[pool[g]] :
                              /\ closed[c] => closed'[c]
                              /\ users[c] >= Capacity => users'[c] >= Capacity
    PROVE  StuckFull(g)'
  <1> SUFFICES ASSUME Stuck(g)' PROVE StuckFull(g)'
    BY DEF StuckFull
  <1>1. Stuck(g)
    BY DEF Stuck
  <1> QED
    BY <1>1 DEF StuckFull

\* Fibers stuck in the same pool as a fiber that runs its critical section.
LEMMA StuckElsewhere ==
    ASSUME CriticalSectionOwned, NEW f \in Fibers, holder[pool[f]] = f,
           NEW g \in Fibers, g # f, Stuck(g)
    PROVE  pool[g] # pool[f]
  BY DEF CriticalSectionOwned, Stuck

\* No step gives a full pool room while a fiber is stuck in it.
LEMMA StuckStep ==
    ASSUME TypeOK, TypeOK', Placed, Numbered, CriticalSectionOwned,
           ConnectionLimit, StuckInv, [Next]_vars
    PROVE  StuckInv'
  <1>1. ASSUME NEW f \in Fibers, StartAcquire(f) PROVE StuckInv'
    <2>1. ASSUME NEW g \in Fibers PROVE StuckFull(g)' /\ pc'[g] # "woken"
      <3>1. pc'[g] # "woken"
        BY <1>1 DEF StartAcquire, HandOver, StuckInv, TypeOK
      <3>2. Stuck(g)' => pc'[g] = pc[g] /\ pool'[g] = pool[g] /\ conn'[g] = conn[g]
        BY <1>1 DEF StartAcquire, HandOver, Stuck, TypeOK
      <3>3. connections' = connections /\ users' = users /\ closed' = closed
        BY <1>1 DEF StartAcquire, connVars
      <3> QED
        BY <3>1, <3>2, <3>3, StuckKept DEF StuckInv
    <2> QED
      BY <2>1 DEF StuckInv
  <1>2. ASSUME NEW f \in Fibers, AcquireReuse(f) PROVE StuckInv'
    <2>0. pool[f] \in PoolIds /\ holder[pool[f]] = f
      BY <1>2 DEF AcquireReuse, Inside, Placed, CriticalSectionOwned
    <2>1. ASSUME NEW g \in Fibers PROVE StuckFull(g)' /\ pc'[g] # "woken"
      <3>1. pc'[g] # "woken"
        BY <1>2 DEF AcquireReuse, HandOver, StuckInv, TypeOK
      <3>2. Stuck(g)' => /\ pc'[g] = pc[g] /\ pool'[g] = pool[g] /\ conn'[g] = conn[g]
                        /\ Stuck(g) /\ g # f
        BY <1>2 DEF AcquireReuse, HandOver, Stuck, TypeOK
      <3>3. Stuck(g)' => pool[g] # pool[f] /\ pool[g] \in PoolIds
        BY <2>0, <3>2, StuckElsewhere DEF Placed, Stuck
      <3>4. Stuck(g)' => connections'[pool[g]] = connections[pool[g]]
        BY <1>2, <3>3 DEF AcquireReuse, TypeOK
      <3>5. \A c \in ConnIds : closed[c] => closed'[c]
        BY <1>2 DEF AcquireReuse, MarkClosed, CloseAll, Retire
      <3>6. \A c \in ConnIds : users[c] >= Capacity => users'[c] >= Capacity
        <4>1. PICK d \in Available(pool[f]) : users' = [users EXCEPT ![d] = @ + 1]
          BY <1>2 DEF AcquireReuse, Newest
        <4>2. \A c \in ConnIds : users'[c] \in {users[c], users[c] + 1} /\ users[c] \in Nat
          BY <4>1 DEF TypeOK
        <4> QED
          BY <4>2, ConfigAssumption
      <3> QED
        BY <3>1, <3>2, <3>3, <3>4, <3>5, <3>6, StuckKept DEF StuckInv, TypeOK
    <2> QED
      BY <2>1 DEF StuckInv
  <1>3. ASSUME NEW f \in Fibers, AcquireConnect(f) PROVE StuckInv'
    <2>0. pool[f] \in PoolIds /\ holder[pool[f]] = f
      BY <1>3 DEF AcquireConnect, Inside, Placed, CriticalSectionOwned
    <2>1. ASSUME NEW g \in Fibers PROVE StuckFull(g)' /\ pc'[g] # "woken"
      <3>1. pc'[g] # "woken"
        BY <1>3 DEF AcquireConnect, HandOver, StuckInv, TypeOK
      <3>2. Stuck(g)' => /\ pc'[g] = pc[g] /\ pool'[g] = pool[g] /\ conn'[g] = conn[g]
                        /\ Stuck(g) /\ g # f
        BY <1>3 DEF AcquireConnect, HandOver, Stuck, TypeOK
      <3>3. Stuck(g)' => pool[g] # pool[f] /\ pool[g] \in PoolIds
        BY <2>0, <3>2, StuckElsewhere DEF Placed, Stuck
      <3>4. Stuck(g)' => connections'[pool[g]] = connections[pool[g]]
        BY <1>3, <3>3 DEF AcquireConnect, TypeOK
      <3>5. \A c \in ConnIds : closed[c] => closed'[c]
        BY <1>3 DEF AcquireConnect, MarkClosed, CloseAll, Retire
      <3>6. \A c \in ConnIds : users[c] >= Capacity => users'[c] >= Capacity
        BY <1>3 DEF AcquireConnect
      <3> QED
        BY <3>1, <3>2, <3>3, <3>4, <3>5, <3>6, StuckKept DEF StuckInv, TypeOK
    <2> QED
      BY <2>1 DEF StuckInv
  <1>4. ASSUME NEW f \in Fibers, AcquireAtLimit(f) PROVE StuckInv'
    <2>0. pool[f] \in PoolIds /\ holder[pool[f]] = f
      BY <1>4 DEF AcquireAtLimit, Inside, Placed
    <2>1. PICK c \in Open(pool[f]) :
             \/ pc' = [pc EXCEPT ![f] = "relock"] /\ conn' = conn
             \/ pc' = [pc EXCEPT ![f] = "awaitUser"] /\ conn' = [conn EXCEPT ![f] = c]
      BY <1>4 DEF AcquireAtLimit, Newest
    <2>2. /\ pool' = pool /\ users' = users
          /\ connections' = [connections EXCEPT ![pool[f]] = Open(pool[f])]
          /\ closed' = [d \in ConnIds |-> closed[d] \/ d \in Passed(pool[f])]
          /\ Available(pool[f]) = {}
          /\ Cardinality(Open(pool[f])) >= MaxConns
      BY <1>4 DEF AcquireAtLimit, MarkClosed, AtLimit
    <2>3. ASSUME NEW g \in Fibers, g # f PROVE StuckFull(g)' /\ pc'[g] # "woken"
      <3>1. pc'[g] = pc[g] /\ pool'[g] = pool[g] /\ conn'[g] = conn[g]
        BY <2>1, <2>2, <2>3 DEF TypeOK
      <3>2. Stuck(g)' => pool[g] # pool[f] /\ pool[g] \in PoolIds
        BY <2>0, <2>3, <3>1, StuckElsewhere DEF Placed, Stuck
      <3>3. Stuck(g)' => connections'[pool[g]] = connections[pool[g]]
        BY <2>2, <3>2 DEF TypeOK
      <3>4. \A d \in ConnIds : closed[d] => closed'[d]
        BY <2>2
      <3> QED
        BY <2>2, <3>1, <3>2, <3>3, <3>4, StuckKept DEF StuckInv, TypeOK
    <2>4. StuckFull(f)' /\ pc'[f] # "woken"
      <3>1. pc'[f] \in {"relock", "awaitUser"}
        BY <2>1 DEF TypeOK
      <3>2. connections'[pool'[f]] = Open(pool[f]) /\ Open(pool[f]) \in SUBSET ConnIds
        BY <2>0, <2>2 DEF TypeOK, Open
      <3>3. Cardinality(Open(pool[f])) = MaxConns
        <4>1. connections[pool[f]] \in SUBSET ConnIds /\ Open(pool[f]) \subseteq connections[pool[f]]
          BY <2>0 DEF TypeOK, Open
        <4>2. /\ Cardinality(Open(pool[f])) <= Cardinality(connections[pool[f]])
              /\ Cardinality(Open(pool[f])) \in Nat /\ Cardinality(connections[pool[f]]) \in Nat
          BY <4>1, FiniteSubset, FS_Subset
        <4>3. Cardinality(connections[pool[f]]) <= MaxConns
          BY <2>0 DEF ConnectionLimit
        <4> QED
          BY <2>2, <4>2, <4>3, ConfigAssumption
      <3>4. \A d \in Open(pool[f]) : closed'[d] \/ users'[d] >= Capacity
        <4> SUFFICES ASSUME NEW d \in Open(pool[f]), ~closed'[d] PROVE users[d] >= Capacity
          BY <2>2
        <4>1. d \in ConnIds /\ d \notin Passed(pool[f])
          BY <2>2, <3>2
        <4>2. Healthy(d)
          BY <2>2, <4>1 DEF Passed
        <4>3. ~(users[d] < Capacity)
          BY <2>2, <4>2 DEF Available
        <4> QED
          BY <4>1, <4>3, ConfigAssumption DEF TypeOK
      <3>5. pc'[f] = "awaitUser" => conn'[f] \in Open(pool[f])
        BY <2>1 DEF TypeOK
      <3> QED
        BY <3>1, <3>2, <3>3, <3>4, <3>5 DEF StuckFull, Stuck
    <2> QED
      BY <2>3, <2>4 DEF StuckInv
  <1>5. ASSUME NEW f \in Fibers, CreateSucceeds(f) PROVE StuckInv'
    <2>0. pool[f] \in PoolIds /\ holder[pool[f]] = f
      BY <1>5 DEF CreateSucceeds, Placed, CriticalSectionOwned
    <2>1. ASSUME NEW g \in Fibers PROVE StuckFull(g)' /\ pc'[g] # "woken"
      <3>1. pc'[g] # "woken"
        BY <1>5 DEF CreateSucceeds, HandOver, StuckInv, TypeOK
      <3>2. Stuck(g)' => /\ pc'[g] = pc[g] /\ pool'[g] = pool[g] /\ conn'[g] = conn[g]
                        /\ Stuck(g) /\ g # f
        BY <1>5 DEF CreateSucceeds, HandOver, Stuck, TypeOK
      <3>3. Stuck(g)' => pool[g] # pool[f] /\ pool[g] \in PoolIds
        BY <2>0, <3>2, StuckElsewhere DEF Placed, Stuck
      <3>4. Stuck(g)' => connections'[pool[g]] = connections[pool[g]]
        BY <1>5, <3>3 DEF CreateSucceeds, TypeOK
      <3>5. \A c \in ConnIds : closed[c] => closed'[c]
        BY <1>5 DEF CreateSucceeds, MarkClosed, CloseAll, Retire
      <3>6. \A c \in connections[pool[g]] : Stuck(g)' /\ users[c] >= Capacity =>
                                             users'[c] >= Capacity
        <4>1. users' = [users EXCEPT ![created + 1] = 1] /\ created \in Nat
          BY <1>5 DEF CreateSucceeds, TypeOK
        <4>2. Stuck(g)' => \A c \in connections[pool[g]] : c # created + 1 /\ c \in ConnIds
          BY <3>3, <4>1 DEF Numbered, ListedCreated, TypeOK, ConnIds
        <4> QED
          BY <4>1, <4>2 DEF TypeOK
      <3> QED
        BY <3>1, <3>2, <3>3, <3>4, <3>5, <3>6, StuckKept DEF StuckInv, TypeOK
    <2> QED
      BY <2>1 DEF StuckInv
  <1>6. ASSUME NEW f \in Fibers, CreateFails(f) PROVE StuckInv'
    <2>1. ASSUME NEW g \in Fibers PROVE StuckFull(g)' /\ pc'[g] # "woken"
      <3>1. pc'[g] # "woken"
        BY <1>6 DEF CreateFails, HandOver, StuckInv, TypeOK
      <3>2. Stuck(g)' => pc'[g] = pc[g] /\ pool'[g] = pool[g] /\ conn'[g] = conn[g]
        BY <1>6 DEF CreateFails, HandOver, Stuck, TypeOK
      <3>3. connections' = connections /\ users' = users /\ closed' = closed
        BY <1>6 DEF CreateFails, connVars
      <3> QED
        BY <3>1, <3>2, <3>3, StuckKept DEF StuckInv
    <2> QED
      BY <2>1 DEF StuckInv
  <1>7. ASSUME NEW f \in Fibers, StartRelease(f) PROVE StuckInv'
    <2>1. ASSUME NEW g \in Fibers PROVE StuckFull(g)' /\ pc'[g] # "woken"
      <3>1. pc'[g] # "woken"
        BY <1>7 DEF StartRelease, HandOver, StuckInv, TypeOK
      <3>2. Stuck(g)' => pc'[g] = pc[g] /\ pool'[g] = pool[g] /\ conn'[g] = conn[g]
        BY <1>7 DEF StartRelease, HandOver, Stuck, TypeOK
      <3>3. connections' = connections /\ users' = users /\ closed' = closed
        BY <1>7 DEF StartRelease, connVars
      <3> QED
        BY <3>1, <3>2, <3>3, StuckKept DEF StuckInv
    <2> QED
      BY <2>1 DEF StuckInv
  <1>8. ASSUME NEW f \in Fibers, Release(f) PROVE StuckInv'
    <2>0. pool[f] \in PoolIds /\ holder[pool[f]] = f
      BY <1>8 DEF Release, Inside, Placed, CriticalSectionOwned
    <2>1. ASSUME NEW g \in Fibers PROVE StuckFull(g)' /\ pc'[g] # "woken"
      <3>1. pc'[g] # "woken"
        <4> SUFFICES ASSUME g # f, pc[g] = "awaitUser", conn[g] = conn[f] PROVE FALSE
          BY <1>8 DEF Release, StuckInv, TypeOK
        <4>1. pool[g] # pool[f] /\ pool[g] \in PoolIds
          BY <2>0, StuckElsewhere DEF Placed, Stuck
        <4>2. conn[g] \in connections[pool[g]]
          BY DEF StuckInv, StuckFull, Stuck
        <4> QED
          BY <1>8, <4>1, <4>2 DEF Numbered, HeldAtHome, Release, Inside, Using
      <3>2. Stuck(g)' => /\ pc'[g] = pc[g] /\ pool'[g] = pool[g] /\ conn'[g] = conn[g]
                        /\ Stuck(g) /\ g # f
        BY <1>8 DEF Release, HandOver, Stuck, TypeOK
      <3>3. Stuck(g)' => pool[g] # pool[f] /\ pool[g] \in PoolIds
        BY <2>0, <3>2, StuckElsewhere DEF Placed, Stuck
      <3>4. Stuck(g)' => connections'[pool[g]] = connections[pool[g]]
        <4>1. \/ connections' = connections
              \/ connections' = [connections EXCEPT ![pool[f]] = @ \ {conn[f]}]
          BY <1>8 DEF Release
        <4> QED
          BY <3>3, <4>1 DEF TypeOK
      <3>5. \A c \in ConnIds : closed[c] => closed'[c]
        BY <1>8 DEF Release, MarkClosed, CloseAll, Retire
      <3>6. \A c \in connections[pool[g]] : Stuck(g)' /\ users[c] >= Capacity =>
                                             users'[c] >= Capacity
        <4>1. users' = [users EXCEPT ![conn[f]] = Dec(users[conn[f]])]
          BY <1>8 DEF Release
        <4>2. Stuck(g)' => conn[f] \notin connections[pool[g]]
          BY <1>8, <3>3 DEF Numbered, HeldAtHome, Release, Inside, Using
        <4>3. Stuck(g)' => connections[pool[g]] \in SUBSET ConnIds
          BY <3>3 DEF TypeOK
        <4> QED
          BY <4>1, <4>2, <4>3 DEF TypeOK
      <3> QED
        BY <3>1, <3>2, <3>3, <3>4, <3>5, <3>6, StuckKept DEF StuckInv, TypeOK
    <2> QED
      BY <2>1 DEF StuckInv
  <1>9. ASSUME NEW f \in Fibers, StartClear(f) PROVE StuckInv'
    <2>1. ASSUME NEW g \in Fibers PROVE StuckFull(g)' /\ pc'[g] # "woken"
      <3>1. pc'[g] # "woken"
        BY <1>9 DEF StartClear, HandOver, StuckInv, TypeOK
      <3>2. Stuck(g)' => pc'[g] = pc[g] /\ pool'[g] = pool[g] /\ conn'[g] = conn[g]
        BY <1>9 DEF StartClear, HandOver, Stuck, TypeOK
      <3>3. connections' = connections /\ users' = users /\ closed' = closed
        BY <1>9 DEF StartClear, connVars
      <3> QED
        BY <3>1, <3>2, <3>3, StuckKept DEF StuckInv
    <2> QED
      BY <2>1 DEF StuckInv
  <1>10. ASSUME NEW f \in Fibers, Clear(f) PROVE StuckInv'
    <2>0. pool[f] \in PoolIds /\ holder[pool[f]] = f
      BY <1>10 DEF Clear, Inside, Placed, CriticalSectionOwned
    <2>1. ASSUME NEW g \in Fibers PROVE StuckFull(g)' /\ pc'[g] # "woken"
      <3>1. pc'[g] # "woken"
        BY <1>10 DEF Clear, HandOver, StuckInv, TypeOK
      <3>2. Stuck(g)' => /\ pc'[g] = pc[g] /\ pool'[g] = pool[g] /\ conn'[g] = conn[g]
                        /\ Stuck(g) /\ g # f
        BY <1>10 DEF Clear, HandOver, Stuck, TypeOK
      <3>3. Stuck(g)' => pool[g] # pool[f] /\ pool[g] \in PoolIds
        BY <2>0, <3>2, StuckElsewhere DEF Placed, Stuck
      <3>4. Stuck(g)' => connections'[pool[g]] = connections[pool[g]]
        BY <1>10, <3>3 DEF Clear, TypeOK
      <3>5. \A c \in ConnIds : closed[c] => closed'[c]
        BY <1>10 DEF Clear, MarkClosed, CloseAll, Retire
      <3>6. \A c \in ConnIds : users[c] >= Capacity => users'[c] >= Capacity
        BY <1>10 DEF Clear
      <3> QED
        BY <3>1, <3>2, <3>3, <3>4, <3>5, <3>6, StuckKept DEF StuckInv, TypeOK
    <2> QED
      BY <2>1 DEF StuckInv
  <1>11. ASSUME NEW f \in Fibers, CancelLock(f) PROVE StuckInv'
    <2>1. ASSUME NEW g \in Fibers PROVE StuckFull(g)' /\ pc'[g] # "woken"
      <3>1. pc'[g] # "woken"
        BY <1>11 DEF CancelLock, HandOver, StuckInv, TypeOK
      <3>2. Stuck(g)' => pc'[g] = pc[g] /\ pool'[g] = pool[g] /\ conn'[g] = conn[g]
        BY <1>11 DEF CancelLock, HandOver, Stuck, TypeOK
      <3>3. connections' = connections /\ users' = users /\ closed' = closed
        BY <1>11 DEF CancelLock, connVars
      <3> QED
        BY <3>1, <3>2, <3>3, StuckKept DEF StuckInv
    <2> QED
      BY <2>1 DEF StuckInv
  <1>12. ASSUME NEW c \in ConnIds, NEW why \in StaleKinds, GoStale(c, why)
        PROVE  StuckInv'
    BY <1>12 DEF GoStale, fiberVars, StuckInv, StuckFull, Stuck
  <1>13. ASSUME Shutdown PROVE StuckInv'
    BY <1>13 DEF Shutdown, fiberVars, StuckInv, StuckFull, Stuck
  <1>14. ASSUME UNCHANGED vars PROVE StuckInv'
    BY <1>14 DEF vars, fiberVars, connVars, StuckInv, StuckFull, Stuck
  <1> QED
    BY <1>1, <1>2, <1>3, <1>4, <1>5, <1>6, <1>7, <1>8, <1>9, <1>10, <1>11,
       <1>12, <1>13, <1>14 DEF Next

----------------------------------------------------------------------------
(* The count of users.                                                        *)

\* The fibers that hold a connection are finitely many.
LEMMA HoldersFinite ==
    ASSUME NEW c
    PROVE  IsFiniteSet(Holders(c)) /\ Cardinality(Holders(c)) \in Nat
  <1>1. Holders(c) \subseteq Fibers
    BY DEF Holders
  <1> QED
    BY <1>1, BoundAssumption, FS_Subset, FS_CardinalityType

\* Nobody gets a connection; if somebody loses one, a mutex is poisoned.
LEMMA UsersKept ==
    ASSUME UsersMatchHolders, users' = users,
           \A g \in Fibers : Using(g)' => Using(g) /\ conn'[g] = conn[g],
           \A p \in PoolIds : poisoned[p] => poisoned'[p],
           \/ \A g \in Fibers : Using(g) => Using(g)'
           \/ \E p \in PoolIds : poisoned'[p],
           TypeOK
    PROVE  UsersMatchHolders'
  <1> SUFFICES ASSUME NEW c \in ConnIds
               PROVE  /\ Cardinality(Holders(c)') <= users[c]
                      /\ users[c] <= Capacity
                      /\ (\A p \in PoolIds : ~poisoned'[p]) =>
                            users[c] = Cardinality(Holders(c)')
    BY DEF UsersMatchHolders
  <1>1. Holders(c)' \subseteq Holders(c)
    BY DEF Holders
  <1>2. /\ Cardinality(Holders(c)') <= Cardinality(Holders(c))
        /\ Cardinality(Holders(c)') \in Nat /\ Cardinality(Holders(c)) \in Nat
    BY <1>1, HoldersFinite, FS_Subset, FS_CardinalityType
  <1>3. /\ Cardinality(Holders(c)) <= users[c] /\ users[c] <= Capacity /\ users[c] \in Nat
        /\ (\A p \in PoolIds : ~poisoned[p]) => users[c] = Cardinality(Holders(c))
    BY DEF UsersMatchHolders, TypeOK
  <1>4. (\A p \in PoolIds : ~poisoned'[p]) => Holders(c)' = Holders(c)
    BY DEF Holders
  <1> QED
    BY <1>2, <1>3, <1>4

\* A fiber gets connection d, and n is its new count.
LEMMA UserAdded ==
    ASSUME UsersMatchHolders, TypeOK, UNCHANGED poisoned,
           NEW f \in Fibers, ~Using(f), Using(f)',
           NEW d \in ConnIds, conn'[f] = d,
           \A g \in Fibers : g # f => (Using(g)' <=> Using(g)) /\ conn'[g] = conn[g],
           NEW n \in Nat, users' = [users EXCEPT ![d] = n],
           n <= Capacity, Cardinality(Holders(d)) + 1 <= n,
           (\A p \in PoolIds : ~poisoned[p]) => n = Cardinality(Holders(d)) + 1
    PROVE  UsersMatchHolders'
  <1> SUFFICES ASSUME NEW c \in ConnIds
               PROVE  /\ Cardinality(Holders(c)') <= users'[c]
                      /\ users'[c] <= Capacity
                      /\ (\A p \in PoolIds : ~poisoned[p]) =>
                            users'[c] = Cardinality(Holders(c)')
    BY DEF UsersMatchHolders
  <1>1. CASE c = d
    <2>1. Holders(c)' = Holders(c) \cup {f} /\ f \notin Holders(c)
      BY <1>1 DEF Holders
    <2>2. Cardinality(Holders(c)') = Cardinality(Holders(c)) + 1
      BY <2>1, HoldersFinite, FS_AddElement
    <2>3. users'[c] = n
      BY <1>1 DEF TypeOK
    <2> QED
      BY <1>1, <2>2, <2>3
  <1>2. CASE c # d
    <2>1. Holders(c)' = Holders(c)
      BY <1>2 DEF Holders
    <2>2. users'[c] = users[c]
      BY <1>2 DEF TypeOK
    <2> QED
      BY <2>1, <2>2 DEF UsersMatchHolders
  <1> QED
    BY <1>1, <1>2

\* Every step that changes the holders of a connection changes pc_active_users.
LEMMA UsersStep ==
    ASSUME TypeOK, Placed, Numbered, UsersMatchHolders, [Next]_vars
    PROVE  UsersMatchHolders'
  <1>1. ASSUME NEW f \in Fibers, StartAcquire(f) PROVE UsersMatchHolders'
    <2>1. users' = users /\ poisoned' = poisoned
      BY <1>1 DEF StartAcquire, Lock, Unlock, mutexVars, connVars
    <2>6. \A g \in Fibers : Using(g)' => Using(g) /\ conn'[g] = conn[g]
      BY <1>1 DEF StartAcquire, Using, Inside, TypeOK, mutexVars
    <2>7. \A g \in Fibers : Using(g) => Using(g)'
      BY <1>1 DEF StartAcquire, Using, Inside, TypeOK, mutexVars
    <2>8. \A p \in PoolIds : poisoned[p] => poisoned'[p]
      BY <2>1
    <2> QED
      BY <2>1, <2>6, <2>7, <2>8, UsersKept
  <1>2. ASSUME NEW f \in Fibers, AcquireReuse(f) PROVE UsersMatchHolders'
    <2>0. pool[f] \in PoolIds /\ pc[f] = "lockAcquire"
      BY <1>2 DEF AcquireReuse, Inside, Placed
    <2>1. PICK c \in Available(pool[f]) :
             /\ users' = [users EXCEPT ![c] = @ + 1]
             /\ conn' = [conn EXCEPT ![f] = c]
             /\ pc' = [pc EXCEPT ![f] = "use"]
             /\ UNCHANGED poisoned
      BY <1>2 DEF AcquireReuse, HandOver, Unlock, Newest
    <2>2. c \in ConnIds /\ users[c] < Capacity
      BY <2>0 DEF Available, Open, TypeOK
    <2> DEFINE n == users[c] + 1
    <2>3. users' = [users EXCEPT ![c] = n]
      BY <2>1
    <2>4. /\ n \in Nat /\ n <= Capacity /\ Cardinality(Holders(c)) + 1 <= n
          /\ (\A p \in PoolIds : ~poisoned[p]) => n = Cardinality(Holders(c)) + 1
      <3>1. Cardinality(Holders(c)) \in Nat /\ users[c] \in Nat /\ Capacity \in Nat
        BY <2>2, HoldersFinite, ConfigAssumption DEF TypeOK
      <3>2. /\ Cardinality(Holders(c)) <= users[c]
            /\ (\A p \in PoolIds : ~poisoned[p]) => users[c] = Cardinality(Holders(c))
        BY <2>2 DEF UsersMatchHolders
      <3> QED
        BY <2>2, <3>1, <3>2
    <2>5. /\ ~Using(f) /\ Using(f)' /\ conn'[f] = c
          /\ \A g \in Fibers : g # f => (Using(g)' <=> Using(g)) /\ conn'[g] = conn[g]
      BY <2>0, <2>1 DEF Using, TypeOK
    <2> HIDE DEF n
    <2> QED
      BY <2>1, <2>2, <2>3, <2>4, <2>5, UserAdded
  <1>3. ASSUME NEW f \in Fibers, AcquireConnect(f) PROVE UsersMatchHolders'
    <2>1. users' = users /\ poisoned' = poisoned
      BY <1>3 DEF AcquireConnect, Lock, Unlock, mutexVars, connVars
    <2>6. \A g \in Fibers : Using(g)' => Using(g) /\ conn'[g] = conn[g]
      BY <1>3 DEF AcquireConnect, Using, Inside, TypeOK, mutexVars
    <2>7. \A g \in Fibers : Using(g) => Using(g)'
      BY <1>3 DEF AcquireConnect, Using, Inside, TypeOK, mutexVars
    <2>8. \A p \in PoolIds : poisoned[p] => poisoned'[p]
      BY <2>1
    <2> QED
      BY <2>1, <2>6, <2>7, <2>8, UsersKept
  <1>4. ASSUME NEW f \in Fibers, AcquireAtLimit(f) PROVE UsersMatchHolders'
    <2>1. users' = users /\ poisoned' = poisoned
      BY <1>4 DEF AcquireAtLimit
    <2>2. PICK where \in {"relock", "awaitUser"} : pc' = [pc EXCEPT ![f] = where]
      BY <1>4 DEF AcquireAtLimit
    <2>3. \A g \in Fibers : g # f => conn'[g] = conn[g]
      BY <1>4 DEF AcquireAtLimit, TypeOK
    <2>6. \A g \in Fibers : Using(g)' => Using(g) /\ conn'[g] = conn[g]
      BY <1>4, <2>2, <2>3 DEF AcquireAtLimit, Inside, Using, TypeOK
    <2>7. \A g \in Fibers : Using(g) => Using(g)'
      BY <1>4, <2>2, <2>3 DEF AcquireAtLimit, Inside, Using, TypeOK
    <2>8. \A p \in PoolIds : poisoned[p] => poisoned'[p]
      BY <2>1
    <2> QED
      BY <2>1, <2>6, <2>7, <2>8, UsersKept
  <1>5. ASSUME NEW f \in Fibers, CreateSucceeds(f) PROVE UsersMatchHolders'
    <2> DEFINE c == created + 1
    <2>1. c \in ConnIds /\ created \in Nat
      BY <1>5, BoundAssumption DEF CreateSucceeds, TypeOK, ConnIds
    <2>2. /\ users' = [users EXCEPT ![c] = 1]
          /\ conn' = [conn EXCEPT ![f] = c]
          /\ pc' = [pc EXCEPT ![f] = "use"]
          /\ UNCHANGED poisoned
      BY <1>5 DEF CreateSucceeds, HandOver, Unlock
    <2>3. Holders(c) = {}
      BY <2>1 DEF Holders, Numbered, HeldCreated
    <2>4. Cardinality(Holders(c)) = 0
      BY <2>3, FS_EmptySet
    <2>5. /\ ~Using(f) /\ Using(f)' /\ conn'[f] = c
          /\ \A g \in Fibers : g # f => (Using(g)' <=> Using(g)) /\ conn'[g] = conn[g]
      BY <1>5, <2>2 DEF CreateSucceeds, Using, TypeOK
    <2> HIDE DEF c
    <2>6. 1 \in Nat /\ 1 <= Capacity /\ Cardinality(Holders(c)) + 1 <= 1
          /\ 1 = Cardinality(Holders(c)) + 1
      BY <2>4, ConfigAssumption
    <2> QED
      BY <2>1, <2>2, <2>5, <2>6, UserAdded
  <1>6. ASSUME NEW f \in Fibers, CreateFails(f) PROVE UsersMatchHolders'
    <2>1. /\ users' = users /\ pool[f] \in PoolIds
          /\ poisoned' = [poisoned EXCEPT ![pool[f]] = TRUE]
      BY <1>6 DEF CreateFails, Poison, Placed
    <2>2. poisoned'[pool[f]] /\ \A p \in PoolIds : poisoned[p] => poisoned'[p]
      BY <2>1 DEF TypeOK
    <2>3. \A g \in Fibers : Using(g)' => Using(g) /\ conn'[g] = conn[g]
      BY <1>6 DEF CreateFails, Using
    <2> QED
      BY <2>1, <2>2, <2>3, UsersKept
  <1>7. ASSUME NEW f \in Fibers, StartRelease(f) PROVE UsersMatchHolders'
    <2>1. users' = users /\ poisoned' = poisoned /\ pool[f] \in PoolIds
      BY <1>7 DEF StartRelease, Lock, mutexVars, connVars, Placed
    <2>2. \/ pc' = [pc EXCEPT ![f] = "lockRelease"] /\ conn' = conn
          \/ poisoned[pool[f]] /\ pc' = [pc EXCEPT ![f] = "idle"]
      BY <1>7 DEF StartRelease
    <2>3. \A g \in Fibers : g # f => conn'[g] = conn[g]
      BY <1>7 DEF StartRelease, TypeOK
    <2>4. \A g \in Fibers : Using(g)' => Using(g) /\ conn'[g] = conn[g]
      BY <1>7, <2>2, <2>3 DEF StartRelease, Using, TypeOK
    <2>5. \/ \A g \in Fibers : Using(g) => Using(g)'
          \/ poisoned'[pool[f]]
      BY <2>1, <2>2 DEF Using, TypeOK
    <2> QED
      BY <2>1, <2>4, <2>5, UsersKept
  <1>8. ASSUME NEW f \in Fibers, Release(f) PROVE UsersMatchHolders'
    <2> DEFINE c == conn[f]
    <2>0. c \in ConnIds /\ Using(f)
      BY <1>8 DEF Release, Inside, Placed, Using
    <2>1. /\ users' = [users EXCEPT ![c] = Dec(users[c])]
          /\ UNCHANGED poisoned
      BY <1>8 DEF Release, Unlock
    <2>2. /\ ~Using(f)'
          /\ \A g \in Fibers : g # f => (Using(g)' <=> Using(g)) /\ conn'[g] = conn[g]
      BY <1>8 DEF Release, Using, TypeOK
    <2> HIDE DEF c
    <2> SUFFICES ASSUME NEW d \in ConnIds
                 PROVE  /\ Cardinality(Holders(d)') <= users'[d]
                        /\ users'[d] <= Capacity
                        /\ (\A p \in PoolIds : ~poisoned[p]) =>
                              users'[d] = Cardinality(Holders(d)')
      BY <2>1 DEF UsersMatchHolders
    <2>3. CASE d = c
      <3>1. Holders(d)' = Holders(d) \ {f} /\ f \in Holders(d)
        BY <2>0, <2>2, <2>3 DEF Holders, c
      <3>2. Cardinality(Holders(d)') = Cardinality(Holders(d)) - 1
        BY <3>1, HoldersFinite, FS_RemoveElement
      <3>3. Cardinality(Holders(d)) # 0
        BY <3>1, HoldersFinite, FS_EmptySet
      <3>4. users'[d] = Dec(users[d])
        BY <2>0, <2>1, <2>3 DEF TypeOK
      <3>5. /\ Cardinality(Holders(d)) <= users[d] /\ users[d] <= Capacity /\ users[d] \in Nat
            /\ (\A p \in PoolIds : ~poisoned[p]) => users[d] = Cardinality(Holders(d))
        BY DEF UsersMatchHolders, TypeOK
      <3> QED
        BY <3>2, <3>3, <3>4, <3>5, HoldersFinite, ConfigAssumption DEF Dec
    <2>4. CASE d # c
      <3>1. Holders(d)' = Holders(d)
        BY <2>0, <2>2, <2>4 DEF Holders, c
      <3>2. users'[d] = users[d]
        BY <2>1, <2>4 DEF TypeOK
      <3> QED
        BY <3>1, <3>2 DEF UsersMatchHolders
    <2> QED
      BY <2>3, <2>4
  <1>9. ASSUME NEW f \in Fibers, StartClear(f) PROVE UsersMatchHolders'
    <2>1. users' = users /\ poisoned' = poisoned
      BY <1>9 DEF StartClear, Lock, Unlock, mutexVars, connVars
    <2>6. \A g \in Fibers : Using(g)' => Using(g) /\ conn'[g] = conn[g]
      BY <1>9 DEF StartClear, Using, Inside, TypeOK, mutexVars
    <2>7. \A g \in Fibers : Using(g) => Using(g)'
      BY <1>9 DEF StartClear, Using, Inside, TypeOK, mutexVars
    <2>8. \A p \in PoolIds : poisoned[p] => poisoned'[p]
      BY <2>1
    <2> QED
      BY <2>1, <2>6, <2>7, <2>8, UsersKept
  <1>10. ASSUME NEW f \in Fibers, Clear(f) PROVE UsersMatchHolders'
    <2>1. users' = users /\ poisoned' = poisoned
      BY <1>10 DEF Clear, Lock, Unlock, mutexVars, connVars
    <2>6. \A g \in Fibers : Using(g)' => Using(g) /\ conn'[g] = conn[g]
      BY <1>10 DEF Clear, Using, Inside, TypeOK, mutexVars
    <2>7. \A g \in Fibers : Using(g) => Using(g)'
      BY <1>10 DEF Clear, Using, Inside, TypeOK, mutexVars
    <2>8. \A p \in PoolIds : poisoned[p] => poisoned'[p]
      BY <2>1
    <2> QED
      BY <2>1, <2>6, <2>7, <2>8, UsersKept
  <1>11. ASSUME NEW f \in Fibers, CancelLock(f) PROVE UsersMatchHolders'
    <2>1. users' = users /\ poisoned' = poisoned
      BY <1>11 DEF CancelLock, Lock, Unlock, mutexVars, connVars
    <2>6. \A g \in Fibers : Using(g)' => Using(g) /\ conn'[g] = conn[g]
      BY <1>11 DEF CancelLock, Using, Inside, TypeOK, mutexVars
    <2>7. \A g \in Fibers : Using(g) => Using(g)'
      BY <1>11 DEF CancelLock, Using, Inside, TypeOK, mutexVars
    <2>8. \A p \in PoolIds : poisoned[p] => poisoned'[p]
      BY <2>1
    <2> QED
      BY <2>1, <2>6, <2>7, <2>8, UsersKept
  <1>12. ASSUME NEW c \in ConnIds, NEW why \in StaleKinds, GoStale(c, why)
        PROVE  UsersMatchHolders'
    <2>1. users' = users /\ poisoned' = poisoned /\ pc' = pc /\ conn' = conn
      BY <1>12 DEF GoStale, fiberVars, mutexVars
    <2>6. \A g \in Fibers : Using(g)' => Using(g) /\ conn'[g] = conn[g]
      BY <2>1 DEF Using
    <2>7. \A g \in Fibers : Using(g) => Using(g)'
      BY <2>1 DEF Using
    <2>8. \A p \in PoolIds : poisoned[p] => poisoned'[p]
      BY <2>1
    <2> QED
      BY <2>1, <2>6, <2>7, <2>8, UsersKept
  <1>13. ASSUME Shutdown PROVE UsersMatchHolders'
    <2>1. users' = users /\ poisoned' = poisoned /\ pc' = pc /\ conn' = conn
      BY <1>13 DEF Shutdown, fiberVars, mutexVars
    <2>6. \A g \in Fibers : Using(g)' => Using(g) /\ conn'[g] = conn[g]
      BY <2>1 DEF Using
    <2>7. \A g \in Fibers : Using(g) => Using(g)'
      BY <2>1 DEF Using
    <2>8. \A p \in PoolIds : poisoned[p] => poisoned'[p]
      BY <2>1
    <2> QED
      BY <2>1, <2>6, <2>7, <2>8, UsersKept
  <1>14. ASSUME UNCHANGED vars PROVE UsersMatchHolders'
    <2>1. users' = users /\ poisoned' = poisoned /\ pc' = pc /\ conn' = conn
      BY <1>14 DEF vars, fiberVars, mutexVars, connVars
    <2>6. \A g \in Fibers : Using(g)' => Using(g) /\ conn'[g] = conn[g]
      BY <2>1 DEF Using
    <2>7. \A g \in Fibers : Using(g) => Using(g)'
      BY <2>1 DEF Using
    <2>8. \A p \in PoolIds : poisoned[p] => poisoned'[p]
      BY <2>1
    <2> QED
      BY <2>1, <2>6, <2>7, <2>8, UsersKept
  <1> QED
    BY <1>1, <1>2, <1>3, <1>4, <1>5, <1>6, <1>7, <1>8, <1>9, <1>10, <1>11,
       <1>12, <1>13, <1>14 DEF Next

----------------------------------------------------------------------------
(* The inductive invariant and what follows from it.                          *)

Inv ==
    /\ TypeOK /\ Placed
    /\ CriticalSectionOwned
    /\ Numbered
    /\ Live
    /\ UseCountLimit
    /\ ConnectionLimit
    /\ StuckInv
    /\ UsersMatchHolders

\* The inductive invariant holds at first,
LEMMA InvInit == Init => Inv
  <1> SUFFICES ASSUME Init PROVE Inv
    OBVIOUS
  <1>1. TypeOK /\ Placed
    BY InitType
  <1>2. CriticalSectionOwned /\ StuckInv
    BY DEF Init, CriticalSectionOwned, StuckInv, StuckFull, Stuck
  <1>3. Numbered /\ Live
    BY DEF Init, Numbered, ListedCreated, OneHome, HeldCreated, HeldAtHome,
           FreshUntouched, Live, Using
  <1>4. UseCountLimit
    BY ConfigAssumption DEF Init, UseCountLimit
  <1>5. ConnectionLimit
    BY ConfigAssumption, FS_EmptySet DEF Init, ConnectionLimit
  <1>6. UsersMatchHolders
    <2>1. \A c \in ConnIds : Holders(c) = {} /\ users[c] = 0
      BY DEF Init, Holders, Using
    <2> QED
      BY <2>1, FS_EmptySet, ConfigAssumption DEF UsersMatchHolders
  <1> QED
    BY <1>1, <1>2, <1>3, <1>4, <1>5, <1>6 DEF Inv

\* and every step keeps it.
LEMMA InvStep == Inv /\ [Next]_vars => Inv'
  <1> SUFFICES ASSUME Inv, [Next]_vars PROVE Inv'
    OBVIOUS
  <1>1. TypeOK' /\ Placed'
    BY TypeStep DEF Inv
  <1>2. CriticalSectionOwned'
    BY OwnedStep DEF Inv
  <1>3. Numbered' /\ Live'
    BY NumberedStep, LiveStep DEF Inv
  <1>4. UseCountLimit'
    BY UseCountStep DEF Inv
  <1>5. ConnectionLimit'
    BY <1>1, LimitStep DEF Inv
  <1>6. StuckInv'
    BY <1>1, StuckStep DEF Inv
  <1>7. UsersMatchHolders'
    BY UsersStep DEF Inv
  <1> QED
    BY <1>1, <1>2, <1>3, <1>4, <1>5, <1>6, <1>7 DEF Inv

\* Each part of the invariant holds in every reachable state.
THEOREM Invariance == Spec => []Inv
  <1>1. Init => Inv
    BY InvInit
  <1>2. Inv /\ [Next]_vars => Inv'
    BY InvStep
  <1> QED
    BY <1>1, <1>2, PTL DEF Spec

\* A fiber that is suspended inside acquire_connection owns its ep_mutex, so two
\* fibers never run critical sections of one endpoint_pool, even when the
\* mutex is handed over, poisoned, or the waiters are cancelled.
THEOREM MutualExclusion == Spec => []CriticalSectionOwned
  <1>1. Inv => CriticalSectionOwned
    BY DEF Inv
  <1> QED
    BY <1>1, Invariance, PTL

\* pc_active_users never understates the fibers that hold a connection, never
\* exceeds the access mode, and is exact until a mutex has been poisoned.
THEOREM UsersCounted == Spec => []UsersMatchHolders
  <1>1. Inv => UsersMatchHolders
    BY DEF Inv
  <1> QED
    BY <1>1, Invariance, PTL

\* No endpoint_pool outgrows max_connections_per_endpoint, although the limit is
\* tested before the connect suspends and the list grows after it.
THEOREM LimitRespected == Spec => []ConnectionLimit
  <1>1. Inv => ConnectionLimit
    BY DEF Inv
  <1> QED
    BY <1>1, Invariance, PTL

\* No connection is reused more than max_connection_uses times, although the
\* limit is only looked at by check_health.
THEOREM UsesLimited == Spec => []UseCountLimit
  <1>1. Inv => UseCountLimit
    BY DEF Inv
  <1> QED
    BY <1>1, Invariance, PTL

\* The broadcast that ends release_connection wakes no fiber, for any number of
\* fibers, any limit and either access mode: a fiber that awaits a connection
\* owns the ep_mutex the releasing fiber must lock first.
THEOREM BroadcastIsUseless == Spec => []BroadcastReachesNobody
  <1>1. Inv => BroadcastReachesNobody
    BY DEF Inv, StuckInv, BroadcastReachesNobody
  <1> QED
    BY <1>1, Invariance, PTL

\* The wait at the limit is entered only with the pool full and each of its
\* connections saturated or stale, and stays so for as long as the fiber waits.
THEOREM StuckMeansFull == Spec => []StuckOnlyAtLimit
  <1>1. Inv => StuckOnlyAtLimit
    BY DEF Inv, StuckInv, StuckFull, Stuck, StuckOnlyAtLimit
  <1> QED
    BY <1>1, Invariance, PTL

\* The connection that acquire_connection returns is open and passes the health
\* check in the state in which it is returned, although a connect suspends the
\* fiber between the check and the return.
THEOREM HandedOutUsable == Spec => HandOutsAreUsable
  <1> DEFINE Usable ==
        \A f \in Fibers : (pc[f] # "use" /\ pc'[f] = "use") =>
          /\ flow'[conn'[f]] /\ ~closed'[conn'[f]]
          /\ stale'[conn'[f]] \cap {"protocol", "lifetime"} = {}
  <1>1. Inv /\ [Next]_vars => [Usable]_vars
    BY HandOutStep DEF Inv
  <1>2. Spec => [][Usable]_vars
    <2> HIDE DEF Usable
    <2> QED
      BY <1>1, Invariance, PTL DEF Spec
  <1> QED
    BY <1>2 DEF HandOutsAreUsable

----------------------------------------------------------------------------
(* Conpool implements Leases.                                                 *)

\* closed is never reset.
LEMMA RetiredForGood ==
    ASSUME TypeOK, [Next]_vars
    PROVE  \A c \in ConnIds : closed[c] => closed'[c]
  BY DEF Next, StartAcquire, AcquireReuse, AcquireConnect, AcquireAtLimit,
         CreateSucceeds, CreateFails, StartRelease, Release, Retire, StartClear,
         Clear, CloseAll, MarkClosed, CancelLock, GoStale, Shutdown, connVars, vars

\* The lease of each fiber, as the mapping of Lent gives it.
lease == [f \in Fibers |-> IF Using(f) THEN conn[f] ELSE None]

Returned(S) == lease' = [f \in Fibers |-> IF f \in S THEN None ELSE lease[f]]

\* Nobody gets a connection: some fibers, perhaps none, give theirs back.
LEMMA KeepOrGiveBack ==
    ASSUME \A g \in Fibers : Using(g)' => Using(g) /\ conn'[g] = conn[g]
    PROVE  \E S \in SUBSET Fibers : Returned(S)
  <1> DEFINE S == {f \in Fibers : ~Using(f)'}
  <1>1. Returned(S)
    BY DEF lease, Returned
  <1> QED
    BY <1>1

\* A fiber gets a connection.
LEMMA LendOne ==
    ASSUME Inv, NEW f \in Fibers, NEW d \in ConnIds, ~Using(f), Using(f)', conn'[f] = d,
           \A g \in Fibers : g # f => (Using(g)' <=> Using(g)) /\ conn'[g] = conn[g],
           Cardinality(Holders(d)) < Capacity, ~closed'[d]
    PROVE  Lent!Lend(f, d)
  <1>1. lease[f] = None
    BY DEF lease
  <1>2. lease' = [lease EXCEPT ![f] = d]
    BY DEF lease
  <1>3. Lent!Borrowers(d) = Holders(d)
    BY BoundAssumption DEF Lent!Borrowers, Holders, ConnIds, None
  <1>4. d \notin {c \in ConnIds : closed[c]}'
    OBVIOUS
  <1>5. Lent!Cardinality(Lent!Borrowers(d)) = Cardinality(Lent!Borrowers(d))
    BY DEF Lent!Cardinality, Cardinality
  <1>6. Lent!Lend(f, d) <=>
           /\ lease[f] = None
           /\ d \notin {c \in ConnIds : closed[c]}'
           /\ Lent!Cardinality(Lent!Borrowers(d)) < Capacity
           /\ lease' = [lease EXCEPT ![f] = d]
    BY DEF Lent!Lend, lease
  <1> QED
    BY <1>1, <1>2, <1>3, <1>4, <1>5, <1>6

\* Every step of the pool lends one connection or gives some, or none, back.
LEMMA LeaseStep ==
    ASSUME Inv, [Next]_vars
    PROVE  \/ \E S \in SUBSET Fibers : Returned(S)
           \/ \E f \in Fibers, c \in ConnIds : Lent!Lend(f, c)
  <1> DEFINE Lends == \E f \in Fibers, c \in ConnIds : Lent!Lend(f, c)
             Kept == \A g \in Fibers : Using(g)' => Using(g) /\ conn'[g] = conn[g]
  <1>0. TypeOK /\ Placed /\ Numbered /\ UsersMatchHolders /\ Live
    BY DEF Inv
  <1>1. ASSUME NEW f \in Fibers,
               StartAcquire(f) \/ AcquireConnect(f) \/ StartClear(f) \/ Clear(f) \/ CancelLock(f)
        PROVE  Kept
    BY <1>0, <1>1 DEF StartAcquire, AcquireConnect, StartClear, Clear, CancelLock, Using,
                      TypeOK
  <1>2. ASSUME NEW f \in Fibers, AcquireAtLimit(f) PROVE Kept
    <2>1. PICK where \in {"relock", "awaitUser"} : pc' = [pc EXCEPT ![f] = where]
      BY <1>2 DEF AcquireAtLimit
    <2> QED
      BY <1>0, <1>2, <2>1 DEF AcquireAtLimit, Using, TypeOK
  <1>3. ASSUME NEW f \in Fibers, CreateFails(f) \/ StartRelease(f) \/ Release(f) PROVE Kept
    BY <1>0, <1>3 DEF CreateFails, StartRelease, Release, Inside, Using, TypeOK
  <1>4. ASSUME NEW c \in ConnIds, NEW why \in StaleKinds, GoStale(c, why) PROVE Kept
    BY <1>4 DEF GoStale, Using, fiberVars
  <1>5. ASSUME Shutdown \/ UNCHANGED vars PROVE Kept
    BY <1>5 DEF Shutdown, Using, fiberVars, vars
  <1>6. ASSUME NEW f \in Fibers, AcquireReuse(f) PROVE Lends
    <2>0. pool[f] \in PoolIds /\ pc[f] = "lockAcquire"
      BY <1>0, <1>6 DEF AcquireReuse, Inside, Placed
    <2>1. PICK c \in Available(pool[f]) :
             /\ conn' = [conn EXCEPT ![f] = c]
             /\ pc' = [pc EXCEPT ![f] = "use"]
      BY <1>6 DEF AcquireReuse, HandOver, Newest
    <2>2. c \in ConnIds /\ users[c] < Capacity /\ ~closed[c] /\ Healthy(c)
      BY <1>0, <2>0, <2>1 DEF Available, Open, TypeOK
    <2>3. Cardinality(Holders(c)) < Capacity
      BY <1>0, <2>2, HoldersFinite, ConfigAssumption DEF UsersMatchHolders, TypeOK
    <2>4. ~closed'[c]
      BY <1>6, <2>2 DEF AcquireReuse, MarkClosed, Passed
    <2>5. /\ ~Using(f) /\ Using(f)' /\ conn'[f] = c
          /\ \A g \in Fibers : g # f => (Using(g)' <=> Using(g)) /\ conn'[g] = conn[g]
      BY <1>0, <2>0, <2>1 DEF Using, TypeOK
    <2> QED
      BY <2>2, <2>3, <2>4, <2>5, LendOne
  <1>7. ASSUME NEW f \in Fibers, CreateSucceeds(f) PROVE Lends
    <2> DEFINE c == created + 1
    <2>1. c \in ConnIds /\ created \in Nat /\ c > created
      BY <1>0, <1>7, BoundAssumption DEF CreateSucceeds, TypeOK, ConnIds
    <2>2. /\ conn' = [conn EXCEPT ![f] = c]
          /\ pc' = [pc EXCEPT ![f] = "use"]
          /\ closed' = closed
      BY <1>7 DEF CreateSucceeds, HandOver
    <2>3. Holders(c) = {}
      BY <1>0, <2>1 DEF Holders, Numbered, HeldCreated
    <2>4. Cardinality(Holders(c)) < Capacity
      BY <2>3, FS_EmptySet, ConfigAssumption
    <2>5. /\ ~Using(f) /\ Using(f)' /\ conn'[f] = c
          /\ \A g \in Fibers : g # f => (Using(g)' <=> Using(g)) /\ conn'[g] = conn[g]
      BY <1>0, <1>7, <2>2 DEF CreateSucceeds, Using, TypeOK
    <2>6. ~closed'[c]
      BY <1>0, <2>1, <2>2 DEF Numbered, FreshUntouched
    <2> HIDE DEF c
    <2> QED
      BY <2>1, <2>4, <2>5, <2>6, LendOne
  <1>8. Kept \/ Lends
    BY <1>1, <1>2, <1>3, <1>4, <1>5, <1>6, <1>7 DEF Next
  <1> QED
    BY <1>8, KeepOrGiveBack

\* Every behaviour of the pool is one of Leases: at most Capacity fibers have a
\* connection at a time, a retired connection is never lent again, and nothing
\* the pool does (connects, failures, clears, hand-overs) shows in between.
THEOREM Implementation == Spec => LeasesSpec
  <1>1. Init => Lent!Init
    BY DEF Init, Lent!Init, Using
  <1>2. Inv /\ [Next]_vars => Lent!Next
    <2> SUFFICES ASSUME Inv, [Next]_vars PROVE Lent!Next
      OBVIOUS
    <2>1. \A c \in ConnIds : closed[c] => closed'[c]
      BY RetiredForGood DEF Inv
    <2>2. {c \in ConnIds : closed[c]} \subseteq {c \in ConnIds : closed[c]}'
      BY <2>1
    <2>3. (\E S \in SUBSET Fibers : Returned(S)) => \E S \in SUBSET Fibers : Lent!GiveBack(S)
      BY DEF Returned, lease, Lent!GiveBack
    <2> QED
      BY <2>2, <2>3, LeaseStep DEF Lent!Next
  <1> QED
    BY <1>1, <1>2, Invariance, PTL DEF Spec, LeasesSpec, Lent!Spec
=============================================================================
