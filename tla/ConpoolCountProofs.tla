------------------------- MODULE ConpoolCountProofs -------------------------
(* The mutexes, the counters and the sockets of Conpool, for every value of   *)
(* its constants.                                                             *)
EXTENDS ConpoolSafetyProofs

----------------------------------------------------------------------------
(* Eio.Mutex as the pool uses it.                                             *)

\* Where a fiber stands that waits to lock, and one that waits or owns.
Waiting == {"lockAcquire", "lockRelease", "lockClear"}
Owning == Waiting \cup {"connect", "awaitUser", "relock"}

\* The owner of a mutex is a fiber of its pool; a queue has every waiter once,
\* and the owner only when that has locked the mutex twice.
MutexSoundAt(p) ==
    /\ poisoned[p] => holder[p] = NoFiber
    /\ queue[p] # << >> => holder[p] # NoFiber
    /\ holder[p] # NoFiber => pool[holder[p]] = p /\ pc[holder[p]] \in Owning
    /\ \A i \in 1 .. Len(queue[p]) :
          LET f == queue[p][i] IN
          /\ pool[f] = p
          /\ (pc[f] \in Waiting /\ f # holder[p]) \/ pc[f] = "relock"
          /\ \A j \in 1 .. Len(queue[p]) : f = queue[p][j] => i = j

MutexSound == \A p \in PoolIds : MutexSoundAt(p)

\* A step that leaves a mutex alone, and moves no fiber of its pool but the
\* owner.
LEMMA MutexKept ==
    ASSUME NEW q \in PoolIds, TypeOK, MutexSoundAt(q),
           holder'[q] = holder[q], queue'[q] = queue[q],
           poisoned'[q] = poisoned[q],
           \A g \in Fibers : pool[g] = q /\ pc[g] \in Owning =>
              /\ pool'[g] = q
              /\ \/ pc'[g] = pc[g]
                 \/ g = holder[q] /\ pc[g] # "relock" /\ pc'[g] \in Owning
    PROVE  MutexSoundAt(q)'
  <1>1. /\ holder[q] \in Fibers \cup {NoFiber} /\ queue[q] \in Seq(Fibers)
        /\ \A i \in 1 .. Len(queue[q]) : queue[q][i] \in Fibers
    BY ElementOfSeq DEF TypeOK
  <1>2. holder'[q] # NoFiber => pool'[holder'[q]] = q /\ pc'[holder'[q]] \in Owning
    BY <1>1 DEF MutexSoundAt
  <1>3. ASSUME NEW i \in 1 .. Len(queue'[q])
        PROVE  LET f == queue'[q][i] IN
               /\ pool'[f] = q
               /\ (pc'[f] \in Waiting /\ f # holder'[q]) \/ pc'[f] = "relock"
               /\ \A j \in 1 .. Len(queue'[q]) : f = queue'[q][j] => i = j
    <2>1. i \in 1 .. Len(queue[q])
      BY <1>3
    <2>2. queue[q][i] \in Fibers
      BY <1>1, <2>1
    <2>3. /\ pool[queue[q][i]] = q
          /\ (pc[queue[q][i]] \in Waiting /\ queue[q][i] # holder[q]) \/ pc[queue[q][i]] = "relock"
          /\ \A j \in 1 .. Len(queue[q]) : queue[q][i] = queue[q][j] => i = j
      BY <2>1 DEF MutexSoundAt
    <2> QED
      BY <2>2, <2>3 DEF Owning, Waiting
  <1> QED
    BY <1>2, <1>3 DEF MutexSoundAt

\* A fiber that stands outside starts to lock.
LEMMA MutexLocked ==
    ASSUME NEW p \in PoolIds, NEW f \in Fibers, TypeOK, MutexSound, Lock(f, p),
           pc[f] \notin Owning, pc'[f] \in Waiting, pool'[f] = p,
           \A g \in Fibers : g # f => pc'[g] = pc[g] /\ pool'[g] = pool[g]
    PROVE  MutexSound'
  <1> SUFFICES ASSUME NEW q \in PoolIds PROVE MutexSoundAt(q)'
    BY DEF MutexSound
  <1>0. MutexSoundAt(q) /\ MutexSoundAt(p)
    BY DEF MutexSound
  <1>1. CASE q # p
    <2>1. holder'[q] = holder[q] /\ queue'[q] = queue[q] /\ poisoned'[q] = poisoned[q]
      BY <1>1 DEF Lock, TypeOK
    <2> QED
      BY <1>0, <2>1, MutexKept
  <1>2. CASE q = p /\ holder[p] = NoFiber
    <2>1. /\ holder'[p] = f /\ queue'[p] = queue[p] /\ ~poisoned'[p]
      BY <1>2 DEF Lock, TypeOK
    <2>2. queue[p] = << >>
      BY <1>0, <1>2 DEF MutexSoundAt
    <2>3. Len(queue'[p]) = 0
      BY <2>1, <2>2
    <2> QED
      BY <1>2, <2>1, <2>3, BoundAssumption DEF MutexSoundAt, Owning, Waiting
  <1>3. CASE q = p /\ holder[p] # NoFiber
    <2> DEFINE s == queue[p]
    <2>0. s \in Seq(Fibers) /\ Len(s) \in Nat
      BY DEF TypeOK
    <2>1. /\ holder'[p] = holder[p] /\ queue'[p] = Append(s, f) /\ ~poisoned'[p]
      BY <1>3 DEF Lock, TypeOK
    <2>2. holder[p] \in Fibers /\ holder[p] # f
      BY <1>0, <1>3 DEF MutexSoundAt, TypeOK
    <2>3. pool'[holder[p]] = p /\ pc'[holder[p]] \in Owning
      BY <1>0, <1>3, <2>2 DEF MutexSoundAt
    <2>4. \A i \in 1 .. Len(s) :
             /\ s[i] \in Fibers
             /\ pool[s[i]] = p
             /\ (pc[s[i]] \in Waiting /\ s[i] # holder[p]) \/ pc[s[i]] = "relock"
             /\ \A j \in 1 .. Len(s) : s[i] = s[j] => i = j
      BY <1>0, <2>0, ElementOfSeq DEF MutexSoundAt
    <2>5. \A i \in 1 .. Len(s) : s[i] # f
      BY <2>4 DEF Owning
    <2> HIDE DEF s
    <2>6. /\ Len(Append(s, f)) = Len(s) + 1
          /\ \A i \in 1 .. Len(s) : Append(s, f)[i] = s[i]
          /\ Append(s, f)[Len(s) + 1] = f
      BY <2>0, AppendProperties
    <2>7. \A i \in 1 .. Len(s) + 1 : i \in 1 .. Len(s) \/ i = Len(s) + 1
      BY <2>0
    <2>8. ASSUME NEW i \in 1 .. Len(s) + 1
          PROVE  LET g == Append(s, f)[i] IN
                 /\ pool'[g] = p
                 /\ (pc'[g] \in Waiting /\ g # holder'[p]) \/ pc'[g] = "relock"
                 /\ \A j \in 1 .. Len(s) + 1 : g = Append(s, f)[j] => i = j
      <3>1. CASE i \in 1 .. Len(s)
        BY <3>1, <2>1, <2>4, <2>5, <2>6, <2>7
      <3>2. CASE i = Len(s) + 1
        BY <3>2, <2>1, <2>2, <2>5, <2>6, <2>7
      <3> QED
        BY <3>1, <3>2, <2>7
    <2> QED
      BY <1>3, <2>1, <2>2, <2>3, <2>6, <2>8 DEF MutexSoundAt
  <1> QED
    BY <1>1, <1>2, <1>3

\* The owner of a mutex releases it.
LEMMA MutexUnlocked ==
    ASSUME NEW p \in PoolIds, NEW f \in Fibers, TypeOK, MutexSound, Unlock(p),
           CriticalSectionOwned, holder[p] = f, pc[f] # "relock", pool' = pool,
           \A g \in Fibers : g # f => pc'[g] = pc[g]
    PROVE  MutexSound'
  <1> SUFFICES ASSUME NEW q \in PoolIds PROVE MutexSoundAt(q)'
    BY DEF MutexSound
  <1>0. MutexSoundAt(q) /\ MutexSoundAt(p)
    BY DEF MutexSound
  <1>p. pool[f] = p
    BY <1>0, BoundAssumption DEF MutexSoundAt
  <1>1. CASE q # p
    <2>1. holder'[q] = holder[q] /\ queue'[q] = queue[q] /\ poisoned'[q] = poisoned[q]
      BY <1>1 DEF Unlock, TypeOK
    <2> QED
      BY <1>0, <1>1, <1>p, <2>1, MutexKept
  <1>2. CASE q = p /\ queue[p] = << >>
    <2>1. /\ holder'[p] = NoFiber /\ queue'[p] = << >>
      BY <1>2 DEF Unlock, TypeOK
    <2> QED
      BY <1>2, <2>1 DEF MutexSoundAt
  <1>3. CASE q = p /\ queue[p] # << >>
    <2> DEFINE s == queue[p]
    <2>0. s \in Seq(Fibers) /\ Len(s) \in Nat /\ s # << >>
      BY <1>3 DEF TypeOK
    <2>1. /\ holder'[p] = Head(s) /\ queue'[p] = Tail(s) /\ poisoned'[p] = poisoned[p]
      BY <1>3 DEF Unlock, TypeOK
    <2>2. \A i \in 1 .. Len(s) :
             /\ s[i] \in Fibers
             /\ pool[s[i]] = p
             /\ (pc[s[i]] \in Waiting /\ s[i] # holder[p]) \/ pc[s[i]] = "relock"
             /\ \A j \in 1 .. Len(s) : s[i] = s[j] => i = j
      BY <1>0, <2>0, ElementOfSeq DEF MutexSoundAt
    <2>3. \A i \in 1 .. Len(s) : pc[s[i]] # "relock" /\ s[i] # f /\ pc[s[i]] \in Waiting
      BY <2>2 DEF CriticalSectionOwned
    <2>4. ~poisoned'[p]
      BY <1>0, <2>1, BoundAssumption DEF MutexSoundAt, TypeOK
    <2> HIDE DEF s
    <2>5. /\ Head(s) = s[1] /\ 1 \in 1 .. Len(s)
          /\ Len(Tail(s)) = Len(s) - 1
          /\ \A i \in 1 .. Len(s) - 1 : Tail(s)[i] = s[i + 1]
      BY <2>0, HeadTailProperties, EmptySeq
    <2>6. \A i \in 1 .. Len(s) - 1 : i + 1 \in 1 .. Len(s) /\ i + 1 # 1
      BY <2>0
    <2>7. pool'[Head(s)] = p /\ pc'[Head(s)] \in Owning
      BY <2>2, <2>3, <2>5 DEF Owning
    <2>8. ASSUME NEW i \in 1 .. Len(s) - 1
          PROVE  LET g == Tail(s)[i] IN
                 /\ pool'[g] = p
                 /\ (pc'[g] \in Waiting /\ g # holder'[p]) \/ pc'[g] = "relock"
                 /\ \A j \in 1 .. Len(s) - 1 : g = Tail(s)[j] => i = j
      <3>1. i + 1 \in 1 .. Len(s) /\ i + 1 # 1 /\ Tail(s)[i] = s[i + 1]
        BY <2>5, <2>6
      <3>2. s[i + 1] # Head(s)
        BY <3>1, <2>2, <2>5
      <3>3. \A j \in 1 .. Len(s) - 1 : s[i + 1] = s[j + 1] => i + 1 = j + 1
        BY <3>1, <2>2, <2>6
      <3>4. pc'[s[i + 1]] \in Waiting /\ pool'[s[i + 1]] = p
        BY <3>1, <2>2, <2>3
      <3> QED
        BY <3>1, <3>2, <3>3, <3>4, <2>1, <2>5
    <2>9. Head(s) \in Fibers
      BY <2>2, <2>5
    <2> QED
      BY <1>3, <2>1, <2>4, <2>5, <2>7, <2>8, <2>9, BoundAssumption DEF MutexSoundAt
  <1> QED
    BY <1>1, <1>2, <1>3

\* What RemoveAt leaves.
LEMMA RemoveAtElements ==
    ASSUME NEW S, NEW s \in Seq(S), NEW k \in 1 .. Len(s)
    PROVE  /\ Len(RemoveAt(s, k)) = Len(s) - 1
           /\ \A i \in 1 .. Len(s) - 1 :
                 RemoveAt(s, k)[i] = IF i < k THEN s[i] ELSE s[i + 1]
  <1> DEFINE a == SubSeq(s, 1, k - 1)
             b == SubSeq(s, k + 1, Len(s))
  <1>0. Len(s) \in Nat /\ k \in Nat
    OBVIOUS
  <1>1. /\ a \in Seq(S) /\ Len(a) = k - 1
        /\ \A i \in 1 .. k - 1 : a[i] = s[i]
    BY <1>0, SubSeqProperties
  <1>2. /\ b \in Seq(S) /\ Len(b) = Len(s) - k
        /\ \A i \in 1 .. Len(s) - k : b[i] = s[k + i]
    BY <1>0, SubSeqProperties
  <1> HIDE DEF a, b
  <1>3. /\ Len(a \o b) = Len(a) + Len(b)
        /\ \A i \in 1 .. Len(a) + Len(b) :
              (a \o b)[i] = IF i <= Len(a) THEN a[i] ELSE b[i - Len(a)]
    BY <1>1, <1>2, ConcatProperties
  <1>4. RemoveAt(s, k) = a \o b
    BY DEF RemoveAt, a, b
  <1>5. ASSUME NEW i \in 1 .. Len(s) - 1
        PROVE  (a \o b)[i] = IF i < k THEN s[i] ELSE s[i + 1]
    <2>1. CASE i < k
      BY <2>1, <1>0, <1>1, <1>2, <1>3
    <2>2. CASE ~(i < k)
      <3>1. i - (k - 1) \in 1 .. Len(s) - k /\ k + (i - (k - 1)) = i + 1
        BY <2>2, <1>0
      <3>2. (a \o b)[i] = b[i - (k - 1)]
        BY <2>2, <1>0, <1>1, <1>2, <1>3
      <3> QED
        BY <2>2, <3>1, <3>2, <1>2
    <2> QED
      BY <2>1, <2>2
  <1>6. Len(a \o b) = Len(s) - 1
    BY <1>0, <1>1, <1>2, <1>3
  <1> QED
    BY <1>4, <1>5, <1>6

\* No step breaks the mutexes of the pools: in particular no waiter is lost.
LEMMA MutexStep ==
    ASSUME Inv, Inv', MutexSound, [Next]_vars
    PROVE  MutexSound'
  <1> USE DEF Inv
  <1>1. ASSUME NEW f \in Fibers, StartAcquire(f) PROVE MutexSound'
    <2>1. CASE \E p \in PoolIds :
                 /\ Lock(f, p)
                 /\ pc' = [pc EXCEPT ![f] = "lockAcquire"]
                 /\ pool' = [pool EXCEPT ![f] = p]
      <3>1. PICK p \in PoolIds :
                 /\ Lock(f, p)
                 /\ pc' = [pc EXCEPT ![f] = "lockAcquire"]
                 /\ pool' = [pool EXCEPT ![f] = p]
        BY <2>1
      <3>2. pc[f] \notin Owning /\ pc'[f] \in Waiting /\ pool'[f] = p
        BY <1>1, <3>1 DEF StartAcquire, TypeOK, Owning, Waiting
      <3>3. \A g \in Fibers : g # f => pc'[g] = pc[g] /\ pool'[g] = pool[g]
        BY <3>1 DEF TypeOK
      <3> QED
        BY <3>1, <3>2, <3>3, MutexLocked
    <2>2. CASE UNCHANGED <<mutexVars, pc, pool>>
      BY <2>2 DEF MutexSound, MutexSoundAt, mutexVars
    <2> DEFINE p == IF table = None THEN made + 1 ELSE table
    <2>3. /\ table \in 0 .. made /\ made \in 0 .. MaxPools
          /\ table = 0 => made < MaxPools
      BY <1>1 DEF StartAcquire, TypeOK, None
    <2>4. p \in PoolIds
      BY <2>3, BoundAssumption DEF PoolIds, None
    <2> QED
      BY <1>1, <2>1, <2>2, <2>4 DEF StartAcquire
  <1>2. ASSUME NEW f \in Fibers, AcquireReuse(f) PROVE MutexSound'
    <2>1. /\ pool[f] \in PoolIds /\ Unlock(pool[f]) /\ holder[pool[f]] = f
          /\ pc[f] = "lockAcquire" /\ pool' = pool /\ pc' = [pc EXCEPT ![f] = "use"]
      BY <1>2 DEF AcquireReuse, HandOver, Inside, Placed
    <2> QED
      BY <2>1, MutexUnlocked DEF TypeOK
  <1>3. ASSUME NEW f \in Fibers, AcquireConnect(f) PROVE MutexSound'
    <2>1. /\ holder[pool[f]] = f /\ pc[f] = "lockAcquire" /\ pool' = pool
          /\ pc' = [pc EXCEPT ![f] = "connect"] /\ UNCHANGED mutexVars
      BY <1>3 DEF AcquireConnect, Inside
    <2> QED
      BY <2>1, MutexKept DEF MutexSound, mutexVars, TypeOK, Owning
  <1>4. ASSUME NEW f \in Fibers, AcquireAtLimit(f) PROVE MutexSound'
    <2> DEFINE p == pool[f]
    <2>0. /\ p \in PoolIds /\ holder[p] = f /\ pc[f] = "lockAcquire" /\ pool' = pool
          /\ holder' = holder /\ poisoned' = poisoned
      BY <1>4 DEF AcquireAtLimit, Inside, Placed
    <2>1. \/ queue' = [queue EXCEPT ![p] = Append(@, f)] /\ pc' = [pc EXCEPT ![f] = "relock"]
          \/ queue' = queue /\ pc' = [pc EXCEPT ![f] = "awaitUser"]
      BY <1>4 DEF AcquireAtLimit
    <2> HIDE DEF p
    <2>2. CASE queue' = queue /\ pc' = [pc EXCEPT ![f] = "awaitUser"]
      BY <2>0, <2>2, MutexKept DEF MutexSound, TypeOK, Owning, p
    <2>3. CASE /\ queue' = [queue EXCEPT ![p] = Append(@, f)]
               /\ pc' = [pc EXCEPT ![f] = "relock"]
      <3> SUFFICES ASSUME NEW q \in PoolIds PROVE MutexSoundAt(q)'
        BY DEF MutexSound
      <3>0. MutexSoundAt(q)
        BY DEF MutexSound
      <3>1. CASE q # p
        <4>1. queue'[q] = queue[q]
          BY <2>3, <3>1 DEF TypeOK
        <4> QED
          BY <2>0, <2>3, <3>0, <3>1, <4>1, MutexKept DEF TypeOK, p
      <3>2. CASE q = p
        <4> DEFINE s == queue[p]
        <4>0. s \in Seq(Fibers) /\ Len(s) \in Nat
          BY <2>0 DEF TypeOK
        <4>1. queue'[p] = Append(s, f)
          BY <2>0, <2>3 DEF TypeOK
        <4>2. \A i \in 1 .. Len(s) :
                 /\ s[i] \in Fibers
                 /\ pool[s[i]] = p
                 /\ (pc[s[i]] \in Waiting /\ s[i] # holder[p]) \/ pc[s[i]] = "relock"
                 /\ \A j \in 1 .. Len(s) : s[i] = s[j] => i = j
          BY <3>0, <3>2, <4>0, ElementOfSeq DEF MutexSoundAt
        <4>3. \A i \in 1 .. Len(s) : s[i] # f
          BY <4>2, <2>0
        <4> HIDE DEF s
        <4>4. /\ Len(Append(s, f)) = Len(s) + 1
              /\ \A i \in 1 .. Len(s) : Append(s, f)[i] = s[i]
              /\ Append(s, f)[Len(s) + 1] = f
          BY <4>0, AppendProperties
        <4>5. \A i \in 1 .. Len(s) + 1 : i \in 1 .. Len(s) \/ i = Len(s) + 1
          BY <4>0
        <4>6. /\ pc'[f] = "relock" /\ pool'[f] = p
              /\ \A g \in Fibers : g # f => pc'[g] = pc[g]
          BY <2>0, <2>3 DEF TypeOK, p
        <4>7. ASSUME NEW i \in 1 .. Len(s) + 1
              PROVE  LET g == Append(s, f)[i] IN
                     /\ pool'[g] = p
                     /\ (pc'[g] \in Waiting /\ g # holder'[p]) \/ pc'[g] = "relock"
                     /\ \A j \in 1 .. Len(s) + 1 : g = Append(s, f)[j] => i = j
          <5>1. CASE i \in 1 .. Len(s)
            BY <5>1, <2>0, <4>2, <4>3, <4>4, <4>5, <4>6
          <5>2. CASE i = Len(s) + 1
            BY <5>2, <2>0, <4>3, <4>4, <4>5, <4>6
          <5> QED
            BY <5>1, <5>2, <4>5
        <4>8. ~poisoned'[p]
          BY <2>0, <3>0, <3>2, BoundAssumption DEF MutexSoundAt, TypeOK
        <4>9. holder'[p] = f /\ f # NoFiber
          BY <2>0, BoundAssumption
        <4> QED
          BY <2>0, <3>2, <4>1, <4>4, <4>6, <4>7, <4>8, <4>9 DEF MutexSoundAt, Owning
      <3> QED
        BY <3>1, <3>2
    <2> QED
      BY <2>1, <2>2, <2>3
  <1>5. ASSUME NEW f \in Fibers, CreateSucceeds(f) PROVE MutexSound'
    <2>1. /\ pool[f] \in PoolIds /\ Unlock(pool[f]) /\ holder[pool[f]] = f
          /\ pc[f] = "connect" /\ pool' = pool /\ pc' = [pc EXCEPT ![f] = "use"]
      BY <1>5 DEF CreateSucceeds, HandOver, Placed, CriticalSectionOwned
    <2> QED
      BY <2>1, MutexUnlocked DEF TypeOK
  <1>6. ASSUME NEW f \in Fibers, CreateFails(f) PROVE MutexSound'
    <2> DEFINE p == pool[f]
    <2>0. /\ p \in PoolIds /\ pool' = pool /\ pc[f] = "connect" /\ holder[p] = f
          /\ Poison(p)
          /\ pc' = [g \in Fibers |-> IF g \in {f} \cup ToSet(queue[p]) THEN "idle" ELSE pc[g]]
      BY <1>6 DEF CreateFails, Placed, CriticalSectionOwned
    <2> HIDE DEF p
    <2> SUFFICES ASSUME NEW q \in PoolIds PROVE MutexSoundAt(q)'
      BY DEF MutexSound
    <2>1. CASE q = p
      <3>1. holder'[p] = NoFiber /\ queue'[p] = << >>
        BY <2>0 DEF Poison, TypeOK
      <3> QED
        BY <2>1, <3>1 DEF MutexSoundAt
    <2>2. CASE q # p
      <3>1. holder'[q] = holder[q] /\ queue'[q] = queue[q] /\ poisoned'[q] = poisoned[q]
        BY <2>0, <2>2 DEF Poison, TypeOK
      <3>2. \A g \in ToSet(queue[p]) : pool[g] = p
        BY <2>0 DEF ToSet, MutexSound, MutexSoundAt, TypeOK
      <3>3. \A g \in Fibers : pool[g] = q => pc'[g] = pc[g]
        BY <2>0, <2>2, <3>2 DEF p
      <3> QED
        BY <2>0, <3>1, <3>3, MutexKept DEF MutexSound
    <2> QED
      BY <2>1, <2>2
  <1>7. ASSUME NEW f \in Fibers, StartRelease(f) PROVE MutexSound'
    <2>0. pool[f] \in PoolIds /\ pool' = pool /\ pc[f] = "use"
      BY <1>7 DEF StartRelease, Placed
    <2>1. CASE Lock(f, pool[f]) /\ pc' = [pc EXCEPT ![f] = "lockRelease"]
      <3>1. pc[f] \notin Owning /\ pc'[f] \in Waiting
        BY <2>0, <2>1 DEF TypeOK, Owning, Waiting
      <3>2. \A g \in Fibers : g # f => pc'[g] = pc[g]
        BY <2>1 DEF TypeOK
      <3> QED
        BY <2>0, <2>1, <3>1, <3>2, MutexLocked
    <2>2. CASE UNCHANGED mutexVars /\ pc' = [pc EXCEPT ![f] = "idle"]
      <3>1. pc[f] \notin Owning
        BY <2>0 DEF Owning, Waiting
      <3> QED
        BY <2>0, <2>2, <3>1, MutexKept DEF MutexSound, mutexVars, TypeOK
    <2> QED
      BY <1>7, <2>1, <2>2 DEF StartRelease
  <1>8. ASSUME NEW f \in Fibers, Release(f) PROVE MutexSound'
    <2>1. /\ pool[f] \in PoolIds /\ Unlock(pool[f]) /\ holder[pool[f]] = f
          /\ pc[f] = "lockRelease" /\ pool' = pool
      BY <1>8 DEF Release, Inside, Placed
    <2>2. \A g \in Fibers : g # f => pc'[g] = pc[g] \/ pc'[g] = "woken"
      BY <1>8 DEF Release
    <2>3. \A g \in Fibers : g # f => pc'[g] = pc[g]
      BY <2>2 DEF StuckInv
    <2> QED
      BY <2>1, <2>3, MutexUnlocked
  <1>9. ASSUME NEW f \in Fibers, StartClear(f) PROVE MutexSound'
    <2>1. CASE /\ Lock(f, table) /\ pc' = [pc EXCEPT ![f] = "lockClear"]
               /\ pool' = [pool EXCEPT ![f] = table]
      <3>0. /\ table \in 0 .. made /\ made \in 0 .. MaxPools
            /\ table # 0 /\ pc[f] = "idle"
        BY <1>9 DEF StartClear, TypeOK, None
      <3>1. table \in PoolIds /\ pc[f] = "idle"
        BY <3>0, BoundAssumption DEF PoolIds
      <3>2. pc[f] \notin Owning /\ pc'[f] \in Waiting /\ pool'[f] = table
        BY <2>1, <3>1 DEF TypeOK, Owning, Waiting
      <3>3. \A g \in Fibers : g # f => pc'[g] = pc[g] /\ pool'[g] = pool[g]
        BY <2>1 DEF TypeOK
      <3> QED
        BY <2>1, <3>1, <3>2, <3>3, MutexLocked
    <2>2. CASE UNCHANGED <<mutexVars, pc, pool>>
      BY <2>2 DEF MutexSound, MutexSoundAt, mutexVars
    <2> QED
      BY <1>9, <2>1, <2>2 DEF StartClear
  <1>10. ASSUME NEW f \in Fibers, Clear(f) PROVE MutexSound'
    <2>1. /\ pool[f] \in PoolIds /\ Unlock(pool[f]) /\ holder[pool[f]] = f
          /\ pc[f] = "lockClear" /\ pool' = pool /\ pc' = [pc EXCEPT ![f] = "idle"]
      BY <1>10 DEF Clear, Inside, Placed
    <2> QED
      BY <2>1, MutexUnlocked DEF TypeOK
  <1>11. ASSUME NEW f \in Fibers, CancelLock(f) PROVE MutexSound'
    <2> DEFINE p == pool[f]
               s == queue[p]
    <2>0. /\ p \in PoolIds /\ pool' = pool /\ pc[f] = "lockAcquire" /\ holder[p] # f
          /\ holder' = holder /\ poisoned' = poisoned
          /\ pc' = [pc EXCEPT ![f] = "idle"]
      BY <1>11 DEF CancelLock, Placed
    <2>1. PICK k \in DOMAIN s : s[k] = f /\ queue' = [queue EXCEPT ![p] = RemoveAt(@, k)]
      BY <1>11 DEF CancelLock
    <2> HIDE DEF p
    <2> SUFFICES ASSUME NEW q \in PoolIds PROVE MutexSoundAt(q)'
      BY DEF MutexSound
    <2>2. MutexSoundAt(q)
      BY DEF MutexSound
    <2>3. CASE q # p
      <3>1. queue'[q] = queue[q]
        BY <2>1, <2>3 DEF TypeOK
      <3> QED
        BY <2>0, <2>2, <2>3, <3>1, MutexKept DEF TypeOK, p
    <2>4. CASE q = p
      <3>0. s \in Seq(Fibers) /\ Len(s) \in Nat /\ k \in 1 .. Len(s)
        BY <2>0, <2>1 DEF TypeOK
      <3>1. queue'[p] = RemoveAt(s, k)
        BY <2>0, <2>1 DEF TypeOK
      <3>2. \A i \in 1 .. Len(s) :
               /\ s[i] \in Fibers
               /\ pool[s[i]] = p
               /\ (pc[s[i]] \in Waiting /\ s[i] # holder[p]) \/ pc[s[i]] = "relock"
               /\ \A j \in 1 .. Len(s) : s[i] = s[j] => i = j
        BY <2>2, <2>4, <3>0, ElementOfSeq DEF MutexSoundAt
      <3>3. /\ poisoned[p] => holder[p] = NoFiber
            /\ s # << >> => holder[p] # NoFiber
            /\ holder[p] # NoFiber => pool[holder[p]] = p /\ pc[holder[p]] \in Owning
        BY <2>2, <2>4 DEF MutexSoundAt
      <3>c. \A i \in 1 .. Len(s) : i # k => s[i] # f
        BY <3>0, <3>2, <2>1
      <3>d. s # << >>
        BY <3>0
      <3> HIDE DEF s
      <3> DEFINE t == RemoveAt(s, k)
      <3>4. /\ Len(t) = Len(s) - 1
            /\ \A i \in 1 .. Len(s) - 1 : t[i] = IF i < k THEN s[i] ELSE s[i + 1]
        BY <3>0, RemoveAtElements
      <3> HIDE DEF t
      <3>5. ASSUME NEW i \in 1 .. Len(t)
            PROVE  /\ i \in 1 .. Len(s) /\ i + 1 \in 1 .. Len(s)
                   /\ \E m \in 1 .. Len(s) : m # k /\ t[i] = s[m]
        <4>1. CASE i < k
          BY <3>0, <3>4, <4>1
        <4>2. CASE ~(i < k)
          BY <3>0, <3>4, <4>2
        <4> QED
          BY <4>1, <4>2
      <3>6. \A i, j \in 1 .. Len(t) : t[i] = t[j] => i = j
        <4> SUFFICES ASSUME NEW i \in 1 .. Len(t), NEW j \in 1 .. Len(t), t[i] = t[j]
                     PROVE  i = j
          OBVIOUS
        <4>1. /\ t[i] = IF i < k THEN s[i] ELSE s[i + 1]
              /\ t[j] = IF j < k THEN s[j] ELSE s[j + 1]
          BY <3>4
        <4>2. /\ i \in 1 .. Len(s) /\ i + 1 \in 1 .. Len(s)
              /\ j \in 1 .. Len(s) /\ j + 1 \in 1 .. Len(s)
          BY <3>5
        <4>3. \A m, n \in 1 .. Len(s) : s[m] = s[n] => m = n
          BY <3>2
        <4>a. CASE i < k /\ j < k
          BY <4>1, <4>2, <4>3, <4>a
        <4>b. CASE i < k /\ ~(j < k)
          <5>1. i = j + 1
            BY <4>1, <4>2, <4>3, <4>b
          <5> QED
            BY <3>0, <4>b, <5>1
        <4>c. CASE ~(i < k) /\ j < k
          <5>1. i + 1 = j
            BY <4>1, <4>2, <4>3, <4>c
          <5> QED
            BY <3>0, <4>c, <5>1
        <4>d. CASE ~(i < k) /\ ~(j < k)
          <5>1. i + 1 = j + 1
            BY <4>1, <4>2, <4>3, <4>d
          <5> QED
            BY <5>1
        <4> QED
          BY <4>a, <4>b, <4>c, <4>d
      <3>7. ASSUME NEW i \in 1 .. Len(t)
            PROVE  /\ pool'[t[i]] = p
                   /\ (pc'[t[i]] \in Waiting /\ t[i] # holder'[p]) \/ pc'[t[i]] = "relock"
        <4>1. PICK m \in 1 .. Len(s) : m # k /\ t[i] = s[m]
          BY <3>5
        <4>2. s[m] # f
          BY <4>1, <3>c
        <4>3. pc'[s[m]] = pc[s[m]]
          BY <4>2, <3>2, <2>0 DEF TypeOK
        <4> QED
          BY <4>1, <4>3, <3>2, <2>0
      <3>8. holder'[p] # NoFiber => pool'[holder'[p]] = p /\ pc'[holder'[p]] \in Owning
        BY <2>0, <3>3 DEF TypeOK
      <3>9. queue'[p] = t
        BY <3>1 DEF t
      <3> QED
        BY <2>0, <2>4, <3>3, <3>d, <3>6, <3>7, <3>8, <3>9 DEF MutexSoundAt
    <2> QED
      BY <2>3, <2>4
  <1>12. ASSUME NEW c \in ConnIds, NEW why \in StaleKinds, GoStale(c, why)
        PROVE  MutexSound'
    BY <1>12 DEF GoStale, fiberVars, mutexVars, MutexSound, MutexSoundAt
  <1>13. ASSUME Shutdown PROVE MutexSound'
    BY <1>13 DEF Shutdown, fiberVars, mutexVars, MutexSound, MutexSoundAt
  <1>14. ASSUME UNCHANGED vars PROVE MutexSound'
    BY <1>14 DEF vars, fiberVars, mutexVars, MutexSound, MutexSoundAt
  <1> QED
    BY <1>1, <1>2, <1>3, <1>4, <1>5, <1>6, <1>7, <1>8, <1>9, <1>10, <1>11,
       <1>12, <1>13, <1>14 DEF Next

----------------------------------------------------------------------------
(* Who holds what.                                                            *)

\* A step in which nobody gets a connection, and those who lose theirs do so to
\* a poisoned mutex: the counts stay as they are.
Loses ==
    /\ users' = users /\ stats' = stats
    /\ \A g \in Fibers :
          Using(g)' => Using(g) /\ pool'[g] = pool[g] /\ conn'[g] = conn[g]
    /\ \A q \in PoolIds : ~poisoned'[q] =>
          /\ ~poisoned[q]
          /\ \A g \in Fibers : Using(g) /\ pool[g] = q => Using(g)'
    /\ \A q \in PoolIds : connections'[q] \subseteq connections[q]
    /\ \A c \in ConnIds : closed[c] => closed'[c]

\* Those are all the steps but three.
LEMMA LosesStep ==
    ASSUME Inv, MutexSound, [Next]_vars
    PROVE  \/ Loses
           \/ \E f \in Fibers : AcquireReuse(f) \/ CreateSucceeds(f) \/ Release(f)
  <1> USE DEF Inv
  <1>1. ASSUME NEW f \in Fibers, StartAcquire(f) PROVE Loses
    <2>1. /\ users' = users /\ stats' = stats /\ closed' = closed
          /\ connections' = connections /\ poisoned' = poisoned /\ conn' = conn
      BY <1>1 DEF StartAcquire, Lock, mutexVars, connVars
    <2>2. /\ pc[f] = "idle"
          /\ \/ pc' = pc /\ pool' = pool
             \/ /\ pc' = [pc EXCEPT ![f] = "lockAcquire"]
                /\ \A g \in Fibers : g # f => pool'[g] = pool[g]
      BY <1>1 DEF StartAcquire, TypeOK
    <2>3. \A g \in Fibers : /\ Using(g)' <=> Using(g)
                            /\ Using(g) => pool'[g] = pool[g]
      BY <2>2 DEF Using, TypeOK
    <2> QED
      BY <2>1, <2>3 DEF Loses
  <1>3. ASSUME NEW f \in Fibers, AcquireConnect(f) PROVE Loses
    <2>1. /\ users' = users /\ stats' = stats /\ poisoned' = poisoned
          /\ conn' = conn /\ pool' = pool
          /\ pc[f] = "lockAcquire" /\ pc' = [pc EXCEPT ![f] = "connect"]
          /\ connections' = [connections EXCEPT ![pool[f]] = Open(pool[f])]
          /\ MarkClosed(Passed(pool[f]))
      BY <1>3 DEF AcquireConnect, Inside, mutexVars
    <2>2. \A g \in Fibers : Using(g)' <=> Using(g)
      BY <2>1 DEF Using, TypeOK
    <2>3. \A q \in PoolIds : connections'[q] \subseteq connections[q]
      BY <2>1 DEF TypeOK, Open
    <2>4. \A c \in ConnIds : closed[c] => closed'[c]
      BY <2>1 DEF MarkClosed
    <2> QED
      BY <2>1, <2>2, <2>3, <2>4 DEF Loses
  <1>4. ASSUME NEW f \in Fibers, AcquireAtLimit(f) PROVE Loses
    <2>1. /\ users' = users /\ stats' = stats /\ poisoned' = poisoned
          /\ pool' = pool /\ pc[f] = "lockAcquire"
          /\ connections' = [connections EXCEPT ![pool[f]] = Open(pool[f])]
          /\ MarkClosed(Passed(pool[f]))
          /\ \A g \in Fibers : g # f => conn'[g] = conn[g]
          /\ \E where \in {"relock", "awaitUser"} : pc' = [pc EXCEPT ![f] = where]
      BY <1>4 DEF AcquireAtLimit, Inside, TypeOK
    <2>2. \A g \in Fibers : (Using(g)' <=> Using(g)) /\ (Using(g) => g # f)
      BY <2>1 DEF Using, TypeOK
    <2>3. \A q \in PoolIds : connections'[q] \subseteq connections[q]
      BY <2>1 DEF TypeOK, Open
    <2>4. \A c \in ConnIds : closed[c] => closed'[c]
      BY <2>1 DEF MarkClosed
    <2> QED
      BY <2>1, <2>2, <2>3, <2>4 DEF Loses
  <1>6. ASSUME NEW f \in Fibers, CreateFails(f) PROVE Loses
    <2> DEFINE p == pool[f]
    <2>1. /\ users' = users /\ stats' = stats /\ closed' = closed
          /\ connections' = connections /\ pool' = pool
          /\ p \in PoolIds /\ pc[f] = "connect"
          /\ poisoned' = [poisoned EXCEPT ![p] = TRUE]
          /\ pc' = [g \in Fibers |-> IF g \in {f} \cup ToSet(queue[p]) THEN "idle" ELSE pc[g]]
          /\ conn' = [g \in Fibers |-> IF g \in {f} \cup ToSet(queue[p]) THEN None ELSE conn[g]]
      BY <1>6 DEF CreateFails, Poison, Placed
    <2> HIDE DEF p
    <2>2. \A g \in ToSet(queue[p]) : pool[g] = p
      BY <2>1 DEF ToSet, MutexSound, MutexSoundAt, TypeOK
    <2>3. \A g \in Fibers : Using(g)' => Using(g) /\ conn'[g] = conn[g]
      BY <2>1 DEF Using
    <2>4. \A g \in Fibers : pool[g] # p /\ Using(g) => Using(g)'
      BY <2>1, <2>2 DEF Using, p
    <2>5. poisoned'[p] /\ \A q \in PoolIds : q # p => poisoned'[q] = poisoned[q]
      BY <2>1 DEF TypeOK
    <2> QED
      BY <2>1, <2>3, <2>4, <2>5 DEF Loses
  <1>7. ASSUME NEW f \in Fibers, StartRelease(f) PROVE Loses
    <2>1. /\ users' = users /\ stats' = stats /\ closed' = closed /\ pool' = pool
          /\ connections' = connections /\ poisoned' = poisoned /\ pc[f] = "use"
          /\ \A g \in Fibers : g # f => conn'[g] = conn[g]
      BY <1>7 DEF StartRelease, Lock, mutexVars, connVars, TypeOK
    <2>2. \/ pc' = [pc EXCEPT ![f] = "lockRelease"] /\ conn' = conn
          \/ poisoned[pool[f]] /\ pc' = [pc EXCEPT ![f] = "idle"]
      BY <1>7 DEF StartRelease
    <2>3. \A g \in Fibers : Using(g)' => Using(g) /\ conn'[g] = conn[g]
      BY <2>1, <2>2 DEF Using, TypeOK
    <2>4. \A g \in Fibers : Using(g) => Using(g)' \/ poisoned[pool[g]]
      BY <2>1, <2>2 DEF Using, TypeOK
    <2> QED
      BY <2>1, <2>3, <2>4 DEF Loses
  <1>9. ASSUME NEW f \in Fibers, StartClear(f) PROVE Loses
    <2>1. /\ users' = users /\ stats' = stats /\ closed' = closed
          /\ connections' = connections /\ poisoned' = poisoned /\ conn' = conn
      BY <1>9 DEF StartClear, Lock, mutexVars, connVars
    <2>2. /\ pc[f] = "idle"
          /\ \/ pc' = pc /\ pool' = pool
             \/ /\ pc' = [pc EXCEPT ![f] = "lockClear"]
                /\ \A g \in Fibers : g # f => pool'[g] = pool[g]
      BY <1>9 DEF StartClear, TypeOK
    <2>3. \A g \in Fibers : /\ Using(g)' <=> Using(g)
                            /\ Using(g) => pool'[g] = pool[g]
      BY <2>2 DEF Using, TypeOK
    <2> QED
      BY <2>1, <2>3 DEF Loses
  <1>10. ASSUME NEW f \in Fibers, Clear(f) PROVE Loses
    <2>1. /\ users' = users /\ stats' = stats /\ poisoned' = poisoned
          /\ conn' = conn /\ pool' = pool
          /\ pc[f] = "lockClear" /\ pc' = [pc EXCEPT ![f] = "idle"]
          /\ connections' = [connections EXCEPT ![pool[f]] = {}]
      BY <1>10 DEF Clear, Inside, Unlock
    <2>2. \A g \in Fibers : Using(g)' <=> Using(g)
      BY <2>1 DEF Using, TypeOK
    <2>3. \A q \in PoolIds : connections'[q] \subseteq connections[q]
      BY <2>1 DEF TypeOK
    <2>4. \A c \in ConnIds : closed[c] => closed'[c]
      BY <1>10 DEF Clear, CloseAll, MarkClosed
    <2> QED
      BY <2>1, <2>2, <2>3, <2>4 DEF Loses
  <1>11. ASSUME NEW f \in Fibers, CancelLock(f) PROVE Loses
    <2>1. /\ users' = users /\ stats' = stats /\ poisoned' = poisoned
          /\ conn' = conn /\ pool' = pool /\ connections' = connections
          /\ closed' = closed
          /\ pc[f] = "lockAcquire" /\ pc' = [pc EXCEPT ![f] = "idle"]
      BY <1>11 DEF CancelLock, connVars
    <2>2. \A g \in Fibers : Using(g)' <=> Using(g)
      BY <2>1 DEF Using, TypeOK
    <2> QED
      BY <2>1, <2>2 DEF Loses
  <1>12. ASSUME NEW c \in ConnIds, NEW why \in StaleKinds, GoStale(c, why) PROVE Loses
    BY <1>12 DEF GoStale, fiberVars, mutexVars, Loses, Using
  <1>13. ASSUME Shutdown PROVE Loses
    BY <1>13 DEF Shutdown, MarkClosed, fiberVars, mutexVars, Loses, Using
  <1>14. ASSUME UNCHANGED vars PROVE Loses
    BY <1>14 DEF vars, fiberVars, mutexVars, connVars, Loses, Using
  <1> QED
    BY <1>1, <1>3, <1>4, <1>6, <1>7, <1>9, <1>10, <1>11, <1>12, <1>13, <1>14
       DEF Next

----------------------------------------------------------------------------
(* The counters of an endpoint_pool.                                          *)

\* The fibers a pool has lent a connection to, and its idle connections.
Borrowers(p) == {f \in Fibers : Using(f) /\ pool[f] = p}
IdleOf(p) == {c \in Open(p) : users[c] = 0}

\* pc_active_users is exact in every pool whose mutex is not poisoned.
ExactAtHome ==
    \A p \in PoolIds : ~poisoned[p] =>
        \A c \in connections[p] : users[c] = Cardinality(Holders(c))

\* What the updates of ep_pool.stats do to the two counters.
LEMMA CreatedFields ==
    ASSUME NEW s \in Stats
    PROVE  /\ StatsCreated(s).active = s.active + 1
           /\ StatsCreated(s).idle = s.idle
  BY DEF Stats, StatsCreated

\* What a reuse does to the two counters of the statistics.
LEMMA ReusedFields ==
    ASSUME NEW s \in Stats, NEW b \in BOOLEAN
    PROVE  /\ StatsReused(s, b).active = s.active + 1
           /\ StatsReused(s, b).idle = IF b THEN Dec(s.idle) ELSE s.idle
  BY DEF Stats, StatsReused

\* What a release does to the two counters.
LEMMA ReleasedFields ==
    ASSUME NEW s \in Stats, NEW b \in BOOLEAN
    PROVE  /\ StatsReleased(s, b).active = Dec(s.active)
           /\ StatsReleased(s, b).idle = IF b THEN s.idle + 1 ELSE s.idle
  BY DEF Stats, StatsReleased

\* What a retirement does to the two counters.
LEMMA RetiredFields ==
    ASSUME NEW s \in Stats, NEW b \in BOOLEAN, NEW h
    PROVE  /\ StatsRetired(s, b, h).active = s.active
           /\ StatsRetired(s, b, h).idle = IF b THEN Dec(s.idle) ELSE s.idle
  BY DEF Stats, StatsRetired

\* A pool has finitely many borrowers and idle connections.
LEMMA CountsFinite ==
    ASSUME TypeOK, NEW p \in PoolIds
    PROVE  /\ IsFiniteSet(Borrowers(p)) /\ Cardinality(Borrowers(p)) \in Nat
           /\ IsFiniteSet(IdleOf(p)) /\ Cardinality(IdleOf(p)) \in Nat
           /\ IsFiniteSet(Open(p)) /\ Cardinality(Open(p)) \in Nat
           /\ stats[p] \in Stats /\ stats[p].idle \in Nat /\ stats[p].active \in Nat
  <1>1. Borrowers(p) \subseteq Fibers
    BY DEF Borrowers
  <1>2. IdleOf(p) \subseteq ConnIds /\ Open(p) \subseteq ConnIds
    BY DEF IdleOf, Open, TypeOK
  <1>3. stats[p] \in Stats
    BY DEF TypeOK
  <1>4. stats[p].idle \in Nat /\ stats[p].active \in Nat
    BY <1>3 DEF Stats
  <1> QED
    BY <1>1, <1>2, <1>3, <1>4, FiniteSubset, BoundAssumption, FS_Subset,
       FS_CardinalityType

\* f is lent connection d, and nothing else is lent or given back.
Lends(f, d) ==
    /\ ~Using(f) /\ Using(f)' /\ conn'[f] = d /\ pool' = pool
    /\ \A g \in Fibers : g # f => (Using(g)' <=> Using(g)) /\ conn'[g] = conn[g]

\* A hand-out adds one borrower to its pool and one holder to its connection.
LEMMA LendsOne ==
    ASSUME NEW f \in Fibers, NEW d \in ConnIds, Lends(f, d),
           NEW p, pool[f] = p
    PROVE  /\ \A q \in PoolIds : q # p => Borrowers(q)' = Borrowers(q)
           /\ Cardinality(Borrowers(p)') = Cardinality(Borrowers(p)) + 1
           /\ \A c \in ConnIds : c # d => Holders(c)' = Holders(c)
           /\ Cardinality(Holders(d)') = Cardinality(Holders(d)) + 1
  <1>1. \A q \in PoolIds : q # p => Borrowers(q)' = Borrowers(q)
    BY DEF Lends, Borrowers
  <1>2. \A c \in ConnIds : c # d => Holders(c)' = Holders(c)
    BY DEF Lends, Holders
  <1>3. Cardinality(Borrowers(p)') = Cardinality(Borrowers(p)) + 1
    <2>1. Borrowers(p)' = Borrowers(p) \cup {f} /\ f \notin Borrowers(p)
      BY DEF Lends, Borrowers
    <2>2. IsFiniteSet(Borrowers(p))
      BY BoundAssumption, FS_Subset DEF Borrowers
    <2> QED
      BY <2>1, <2>2, FS_AddElement
  <1>4. Cardinality(Holders(d)') = Cardinality(Holders(d)) + 1
    <2>1. Holders(d)' = Holders(d) \cup {f} /\ f \notin Holders(d)
      BY DEF Lends, Holders
    <2> QED
      BY <2>1, HoldersFinite, FS_AddElement
  <1> QED
    BY <1>1, <1>2, <1>3, <1>4

\* f gives its connection back, and nothing else is lent or given back.
Returns(f) ==
    /\ Using(f) /\ ~Using(f)' /\ pool' = pool
    /\ \A g \in Fibers : g # f => (Using(g)' <=> Using(g)) /\ conn'[g] = conn[g]

\* A return takes one borrower from its pool and one holder from its connection.
LEMMA ReturnsOne ==
    ASSUME NEW f \in Fibers, Returns(f), NEW c, conn[f] = c, NEW p, pool[f] = p
    PROVE  /\ \A q \in PoolIds : q # p => Borrowers(q)' = Borrowers(q)
           /\ Cardinality(Borrowers(p)') = Cardinality(Borrowers(p)) - 1
           /\ \A d \in ConnIds : d # c => Holders(d)' = Holders(d)
           /\ Cardinality(Holders(c)') = Cardinality(Holders(c)) - 1
           /\ Cardinality(Holders(c)) > 0 /\ Cardinality(Borrowers(p)) > 0
  <1>1. \A q \in PoolIds : q # p => Borrowers(q)' = Borrowers(q)
    BY DEF Returns, Borrowers
  <1>2. \A d \in ConnIds : d # c => Holders(d)' = Holders(d)
    BY DEF Returns, Holders
  <1>3. /\ Cardinality(Borrowers(p)') = Cardinality(Borrowers(p)) - 1
        /\ Cardinality(Borrowers(p)) > 0
    <2>1. Borrowers(p)' = Borrowers(p) \ {f} /\ f \in Borrowers(p)
      BY DEF Returns, Borrowers
    <2>2. IsFiniteSet(Borrowers(p)) /\ Cardinality(Borrowers(p)) \in Nat
      BY BoundAssumption, FS_Subset, FS_CardinalityType DEF Borrowers
    <2>3. Cardinality(Borrowers(p)) # 0
      BY <2>1, <2>2, FS_EmptySet
    <2>4. Cardinality(Borrowers(p) \ {f}) = Cardinality(Borrowers(p)) - 1
      BY <2>1, <2>2, FS_RemoveElement
    <2> QED
      BY <2>1, <2>2, <2>3, <2>4
  <1>4. /\ Cardinality(Holders(c)') = Cardinality(Holders(c)) - 1
        /\ Cardinality(Holders(c)) > 0
    <2>1. Holders(c)' = Holders(c) \ {f} /\ f \in Holders(c)
      BY DEF Returns, Holders
    <2>2. IsFiniteSet(Holders(c)) /\ Cardinality(Holders(c)) \in Nat
      BY HoldersFinite
    <2>3. Cardinality(Holders(c)) # 0
      BY <2>1, <2>2, FS_EmptySet
    <2>4. Cardinality(Holders(c) \ {f}) = Cardinality(Holders(c)) - 1
      BY <2>1, <2>2, FS_RemoveElement
    <2> QED
      BY <2>1, <2>2, <2>3, <2>4
  <1> QED
    BY <1>1, <1>2, <1>3, <1>4

\* The counters of one pool are right.
CountsAt(p) ==
    /\ ~poisoned[p] => stats[p].active = Cardinality(Borrowers(p))
    /\ ~poisoned[p] => \A c \in connections[p] : users[c] = Cardinality(Holders(c))
    /\ Cardinality(IdleOf(p)) <= stats[p].idle

Counts == \A p \in PoolIds : CountsAt(p)

\* A pool whose borrowers, and whose connections' users, stay as they are.
LEMMA CountsKept ==
    ASSUME TypeOK, TypeOK', NEW q \in PoolIds, CountsAt(q),
           stats'[q] = stats[q],
           ~poisoned'[q] => /\ ~poisoned[q] /\ Borrowers(q)' = Borrowers(q)
                            /\ \A c \in connections[q] : Holders(c)' = Holders(c),
           connections'[q] \subseteq connections[q],
           \A c \in connections[q] : users'[c] = users[c] /\ (closed[c] => closed'[c])
    PROVE  CountsAt(q)'
  <1>1. IdleOf(q)' \subseteq IdleOf(q)
    BY DEF IdleOf, Open, TypeOK
  <1>2. Cardinality(IdleOf(q)') <= Cardinality(IdleOf(q))
    BY <1>1, CountsFinite, FS_Subset
  <1>3. Cardinality(IdleOf(q)') \in Nat
    BY <1>1, CountsFinite, FS_Subset, FS_CardinalityType
  <1>4. Cardinality(IdleOf(q)') <= stats'[q].idle
    BY <1>2, <1>3, CountsFinite DEF CountsAt
  <1> QED
    BY <1>4 DEF CountsAt

\* Steps that lend nothing keep the counters of every pool,
LEMMA CountsLoses ==
    ASSUME Inv, Inv', Counts, Loses
    PROVE  Counts'
  <1> SUFFICES ASSUME NEW q \in PoolIds PROVE CountsAt(q)'
    BY DEF Counts
  <1>1. TypeOK /\ TypeOK' /\ HeldAtHome /\ CountsAt(q)
    BY DEF Inv, Numbered, Counts
  <1>2. /\ stats'[q] = stats[q] /\ connections'[q] \subseteq connections[q]
        /\ \A c \in connections[q] : users'[c] = users[c] /\ (closed[c] => closed'[c])
    BY <1>1 DEF Loses, TypeOK
  <1>3. ~poisoned'[q] => ~poisoned[q] /\ Borrowers(q)' = Borrowers(q)
    BY DEF Loses, Borrowers
  <1>4. ASSUME ~poisoned'[q], NEW c \in connections[q] PROVE Holders(c)' = Holders(c)
    BY <1>1, <1>4 DEF Loses, Holders, HeldAtHome
  <1> QED
    BY <1>1, <1>2, <1>3, <1>4, CountsKept

\* so does the reuse of a connection, which may have been idle,
LEMMA CountsReuse ==
    ASSUME Inv, Inv', Counts, NEW f \in Fibers, AcquireReuse(f)
    PROVE  Counts'
  <1>p. PICK p : p = pool[f]
    OBVIOUS
  <1>0. /\ TypeOK /\ TypeOK' /\ OneHome /\ p \in PoolIds /\ pc[f] = "lockAcquire"
    BY <1>p DEF Inv, Numbered, AcquireReuse, Inside, Placed
  <1>1. PICK d \in Available(p) :
           /\ users' = [users EXCEPT ![d] = @ + 1]
           /\ stats' = [stats EXCEPT ![p] = StatsReused(@, users[d] = 0)]
           /\ conn' = [conn EXCEPT ![f] = d] /\ pool' = pool
           /\ pc' = [pc EXCEPT ![f] = "use"] /\ poisoned' = poisoned
           /\ connections' = [connections EXCEPT ![p] = Open(p)]
           /\ MarkClosed(Passed(p))
    BY <1>p DEF AcquireReuse, HandOver, Unlock, Newest
  <1>2. /\ d \in ConnIds /\ d \in Open(p) /\ d \in connections[p]
    BY <1>0 DEF Available, Open, TypeOK
  <1>3. Lends(f, d)
    BY <1>0, <1>1 DEF Lends, Using, TypeOK
  <1>4. /\ \A q \in PoolIds : q # p => Borrowers(q)' = Borrowers(q)
        /\ Cardinality(Borrowers(p)') = Cardinality(Borrowers(p)) + 1
        /\ \A c \in ConnIds : c # d => Holders(c)' = Holders(c)
        /\ Cardinality(Holders(d)') = Cardinality(Holders(d)) + 1
    BY <1>p, <1>2, <1>3, LendsOne
  <1>5. \A c \in ConnIds : closed[c] => closed'[c]
    BY <1>1 DEF MarkClosed
  <1>6. /\ \A c \in ConnIds : c # d => users'[c] = users[c]
        /\ users'[d] = users[d] + 1 /\ users[d] \in Nat
    BY <1>0, <1>1, <1>2 DEF TypeOK
  <1> SUFFICES ASSUME NEW q \in PoolIds PROVE CountsAt(q)'
    BY DEF Counts
  <1>7. CountsAt(q)
    BY DEF Counts
  <1>8. CASE q # p
    <2>1. \A c \in connections[q] : c \in ConnIds /\ c # d
      BY <1>0, <1>2, <1>8 DEF OneHome, TypeOK
    <2>2. stats'[q] = stats[q] /\ connections'[q] = connections[q]
      BY <1>0, <1>1, <1>8 DEF TypeOK
    <2> QED
      BY <1>0, <1>1, <1>4, <1>5, <1>6, <1>7, <1>8, <2>1, <2>2, CountsKept
  <1>9. CASE q = p
    <2>0. /\ stats[p] \in Stats /\ stats[p].idle \in Nat
          /\ IsFiniteSet(IdleOf(p)) /\ Cardinality(IdleOf(p)) \in Nat
      BY <1>0, CountsFinite
    <2>1. stats'[p] = StatsReused(stats[p], users[d] = 0)
      BY <1>0, <1>1 DEF TypeOK
    <2>2. /\ stats'[p].active = stats[p].active + 1
          /\ stats'[p].idle = IF users[d] = 0 THEN Dec(stats[p].idle) ELSE stats[p].idle
      <3> DEFINE b == users[d] = 0
      <3>1. b \in BOOLEAN /\ stats'[p] = StatsReused(stats[p], b)
        BY <2>1
      <3> HIDE DEF b
      <3>2. /\ stats'[p].active = stats[p].active + 1
            /\ stats'[p].idle = IF b THEN Dec(stats[p].idle) ELSE stats[p].idle
        BY <2>0, <3>1, ReusedFields
      <3> QED
        BY <3>2 DEF b
    <2>3. connections'[p] = Open(p)
      BY <1>0, <1>1 DEF TypeOK
    <2>4. ~poisoned'[p] => \A c \in connections'[p] : users'[c] = Cardinality(Holders(c)')
      <3> SUFFICES ASSUME ~poisoned'[p], NEW c \in Open(p)
                   PROVE  users'[c] = Cardinality(Holders(c)')
        BY <2>3
      <3>1. c \in ConnIds /\ users[c] = Cardinality(Holders(c))
        BY <1>0, <1>1, <1>7, <1>9 DEF CountsAt, Open, TypeOK
      <3> QED
        BY <3>1, <1>4, <1>6
    <2>5. Cardinality(IdleOf(p)') <= stats'[p].idle
      <3>1. IdleOf(p)' \subseteq IdleOf(p) \ {d}
        <4>1. \A c \in Open(p) : c \in ConnIds /\ ~closed[c]
          BY <1>0 DEF Open, TypeOK
        <4>2. \A c \in Open(p)' : c \in Open(p)
          BY <2>3 DEF Open
        <4> QED
          BY <4>1, <4>2, <1>5, <1>6 DEF IdleOf
      <3>2. IsFiniteSet(IdleOf(p) \ {d}) /\ Cardinality(IdleOf(p) \ {d}) \in Nat
        BY <2>0, FS_RemoveElement, FS_CardinalityType
      <3>3. /\ Cardinality(IdleOf(p)') <= Cardinality(IdleOf(p) \ {d})
            /\ Cardinality(IdleOf(p)') \in Nat
        BY <3>1, <3>2, FS_Subset, FS_CardinalityType
      <3>4. Cardinality(IdleOf(p)) <= stats[p].idle
        BY <1>7, <1>9 DEF CountsAt
      <3>5. CASE users[d] = 0
        <4>1. d \in IdleOf(p)
          BY <3>5, <1>2 DEF IdleOf
        <4>2. Cardinality(IdleOf(p) \ {d}) = Cardinality(IdleOf(p)) - 1
          BY <4>1, <2>0, FS_RemoveElement
        <4> QED
          BY <4>2, <3>2, <3>3, <3>4, <3>5, <2>0, <2>2 DEF Dec
      <3>6. CASE users[d] # 0
        <4>1. Cardinality(IdleOf(p) \ {d}) <= Cardinality(IdleOf(p))
          BY <2>0, FS_Subset
        <4> QED
          BY <4>1, <3>2, <3>3, <3>4, <3>6, <2>0, <2>2
      <3> QED
        BY <3>5, <3>6
    <2>6. ~poisoned'[p] => stats'[p].active = Cardinality(Borrowers(p)')
      BY <1>1, <1>4, <1>7, <1>9, <2>2 DEF CountsAt
    <2> QED
      BY <1>9, <2>4, <2>5, <2>6 DEF CountsAt
  <1> QED
    BY <1>8, <1>9

\* the creation of one, which starts with a user,
LEMMA CountsCreate ==
    ASSUME Inv, Inv', Counts, NEW f \in Fibers, CreateSucceeds(f)
    PROVE  Counts'
  <1>p. PICK p, d : p = pool[f] /\ d = created + 1
    OBVIOUS
  <1>0. /\ TypeOK /\ TypeOK' /\ ListedCreated /\ HeldCreated
        /\ p \in PoolIds /\ pc[f] = "connect"
    BY <1>p DEF Inv, Numbered, CreateSucceeds, Placed
  <1>1. /\ users' = [users EXCEPT ![d] = 1]
        /\ stats' = [stats EXCEPT ![p] = StatsCreated(@)]
        /\ conn' = [conn EXCEPT ![f] = d] /\ pool' = pool
        /\ pc' = [pc EXCEPT ![f] = "use"] /\ poisoned' = poisoned
        /\ connections' = [connections EXCEPT ![p] = @ \cup {d}]
        /\ closed' = closed
    BY <1>p DEF CreateSucceeds, HandOver, Unlock
  <1>2. /\ d \in ConnIds /\ created \in Nat
        /\ \A q \in PoolIds : d \notin connections[q]
        /\ Holders(d) = {}
    <2>1. created \in Nat /\ d \in ConnIds
      BY <1>0, <1>p, BoundAssumption DEF CreateSucceeds, TypeOK, ConnIds
    <2> QED
      BY <1>0, <1>p, <2>1 DEF ListedCreated, HeldCreated, Holders
  <1>3. Lends(f, d)
    BY <1>0, <1>1 DEF Lends, Using, TypeOK
  <1>4. /\ \A q \in PoolIds : q # p => Borrowers(q)' = Borrowers(q)
        /\ Cardinality(Borrowers(p)') = Cardinality(Borrowers(p)) + 1
        /\ \A c \in ConnIds : c # d => Holders(c)' = Holders(c)
        /\ Cardinality(Holders(d)') = 1
    <2>1. Cardinality(Holders(d)) = 0
      BY <1>2, FS_EmptySet
    <2>2. Cardinality(Holders(d)') = Cardinality(Holders(d)) + 1
      BY <1>p, <1>2, <1>3, LendsOne
    <2>3. Cardinality(Holders(d)') = 1
      BY <2>1, <2>2
    <2> QED
      BY <1>p, <1>2, <1>3, <2>3, LendsOne
  <1>6. /\ \A c \in ConnIds : c # d => users'[c] = users[c]
        /\ users'[d] = 1
    BY <1>0, <1>1, <1>2 DEF TypeOK
  <1> SUFFICES ASSUME NEW q \in PoolIds PROVE CountsAt(q)'
    BY DEF Counts
  <1>7. CountsAt(q)
    BY DEF Counts
  <1>8. CASE q # p
    <2>1. \A c \in connections[q] : c \in ConnIds /\ c # d
      BY <1>0, <1>2 DEF TypeOK
    <2>2. stats'[q] = stats[q] /\ connections'[q] = connections[q]
      BY <1>0, <1>1, <1>8 DEF TypeOK
    <2> QED
      BY <1>0, <1>1, <1>4, <1>6, <1>7, <1>8, <2>1, <2>2, CountsKept
  <1>9. CASE q = p
    <2>0. stats[p] \in Stats
      BY <1>0, CountsFinite
    <2>1. stats'[p] = StatsCreated(stats[p])
      BY <1>0, <1>1 DEF TypeOK
    <2>2. /\ stats'[p].active = stats[p].active + 1
          /\ stats'[p].idle = stats[p].idle
      BY <2>0, <2>1, CreatedFields
    <2>3. connections'[p] = connections[p] \cup {d}
      BY <1>0, <1>1 DEF TypeOK
    <2>4. ~poisoned'[p] => \A c \in connections'[p] : users'[c] = Cardinality(Holders(c)')
      <3> SUFFICES ASSUME ~poisoned'[p], NEW c \in connections[p] \cup {d}
                   PROVE  users'[c] = Cardinality(Holders(c)')
        BY <2>3
      <3>1. CASE c = d
        BY <3>1, <1>4, <1>6
      <3>2. CASE c # d
        <4>1. c \in ConnIds /\ users[c] = Cardinality(Holders(c))
          BY <3>2, <1>0, <1>1, <1>7, <1>9 DEF CountsAt, TypeOK
        <4> QED
          BY <4>1, <3>2, <1>4, <1>6
      <3> QED
        BY <3>1, <3>2
    <2>5. IdleOf(p)' = IdleOf(p)
      BY <1>0, <1>1, <1>2, <1>6, <2>3 DEF IdleOf, Open, TypeOK
    <2>6. ~poisoned'[p] => stats'[p].active = Cardinality(Borrowers(p)')
      BY <1>1, <1>4, <1>7, <1>9, <2>2 DEF CountsAt
    <2>7. Cardinality(IdleOf(p)') <= stats'[p].idle
      BY <1>7, <1>9, <2>2, <2>5 DEF CountsAt
    <2> QED
      BY <1>9, <2>4, <2>6, <2>7 DEF CountsAt
  <1> QED
    BY <1>8, <1>9

\* and the release, which may leave a connection idle or take it off the list.
LEMMA CountsRelease ==
    ASSUME Inv, Inv', Counts, NEW f \in Fibers, Release(f)
    PROVE  Counts'
  <1>p. PICK p, d : p = pool[f] /\ d = conn[f]
    OBVIOUS
  <1> DEFINE left == Dec(users[d])
             released == StatsReleased(stats[p], users[d] > 0 /\ left = 0)
             health == Health(d, left)
  <1>0. /\ TypeOK /\ TypeOK' /\ HeldAtHome /\ UsersMatchHolders
        /\ p \in PoolIds /\ d \in ConnIds /\ Using(f) /\ pc[f] = "lockRelease"
    BY <1>p DEF Inv, Numbered, Release, Inside, Placed, Using
  <1>1. /\ users' = [users EXCEPT ![d] = left]
        /\ pool' = pool /\ poisoned' = poisoned
        /\ \A g \in Fibers : g # f => conn'[g] = conn[g] /\ (Using(g)' <=> Using(g))
        /\ ~Using(f)'
    BY <1>0, <1>p DEF Release, Unlock, Using, TypeOK
  <1>2. \/ /\ stats' = [stats EXCEPT ![p] = released]
           /\ connections' = connections /\ closed' = closed
        \/ /\ stats' = [stats EXCEPT ![p] = StatsRetired(released, left = 0, health)]
           /\ MarkClosed({d})
           /\ connections' = [connections EXCEPT ![p] = @ \ {d}]
    BY <1>p DEF Release, Retire
  <1>c. \A c \in ConnIds : closed[c] => closed'[c]
    BY <1>2 DEF MarkClosed
  <1>d. released \in Stats /\ StatsRetired(released, left = 0, health) \in Stats
    BY <1>0, CountsFinite, StatsTypes
  <1>3. Returns(f)
    BY <1>0, <1>1 DEF Returns
  <1>4. /\ \A q \in PoolIds : q # p => Borrowers(q)' = Borrowers(q)
        /\ Cardinality(Borrowers(p)') = Cardinality(Borrowers(p)) - 1
        /\ \A c \in ConnIds : c # d => Holders(c)' = Holders(c)
        /\ Cardinality(Holders(d)') = Cardinality(Holders(d)) - 1
        /\ Cardinality(Holders(d)) > 0 /\ Cardinality(Borrowers(p)) > 0
    BY <1>p, <1>3, ReturnsOne
  <1>5. /\ users[d] \in Nat /\ users[d] > 0 /\ left = users[d] - 1 /\ left \in Nat
        /\ Cardinality(Holders(d)) \in Nat
    <2>1. Cardinality(Holders(d)) <= users[d] /\ users[d] \in Nat
      BY <1>0 DEF UsersMatchHolders, TypeOK
    <2>2. Cardinality(Holders(d)) \in Nat
      BY HoldersFinite
    <2> QED
      BY <1>4, <2>1, <2>2 DEF Dec
  <1>6. /\ \A c \in ConnIds : c # d => users'[c] = users[c]
        /\ users'[d] = left
    BY <1>0, <1>1 DEF TypeOK
  <1>s. /\ stats[p] \in Stats /\ stats[p].idle \in Nat /\ stats[p].active \in Nat
        /\ IsFiniteSet(IdleOf(p)) /\ Cardinality(IdleOf(p)) \in Nat
        /\ Cardinality(Borrowers(p)) \in Nat
    BY <1>0, CountsFinite
  <1>r. /\ released.active = Dec(stats[p].active)
        /\ released.idle = IF left = 0 THEN stats[p].idle + 1 ELSE stats[p].idle
        /\ StatsRetired(released, left = 0, health).active = released.active
        /\ StatsRetired(released, left = 0, health).idle =
              IF left = 0 THEN Dec(released.idle) ELSE released.idle
    <2> DEFINE b == users[d] > 0 /\ left = 0
               z == left = 0
               st == stats[p]
               r == StatsReleased(st, b)
    <2>1. b \in BOOLEAN /\ z \in BOOLEAN /\ st \in Stats /\ (b <=> z)
      BY <1>d, <1>s, <1>5
    <2> HIDE DEF b, z, st
    <2>2. r \in Stats
      BY <2>1, StatsTypes
    <2>3. /\ r.active = Dec(st.active)
          /\ r.idle = IF b THEN st.idle + 1 ELSE st.idle
      BY <2>1, ReleasedFields
    <2> HIDE DEF r
    <2>4. /\ StatsRetired(r, z, health).active = r.active
          /\ StatsRetired(r, z, health).idle = IF z THEN Dec(r.idle) ELSE r.idle
      BY <2>1, <2>2, RetiredFields
    <2> QED
      BY <2>1, <2>3, <2>4 DEF b, z, st, r
  <1> HIDE DEF released, health, left
  <1> SUFFICES ASSUME NEW q \in PoolIds PROVE CountsAt(q)'
    BY DEF Counts
  <1>7. CountsAt(q)
    BY DEF Counts
  <1>8. CASE q # p
    <2>1. stats'[q] = stats[q] /\ connections'[q] = connections[q]
      BY <1>0, <1>2, <1>8 DEF TypeOK
    <2>2. \A c \in connections[q] : c \in ConnIds /\ c # d
      BY <1>0, <1>p, <1>8 DEF HeldAtHome, TypeOK
    <2> QED
      BY <1>0, <1>1, <1>c, <1>4, <1>6, <1>7, <1>8, <2>1, <2>2, CountsKept
  <1>9. CASE q = p
    <2>1. ~poisoned'[p] =>
             \A c \in connections[p] : users'[c] = Cardinality(Holders(c)')
      <3> SUFFICES ASSUME ~poisoned'[p], NEW c \in connections[p]
                   PROVE  users'[c] = Cardinality(Holders(c)')
        OBVIOUS
      <3>1. c \in ConnIds /\ users[c] = Cardinality(Holders(c))
        BY <1>0, <1>1, <1>7, <1>9 DEF CountsAt, TypeOK
      <3> QED
        BY <3>1, <1>4, <1>5, <1>6
    <2>2. Cardinality(IdleOf(p)) <= stats[p].idle
      BY <1>7, <1>9 DEF CountsAt
    <2>3. ~poisoned'[p] => Dec(stats[p].active) = Cardinality(Borrowers(p)')
      BY <1>1, <1>4, <1>s, <1>7, <1>9 DEF CountsAt, Dec
    <2>4. CASE /\ stats' = [stats EXCEPT ![p] = released]
               /\ connections' = connections /\ closed' = closed
      <3>1. stats'[p] = released
        BY <1>0, <2>4 DEF TypeOK
      <3>2. IdleOf(p)' \subseteq IdleOf(p) \cup {d}
        BY <1>0, <1>6, <2>4 DEF IdleOf, Open, TypeOK
      <3>3. left # 0 => IdleOf(p)' \subseteq IdleOf(p)
        BY <1>0, <1>6, <3>2 DEF IdleOf
      <3>4. /\ IsFiniteSet(IdleOf(p) \cup {d})
            /\ Cardinality(IdleOf(p) \cup {d}) <= Cardinality(IdleOf(p)) + 1
        <4> DEFINE S == IdleOf(p)
        <4> HIDE DEF S
        <4>1. IsFiniteSet(S) /\ Cardinality(S) \in Nat
          BY <1>s DEF S
        <4>2. /\ IsFiniteSet(S \cup {d})
              /\ \/ Cardinality(S \cup {d}) = Cardinality(S)
                 \/ Cardinality(S \cup {d}) = Cardinality(S) + 1
          BY <4>1, FS_AddElement
        <4>3. Cardinality(S \cup {d}) <= Cardinality(S) + 1
          BY <4>1, <4>2
        <4> QED
          BY <4>2, <4>3 DEF S
      <3>5. /\ Cardinality(IdleOf(p)') <= Cardinality(IdleOf(p) \cup {d})
            /\ left # 0 => Cardinality(IdleOf(p)') <= Cardinality(IdleOf(p))
        BY <1>s, <3>2, <3>3, <3>4, FS_Subset
      <3>6. /\ Cardinality(IdleOf(p)') \in Nat
            /\ Cardinality(IdleOf(p) \cup {d}) \in Nat
        BY <3>2, <3>4, FS_Subset, FS_CardinalityType
      <3>7. Cardinality(IdleOf(p)') <= stats'[p].idle
        BY <3>1, <3>4, <3>5, <3>6, <2>2, <1>r, <1>s
      <3> QED
        BY <1>9, <1>r, <2>1, <2>3, <2>4, <3>1, <3>7 DEF CountsAt
    <2>5. CASE /\ stats' = [stats EXCEPT ![p] = StatsRetired(released, left = 0, health)]
               /\ MarkClosed({d})
               /\ connections' = [connections EXCEPT ![p] = @ \ {d}]
      <3>1. /\ stats'[p] = StatsRetired(released, left = 0, health)
            /\ connections'[p] = connections[p] \ {d}
        BY <1>0, <2>5 DEF TypeOK
      <3>2. IdleOf(p)' \subseteq IdleOf(p)
        BY <1>0, <1>6, <1>c, <3>1 DEF IdleOf, Open, TypeOK
      <3>3. /\ Cardinality(IdleOf(p)') <= Cardinality(IdleOf(p))
            /\ Cardinality(IdleOf(p)') \in Nat
        BY <1>s, <3>2, FS_Subset, FS_CardinalityType
      <3>4. stats'[p].idle = stats[p].idle /\ stats'[p].active = Dec(stats[p].active)
        BY <3>1, <1>r, <1>s DEF Dec
      <3>5. Cardinality(IdleOf(p)') <= stats'[p].idle
        BY <3>3, <3>4, <2>2, <1>s
      <3> QED
        BY <1>9, <2>1, <2>3, <3>1, <3>4, <3>5 DEF CountsAt
    <2> QED
      BY <1>2, <2>4, <2>5
  <1> QED
    BY <1>8, <1>9

----------------------------------------------------------------------------
(* The sockets of lent connections.                                           *)

\* Without clear_endpoint, no fiber is inside it, and sockets are closed only
\* when the pool's switch is released, with no fiber inside.
NobodyClears == \A f \in Fibers : pc[f] # "lockClear"

\* Without clear_endpoint, a step that closes a socket leaves no fiber using one.
LEMMA FlowKept ==
    ASSUME TypeOK, NobodyClears, "clear" \notin Faults, [Next]_vars
    PROVE  /\ NobodyClears'
           /\ (\A c \in ConnIds : flow[c] => flow'[c]) \/ (\A f \in Fibers : ~Using(f)')
  <1> USE DEF NobodyClears
  <1>1. ASSUME NEW f \in Fibers, StartAcquire(f)
        PROVE  NobodyClears' /\ flow' = flow
    BY <1>1 DEF StartAcquire, connVars, TypeOK
  <1>2. ASSUME NEW f \in Fibers, AcquireReuse(f)
        PROVE  NobodyClears' /\ flow' = flow
    BY <1>2 DEF AcquireReuse, HandOver, TypeOK
  <1>3. ASSUME NEW f \in Fibers, AcquireConnect(f)
        PROVE  NobodyClears' /\ flow' = flow
    BY <1>3 DEF AcquireConnect, TypeOK
  <1>4. ASSUME NEW f \in Fibers, AcquireAtLimit(f)
        PROVE  NobodyClears' /\ flow' = flow
    <2>1. \E where \in {"relock", "awaitUser"} : pc' = [pc EXCEPT ![f] = where]
      BY <1>4 DEF AcquireAtLimit
    <2> QED
      BY <1>4, <2>1 DEF AcquireAtLimit, TypeOK
  <1>5. ASSUME NEW f \in Fibers, CreateSucceeds(f)
        PROVE  NobodyClears' /\ \A c \in ConnIds : flow[c] => flow'[c]
    BY <1>5 DEF CreateSucceeds, HandOver, TypeOK
  <1>6. ASSUME NEW f \in Fibers, CreateFails(f)
        PROVE  NobodyClears' /\ \A c \in ConnIds : flow[c] => flow'[c]
    BY <1>6 DEF CreateFails, TypeOK
  <1>7. ASSUME NEW f \in Fibers, StartRelease(f)
        PROVE  NobodyClears' /\ flow' = flow
    BY <1>7 DEF StartRelease, connVars, TypeOK
  <1>8. ASSUME NEW f \in Fibers, Release(f)
        PROVE  NobodyClears' /\ flow' = flow
    BY <1>8 DEF Release, Retire, TypeOK
  <1>9. ASSUME NEW f \in Fibers, StartClear(f) PROVE FALSE
    BY <1>9 DEF StartClear
  <1>10. ASSUME NEW f \in Fibers, Clear(f) PROVE FALSE
    BY <1>10 DEF Clear, Inside
  <1>11. ASSUME NEW f \in Fibers, CancelLock(f)
        PROVE  NobodyClears' /\ flow' = flow
    BY <1>11 DEF CancelLock, connVars, TypeOK
  <1>12. ASSUME NEW c \in ConnIds, NEW why \in StaleKinds, GoStale(c, why)
        PROVE  NobodyClears' /\ flow' = flow
    BY <1>12 DEF GoStale, fiberVars
  <1>13. ASSUME Shutdown PROVE NobodyClears' /\ \A f \in Fibers : ~Using(f)'
    BY <1>13 DEF Shutdown, fiberVars, Using
  <1>14. ASSUME UNCHANGED vars PROVE NobodyClears' /\ flow' = flow
    BY <1>14 DEF vars, fiberVars, connVars
  <1> QED
    BY <1>1, <1>2, <1>3, <1>4, <1>5, <1>6, <1>7, <1>8, <1>9, <1>10, <1>11,
       <1>12, <1>13, <1>14 DEF Next

\* Without clear_endpoint, no step closes the socket of a lent connection.
LEMMA SocketStep ==
    ASSUME Inv, MutexSound, UserKeepsSocket, NobodyClears, "clear" \notin Faults,
           [Next]_vars
    PROVE  UserKeepsSocket'
  <1> USE DEF Inv
  <1>0. \A f \in Fibers : Using(f) => conn[f] \in ConnIds
    BY DEF Placed
  <1>1. CASE /\ \A g \in Fibers : Using(g)' => Using(g) /\ conn'[g] = conn[g]
             /\ \A c \in ConnIds : flow[c] => flow'[c]
    BY <1>0, <1>1 DEF UserKeepsSocket
  <1>2. ASSUME NEW f \in Fibers, AcquireReuse(f) PROVE UserKeepsSocket'
    <2>1. /\ pc[f] = "lockAcquire" /\ pool[f] \in PoolIds
          /\ pc' = [pc EXCEPT ![f] = "use"] /\ flow' = flow
          /\ \E d \in Available(pool[f]) : conn' = [conn EXCEPT ![f] = d]
      BY <1>2 DEF AcquireReuse, HandOver, Inside, Newest, Placed
    <2>2. PICK d \in Available(pool[f]) : conn' = [conn EXCEPT ![f] = d]
      BY <2>1
    <2>3. flow[d]
      BY <2>1 DEF Live, Available, Open
    <2>4. ASSUME NEW g \in Fibers, Using(g)' PROVE flow'[conn'[g]]
      BY <2>1, <2>2, <2>3, <2>4 DEF UserKeepsSocket, Using, TypeOK
    <2> QED
      BY <2>4 DEF UserKeepsSocket
  <1>3. ASSUME NEW f \in Fibers, CreateSucceeds(f) PROVE UserKeepsSocket'
    <2>1. PICK d \in ConnIds :
             /\ pc' = [pc EXCEPT ![f] = "use"] /\ conn' = [conn EXCEPT ![f] = d]
             /\ flow' = [flow EXCEPT ![d] = TRUE]
      <3>1. created \in Nat /\ created < MaxCreated
        BY <1>3 DEF CreateSucceeds, TypeOK
      <3>2. created + 1 \in ConnIds
        BY <3>1, BoundAssumption DEF ConnIds
      <3> QED
        BY <1>3, <3>2 DEF CreateSucceeds, HandOver
    <2>2. ASSUME NEW g \in Fibers, Using(g)' PROVE flow'[conn'[g]]
      BY <1>0, <2>1, <2>2 DEF UserKeepsSocket, Using, TypeOK
    <2> QED
      BY <2>2 DEF UserKeepsSocket
  <1>4. ASSUME NEW f \in Fibers, Release(f) PROVE UserKeepsSocket'
    <2>1. /\ flow' = flow
          /\ \A g \in Fibers : Using(g)' => Using(g) /\ conn'[g] = conn[g]
      BY <1>4 DEF Release, Retire, Using, TypeOK
    <2> QED
      BY <1>1, <2>1
  <1>5. CASE Loses
    <2>1. \A g \in Fibers : Using(g)' => Using(g) /\ conn'[g] = conn[g]
      BY <1>5 DEF Loses
    <2>2. \/ \A c \in ConnIds : flow[c] => flow'[c]
          \/ \A f \in Fibers : ~Using(f)'
      BY FlowKept
    <2>3. CASE \A f \in Fibers : ~Using(f)'
      BY <2>3 DEF UserKeepsSocket
    <2> QED
      BY <2>1, <2>2, <2>3, <1>1
  <1> QED
    BY <1>2, <1>3, <1>4, <1>5, LosesStep

----------------------------------------------------------------------------
(* Room.                                                                      *)

\* Sets of k elements each, disjoint and all inside T, are not too many.
LEMMA Pigeonhole ==
    ASSUME NEW C, IsFiniteSet(C), NEW T, IsFiniteSet(T), NEW k \in Nat,
           NEW H, \A c \in C : H[c] \in SUBSET T /\ Cardinality(H[c]) = k,
           \A c, d \in C : c # d => H[c] \cap H[d] = {}
    PROVE  Cardinality(C) * k <= Cardinality(T)
  <1>1. \A c \in C : \E b : b \in Bijection(1 .. k, H[c])
    <2> SUFFICES ASSUME NEW c \in C PROVE ExistsBijection(1 .. k, H[c])
      BY DEF ExistsBijection
    <2>1. IsFiniteSet(H[c]) /\ Cardinality(H[c]) = k
      BY FS_Subset
    <2> QED
      BY <2>1, FS_CardinalityType
  <1> DEFINE bij == [c \in C |-> CHOOSE b : b \in Bijection(1 .. k, H[c])]
             pick == [x \in C \X (1 .. k) |-> bij[x[1]][x[2]]]
  <1>2. \A c \in C : bij[c] \in Bijection(1 .. k, H[c])
    BY <1>1
  <1> HIDE DEF bij
  <1>3. \A c \in C : /\ \A i \in 1 .. k : bij[c][i] \in H[c]
                     /\ \A i, j \in 1 .. k : bij[c][i] = bij[c][j] => i = j
    BY <1>2 DEF Bijection, Injection, IsInjective
  <1>4. pick \in Injection(C \X (1 .. k), T)
    <2>1. \A x \in C \X (1 .. k) : pick[x] = bij[x[1]][x[2]] /\ pick[x] \in H[x[1]]
      BY <1>3
    <2>2. pick \in [C \X (1 .. k) -> T]
      BY <2>1
    <2> HIDE DEF pick
    <2>3. ASSUME NEW x \in C \X (1 .. k), NEW y \in C \X (1 .. k), pick[x] = pick[y]
          PROVE  x = y
      <3>1. x[1] = y[1]
        BY <2>1, <2>3
      <3>2. x[2] = y[2]
        BY <2>1, <2>3, <3>1, <1>3
      <3> QED
        BY <3>1, <3>2
    <2> QED
      BY <2>2, <2>3 DEF Injection, IsInjective
  <1> HIDE DEF pick
  <1>5. IsFiniteSet(1 .. k) /\ Cardinality(1 .. k) = k
    BY FS_Interval
  <1>6. Cardinality(C \X (1 .. k)) = Cardinality(C) * k
    <2> DEFINE D == 1 .. k
    <2>1. IsFiniteSet(D) /\ Cardinality(D) = k
      BY <1>5
    <2> HIDE DEF D
    <2>2. Cardinality(C \X D) = Cardinality(C) * k
      BY <2>1, FS_Product
    <2> QED
      BY <2>2 DEF D
  <1>7. Cardinality(C \X (1 .. k)) <= Cardinality(T)
    BY <1>4, FS_Injection
  <1> QED
    BY <1>6, <1>7

\* A finite set mapped to another, at most k elements to each, is not too large.
LEMMA Shares ==
    ASSUME NEW I, IsFiniteSet(I), NEW B, IsFiniteSet(B), NEW k \in Nat,
           NEW g \in [B -> I],
           \A c \in I : Cardinality({x \in B : g[x] = c}) <= k
    PROVE  Cardinality(B) <= k * Cardinality(I)
  <1> DEFINE H == [c \in I |-> {x \in B : g[x] = c}]
             K == 1 .. k
  <1>1. \A c \in I : \E b : b \in Injection(H[c], K)
    <2> SUFFICES ASSUME NEW c \in I PROVE \E b : b \in Injection(H[c], K)
      OBVIOUS
    <2>1. IsFiniteSet(H[c]) /\ Cardinality(H[c]) <= k
      BY FS_Subset
    <2> DEFINE n == Cardinality(H[c])
    <2>2. n \in Nat /\ IsFiniteSet(1 .. n) /\ Cardinality(1 .. n) = n
      BY <2>1, FS_CardinalityType, FS_Interval
    <2>3. PICK b : b \in Bijection(H[c], 1 .. n)
      BY <2>1, <2>2, FS_SameCardinalityBij DEF ExistsBijection
    <2>4. 1 .. n \subseteq K
      <3>1. n <= k
        BY <2>1
      <3> HIDE DEF n
      <3> QED
        BY <2>2, <3>1
    <2> HIDE DEF n, H
    <2>5. b \in Injection(H[c], K)
      BY <2>3, <2>4 DEF Bijection, Injection, IsInjective
    <2> QED
      BY <2>5
  <1> DEFINE inj == [c \in I |-> CHOOSE b : b \in Injection(H[c], K)]
             place == [x \in B |-> <<inj[g[x]][x], g[x]>>]
  <1>2. \A c \in I : inj[c] \in Injection(H[c], K)
    BY <1>1
  <1> HIDE DEF inj
  <1>3. \A x \in B : x \in H[g[x]] /\ g[x] \in I
    OBVIOUS
  <1> HIDE DEF H
  <1>4. place \in Injection(B, K \X I)
    <2>1. \A x \in B : inj[g[x]][x] \in K
      BY <1>2, <1>3 DEF Injection
    <2>2. place \in [B -> K \X I]
      BY <1>3, <2>1
    <2>3. ASSUME NEW x \in B, NEW y \in B, place[x] = place[y]
          PROVE  x = y
      <3>1. g[x] = g[y] /\ inj[g[x]][x] = inj[g[x]][y]
        BY <2>3
      <3> HIDE DEF place
      <3>2. x \in H[g[x]] /\ y \in H[g[x]]
        BY <1>3, <3>1
      <3> QED
        BY <1>2, <1>3, <3>1, <3>2 DEF Injection, IsInjective
    <2> HIDE DEF place
    <2> QED
      BY <2>2, <2>3 DEF Injection, IsInjective
  <1> HIDE DEF place
  <1>5. IsFiniteSet(K) /\ Cardinality(K) = k
    BY FS_Interval
  <1> HIDE DEF K
  <1>6. IsFiniteSet(K \X I) /\ Cardinality(K \X I) = k * Cardinality(I)
    BY <1>5, FS_Product
  <1> QED
    BY <1>4, <1>6, FS_Injection

\* Who starts to connect, and who starts to wait at the limit.
LEMMA NewPlaces ==
    ASSUME TypeOK, [Next]_vars, NEW f \in Fibers
    PROVE  /\ pc'[f] = "connect" =>
                (pc[f] = "connect" /\ pool'[f] = pool[f]) \/ AcquireConnect(f)
           /\ pc'[f] \in {"awaitUser", "relock"} =>
                pc'[f] = pc[f] \/ AcquireAtLimit(f)
  <1> DEFINE Good == /\ pc'[f] = "connect" =>
                          (pc[f] = "connect" /\ pool'[f] = pool[f]) \/ AcquireConnect(f)
                     /\ pc'[f] \in {"awaitUser", "relock"} =>
                          pc'[f] = pc[f] \/ AcquireAtLimit(f)
  <1>1. ASSUME NEW g \in Fibers, StartAcquire(g) PROVE Good
    BY <1>1 DEF StartAcquire, TypeOK
  <1>2. ASSUME NEW g \in Fibers, AcquireReuse(g) PROVE Good
    BY <1>2 DEF AcquireReuse, HandOver, TypeOK
  <1>3. ASSUME NEW g \in Fibers, AcquireConnect(g) PROVE Good
    <2>1. pc' = [pc EXCEPT ![g] = "connect"] /\ pool' = pool
      BY <1>3 DEF AcquireConnect
    <2> QED
      BY <1>3, <2>1 DEF TypeOK
  <1>4. ASSUME NEW g \in Fibers, AcquireAtLimit(g) PROVE Good
    <2>1. /\ \E where \in {"relock", "awaitUser"} : pc' = [pc EXCEPT ![g] = where]
          /\ pool' = pool
      BY <1>4 DEF AcquireAtLimit
    <2> QED
      BY <1>4, <2>1 DEF TypeOK
  <1>5. ASSUME NEW g \in Fibers, CreateSucceeds(g) PROVE Good
    BY <1>5 DEF CreateSucceeds, HandOver, TypeOK
  <1>6. ASSUME NEW g \in Fibers, CreateFails(g) PROVE Good
    BY <1>6 DEF CreateFails, TypeOK
  <1>7. ASSUME NEW g \in Fibers, StartRelease(g) PROVE Good
    BY <1>7 DEF StartRelease, TypeOK
  <1>8. ASSUME NEW g \in Fibers, Release(g) PROVE Good
    BY <1>8 DEF Release, TypeOK
  <1>9. ASSUME NEW g \in Fibers, StartClear(g) PROVE Good
    BY <1>9 DEF StartClear, TypeOK
  <1>10. ASSUME NEW g \in Fibers, Clear(g) PROVE Good
    BY <1>10 DEF Clear, TypeOK
  <1>11. ASSUME NEW g \in Fibers, CancelLock(g) PROVE Good
    BY <1>11 DEF CancelLock, TypeOK
  <1>12. ASSUME NEW c \in ConnIds, NEW why \in StaleKinds, GoStale(c, why) PROVE Good
    BY <1>12 DEF GoStale, fiberVars
  <1>13. ASSUME Shutdown PROVE Good
    BY <1>13 DEF Shutdown, fiberVars
  <1>14. ASSUME UNCHANGED vars PROVE Good
    BY <1>14 DEF vars, fiberVars
  <1> QED
    BY <1>1, <1>2, <1>3, <1>4, <1>5, <1>6, <1>7, <1>8, <1>9, <1>10, <1>11,
       <1>12, <1>13, <1>14 DEF Next

\* While a fiber connects, every connection its pool still offers is used to
\* capacity,
Saturated ==
    \A f \in Fibers : pc[f] = "connect" =>
        \A c \in Open(pool[f]) : users[c] >= Capacity

\* and every step keeps it so.
LEMMA SaturatedStep ==
    ASSUME Inv, Inv', MutexSound, Saturated, [Next]_vars
    PROVE  Saturated'
  <1> SUFFICES ASSUME NEW f \in Fibers, pc'[f] = "connect",
                      NEW c, c \in Open(pool[f])'
               PROVE  users'[c] >= Capacity
    BY DEF Saturated
  <1>0. TypeOK /\ TypeOK' /\ Placed /\ Placed' /\ CriticalSectionOwned
    BY DEF Inv
  <1>p. PICK p \in PoolIds : p = pool'[f]
    BY <1>0 DEF Placed
  <1>c. c \in ConnIds /\ c \in connections'[p] /\ ~closed'[c]
    BY <1>0, <1>p DEF Open, TypeOK
  <1>u. users[c] \in Nat /\ users'[c] \in Nat /\ Capacity \in Nat
    BY <1>0, <1>c, ConfigAssumption DEF TypeOK
  <1>1. CASE AcquireConnect(f)
    <2>1. /\ pool[f] = p /\ Available(p) = {} /\ users' = users
          /\ connections' = [connections EXCEPT ![p] = Open(p)]
          /\ MarkClosed(Passed(p))
      BY <1>1, <1>p DEF AcquireConnect
    <2>2. c \in Open(p) /\ c \notin Passed(p)
      BY <1>0, <1>c, <2>1 DEF MarkClosed, TypeOK
    <2>3. Healthy(c)
      BY <2>1, <2>2 DEF Passed
    <2>4. ~(users[c] < Capacity)
      BY <2>1, <2>2, <2>3 DEF Available
    <2> QED
      BY <1>u, <2>1, <2>4
  <1>2. CASE pc[f] = "connect" /\ pool'[f] = pool[f]
    <2>1. pool[f] = p /\ holder[p] = f
      BY <1>0, <1>2, <1>p DEF CriticalSectionOwned
    <2>2. CASE c \in Open(p) /\ users'[c] >= users[c]
      <3>1. users[c] >= Capacity
        BY <1>2, <2>1, <2>2 DEF Saturated
      <3> QED
        BY <1>u, <2>2, <3>1
    <2>3. CASE Loses
      BY <1>0, <1>c, <1>u, <2>2, <2>3 DEF Loses, Open
    <2>4. ASSUME NEW g \in Fibers, AcquireReuse(g) PROVE users'[c] >= Capacity
      <3>1. /\ \E d \in ConnIds : users' = [users EXCEPT ![d] = @ + 1]
            /\ connections' = [connections EXCEPT ![pool[g]] = Open(pool[g])]
            /\ MarkClosed(Passed(pool[g])) /\ pool[g] \in PoolIds
        BY <1>0, <2>4 DEF AcquireReuse, Newest, Available, Open, Placed, Inside, TypeOK
      <3>2. connections'[p] \subseteq connections[p] /\ ~closed[c]
        BY <1>0, <1>c, <3>1 DEF MarkClosed, Open, TypeOK
      <3>3. users'[c] >= users[c]
        <4>1. PICK d \in ConnIds : users' = [users EXCEPT ![d] = @ + 1]
          BY <3>1
        <4>2. users'[c] = users[c] \/ users'[c] = users[c] + 1
          BY <1>0, <1>c, <4>1 DEF TypeOK
        <4> QED
          BY <1>u, <4>2
      <3> QED
        BY <1>c, <2>2, <3>2, <3>3 DEF Open
    <2>5. ASSUME NEW g \in Fibers, CreateSucceeds(g) PROVE users'[c] >= Capacity
      <3>1. /\ holder[pool[g]] = g /\ pc'[g] = "use"
            /\ connections' = [connections EXCEPT ![pool[g]] = @ \cup {created + 1}]
            /\ users' = [users EXCEPT ![created + 1] = 1] /\ closed' = closed
        BY <1>0, <2>5 DEF CreateSucceeds, CriticalSectionOwned, HandOver, TypeOK
      <3>2. pool[g] # p
        BY <2>1, <3>1
      <3>3. connections'[p] = connections[p]
        BY <1>0, <3>1, <3>2 DEF TypeOK
      <3>4. c <= created /\ created \in Nat
        BY <1>0, <1>c, <3>3 DEF Inv, Numbered, ListedCreated, TypeOK
      <3>5. c # created + 1
        BY <1>c, <3>4 DEF ConnIds
      <3>6. users'[c] = users[c]
        BY <1>0, <1>c, <3>1, <3>5 DEF TypeOK
      <3> QED
        BY <1>c, <1>u, <2>2, <3>1, <3>3, <3>6 DEF Open
    <2>6. ASSUME NEW g \in Fibers, Release(g) PROVE users'[c] >= Capacity
      <3>1. /\ holder[pool[g]] = g /\ pc[g] = "lockRelease"
            /\ \/ connections' = connections /\ closed' = closed
               \/ /\ connections' = [connections EXCEPT ![pool[g]] = @ \ {conn[g]}]
                  /\ MarkClosed({conn[g]})
            /\ users' = [users EXCEPT ![conn[g]] = Dec(users[conn[g]])]
        BY <2>6 DEF Release, Inside, Retire
      <3>2. pool[g] # p
        BY <1>2, <2>1, <3>1
      <3>3. connections'[p] = connections[p] /\ ~closed[c]
        BY <1>0, <1>c, <3>1, <3>2 DEF TypeOK, MarkClosed
      <3>4. Using(g) /\ HeldAtHome
        BY <3>1 DEF Using, Inv, Numbered
      <3>5. c # conn[g]
        BY <1>c, <3>2, <3>3, <3>4 DEF HeldAtHome
      <3>6. users'[c] = users[c]
        BY <1>0, <1>c, <3>1, <3>5 DEF TypeOK
      <3> QED
        BY <1>c, <1>u, <2>2, <3>3, <3>6 DEF Open
    <2> QED
      BY <2>3, <2>4, <2>5, <2>6, LosesStep
  <1> QED
    BY <1>0, <1>1, <1>2, NewPlaces

\* With enough room for the fibers, no pool ever reaches its limit.
Roomy == \A p \in PoolIds : Cardinality(Open(p)) < MaxConns

\* A fiber that connects leaves one of its peers without a connection: the
\* others cannot saturate more than MaxConns - 2 of them.
LEMMA RoomToConnect ==
    ASSUME Inv, MutexSound, Counts, Saturated,
           Cardinality(Fibers) <= Capacity * (MaxConns - 1),
           NEW f \in Fibers, pc[f] = "connect", NEW p, p = pool[f]
    PROVE  Cardinality(Open(p)) + 1 < MaxConns
  <1>0. /\ TypeOK /\ UsersMatchHolders /\ HeldAtHome /\ p \in PoolIds
        /\ holder[p] = f
    BY DEF Inv, Numbered, Placed, CriticalSectionOwned
  <1>1. ~poisoned[p]
    BY <1>0, BoundAssumption DEF MutexSound, MutexSoundAt, TypeOK
  <1> DEFINE H == [c \in Open(p) |-> Holders(c)]
             T == Fibers \ {f}
             k == Capacity
             n == Cardinality(Open(p))
             m == Cardinality(Fibers)
  <1>2. ASSUME NEW c \in Open(p)
        PROVE  H[c] \in SUBSET T /\ Cardinality(H[c]) = k
    <2>1. c \in connections[p] /\ c \in ConnIds
      BY <1>0 DEF Open, TypeOK
    <2>2. users[c] >= Capacity
      BY DEF Saturated
    <2>3. users[c] <= Capacity /\ users[c] \in Nat /\ Capacity \in Nat
      BY <1>0, <2>1, ConfigAssumption DEF UsersMatchHolders, TypeOK
    <2>4. users[c] = Cardinality(Holders(c))
      BY <1>0, <1>1, <2>1 DEF Counts, CountsAt
    <2>5. f \notin Holders(c) /\ Holders(c) \subseteq Fibers
      BY DEF Holders, Using
    <2> QED
      BY <2>2, <2>3, <2>4, <2>5
  <1>3. \A c, d \in Open(p) : c # d => H[c] \cap H[d] = {}
    BY DEF Holders
  <1>4. IsFiniteSet(Open(p)) /\ n \in Nat
    BY <1>0, CountsFinite
  <1>5. IsFiniteSet(T) /\ Cardinality(T) = m - 1 /\ m \in Nat
    BY BoundAssumption, FS_RemoveElement, FS_CardinalityType
  <1>6. k \in Nat /\ k # 0 /\ MaxConns \in Nat
    BY ConfigAssumption
  <1> HIDE DEF H
  <1>7. n * k <= Cardinality(T)
    BY <1>2, <1>3, <1>4, <1>5, <1>6, Pigeonhole
  <1> HIDE DEF T, k, n, m
  <1>8. m <= k * (MaxConns - 1)
    BY DEF m, k
  <1>9. SUFFICES ASSUME n >= MaxConns - 1 PROVE FALSE
    BY <1>4, <1>6 DEF n
  <1>10. (n - (MaxConns - 1)) * k >= 0
    <2> DEFINE e == n - (MaxConns - 1)
    <2>1. e \in Nat
      BY <1>4, <1>6, <1>9
    <2> HIDE DEF e
    <2>2. e * k \in Nat
      BY <1>6, <2>1
    <2> QED
      BY <2>2 DEF e
  <1>11. (n - (MaxConns - 1)) * k = n * k - k * (MaxConns - 1)
    BY <1>4, <1>6
  <1>12. n * k \in Int /\ k * (MaxConns - 1) \in Int
    BY <1>4, <1>6
  <1> QED
    BY <1>5, <1>7, <1>8, <1>10, <1>11, <1>12

\* A pool does not grow to its limit if the connections but one suffice for all.
LEMMA RoomyStep ==
    ASSUME Inv, Inv', MutexSound, Counts, Saturated, Roomy,
           Cardinality(Fibers) <= Capacity * (MaxConns - 1), [Next]_vars
    PROVE  Roomy'
  <1> SUFFICES ASSUME NEW p \in PoolIds PROVE Cardinality(Open(p)') < MaxConns
    BY DEF Roomy
  <1>0. /\ TypeOK /\ TypeOK' /\ Cardinality(Open(p)) < MaxConns
        /\ MaxConns \in Nat
    BY ConfigAssumption DEF Inv, Roomy
  <1>1. CASE Open(p)' \subseteq Open(p)
    <2>1. /\ Cardinality(Open(p)') <= Cardinality(Open(p))
          /\ Cardinality(Open(p)') \in Nat /\ Cardinality(Open(p)) \in Nat
      BY <1>0, <1>1, CountsFinite, FS_Subset, FS_CardinalityType
    <2> QED
      BY <1>0, <2>1
  <1>2. CASE Loses
    BY <1>0, <1>1, <1>2 DEF Loses, Open, TypeOK
  <1>3. ASSUME NEW f \in Fibers, AcquireReuse(f)
        PROVE  Cardinality(Open(p)') < MaxConns
    <2>1. /\ connections' = [connections EXCEPT ![pool[f]] = Open(pool[f])]
          /\ MarkClosed(Passed(pool[f]))
      BY <1>3 DEF AcquireReuse
    <2>2. connections'[p] \subseteq connections[p]
      BY <1>0, <2>1 DEF TypeOK, Open
    <2>3. \A c \in ConnIds : closed[c] => closed'[c]
      BY <2>1 DEF MarkClosed
    <2> QED
      BY <1>0, <1>1, <2>2, <2>3 DEF Open, TypeOK
  <1>4. ASSUME NEW f \in Fibers, Release(f)
        PROVE  Cardinality(Open(p)') < MaxConns
    <2>1. \/ connections' = connections /\ closed' = closed
          \/ /\ connections' = [connections EXCEPT ![pool[f]] = @ \ {conn[f]}]
             /\ MarkClosed({conn[f]})
      BY <1>4 DEF Release, Retire
    <2>2. connections'[p] \subseteq connections[p]
      <3>1. connections \in [PoolIds -> SUBSET ConnIds]
        BY <1>0 DEF TypeOK
      <3> QED
        BY <2>1, <3>1
    <2>3. \A c \in ConnIds : closed[c] => closed'[c]
      BY <2>1 DEF MarkClosed
    <2> QED
      BY <1>0, <1>1, <2>2, <2>3 DEF Open, TypeOK
  <1>5. ASSUME NEW f \in Fibers, CreateSucceeds(f)
        PROVE  Cardinality(Open(p)') < MaxConns
    <2>1. /\ connections' = [connections EXCEPT ![pool[f]] = @ \cup {created + 1}]
          /\ closed' = closed /\ pc[f] = "connect"
      BY <1>5 DEF CreateSucceeds
    <2>2. CASE p # pool[f]
      BY <1>0, <1>1, <2>1, <2>2 DEF Open, TypeOK
    <2>3. CASE p = pool[f]
      <3>1. connections'[p] = connections[p] \cup {created + 1}
        BY <1>0, <2>1, <2>3 DEF TypeOK
      <3>2. Open(p)' \subseteq Open(p) \cup {created + 1}
        BY <2>1, <3>1 DEF Open
      <3> DEFINE S == Open(p)
                 x == created + 1
      <3>3. IsFiniteSet(S) /\ Cardinality(S) \in Nat
        BY <1>0, CountsFinite
      <3>4. Cardinality(S) + 1 < MaxConns
        BY <2>1, <2>3, RoomToConnect
      <3>5. Open(p)' \subseteq S \cup {x}
        BY <3>2
      <3> HIDE DEF S, x
      <3>6. /\ IsFiniteSet(S \cup {x})
            /\ Cardinality(S \cup {x}) \in {Cardinality(S), Cardinality(S) + 1}
        BY <3>3, FS_AddElement
      <3>7. /\ Cardinality(Open(p)') <= Cardinality(S \cup {x})
            /\ Cardinality(Open(p)') \in Nat
        BY <3>5, <3>6, FS_Subset, FS_CardinalityType
      <3> QED
        BY <1>0, <3>3, <3>4, <3>6, <3>7
    <2> QED
      BY <2>2, <2>3
  <1> QED
    BY <1>2, <1>3, <1>4, <1>5, LosesStep

----------------------------------------------------------------------------
(* The inductive invariant of the counters, and what follows from it.         *)

CountInv == Inv /\ MutexSound /\ Counts /\ Saturated

\* The invariant holds at first,
LEMMA CountInit == Init => CountInv
  <1> SUFFICES ASSUME Init PROVE CountInv
    OBVIOUS
  <1>1. Inv
    BY InvInit
  <1>2. MutexSound
    BY BoundAssumption DEF Init, MutexSound, MutexSoundAt
  <1>3. Counts
    <2> SUFFICES ASSUME NEW p \in PoolIds PROVE CountsAt(p)
      BY DEF Counts
    <2>1. /\ stats[p] = ZeroStats /\ connections[p] = {}
          /\ Borrowers(p) = {} /\ IdleOf(p) = {}
      BY DEF Init, Borrowers, IdleOf, Open, Using
    <2> QED
      BY <2>1, FS_EmptySet DEF CountsAt, ZeroStats
  <1>4. Saturated
    BY DEF Init, Saturated
  <1> QED
    BY <1>1, <1>2, <1>3, <1>4 DEF CountInv

\* and every step keeps it.
LEMMA CountStep == CountInv /\ [Next]_vars => CountInv'
  <1> SUFFICES ASSUME CountInv, [Next]_vars PROVE CountInv'
    OBVIOUS
  <1>0. Inv /\ MutexSound /\ Counts /\ Saturated
    BY DEF CountInv
  <1>1. Inv'
    BY <1>0, InvStep
  <1>2. MutexSound'
    BY <1>0, <1>1, MutexStep
  <1>3. Counts'
    BY <1>0, <1>1, LosesStep, CountsLoses, CountsReuse, CountsCreate, CountsRelease
  <1>4. Saturated'
    BY <1>0, <1>1, SaturatedStep
  <1> QED
    BY <1>1, <1>2, <1>3, <1>4 DEF CountInv

\* The mutexes, the counters and the connecting fibers agree in every
\* reachable state.
THEOREM CountInvariance == Spec => []CountInv
  <1> QED
    BY CountInit, CountStep, PTL DEF Spec

\* The ep_mutex of an endpoint_pool always has an owner while fibers queue on
\* it, the owner and the waiters are fibers of that pool, and nobody waits
\* twice: no hand-over, cancellation or exception loses a waiter.
THEOREM NoWaiterLost == Spec => []MutexSound
  <1>1. CountInv => MutexSound
    BY DEF CountInv
  <1> QED
    BY <1>1, CountInvariance, PTL

\* stats.active counts the borrowers of a pool, so that it is at least the number
\* of its connections in use and at most their users; in exclusive mode it is
\* that number.
THEOREM ActiveCounted == Spec => []ActiveBoundsInUse
  <1>1. ASSUME CountInv, NEW p \in PoolIds, ~poisoned[p]
        PROVE  /\ Cardinality(InUse(p)) <= stats[p].active
               /\ stats[p].active <= Capacity * Cardinality(InUse(p))
    <2> DEFINE B == Borrowers(p)
               I == InUse(p)
               g == [f \in B |-> conn[f]]
    <2>1. Inv /\ TypeOK /\ Placed /\ UsersMatchHolders
      BY <1>1 DEF CountInv, Inv
    <2>2. stats[p].active = Cardinality(B)
      BY <1>1 DEF CountInv, Counts, CountsAt
    <2>3. IsFiniteSet(B)
      BY <2>1, CountsFinite
    <2>4. I = {conn[f] : f \in B}
      BY DEF InUse, Borrowers
    <2>5. g \in Surjection(B, I)
      BY <2>4 DEF Surjection
    <2>6. IsFiniteSet(I) /\ Cardinality(I) <= Cardinality(B)
      BY <2>3, <2>5, FS_Surjection
    <2>7. ASSUME NEW c \in I
          PROVE  Cardinality({f \in B : g[f] = c}) <= Capacity
      <3>1. c \in ConnIds
        BY <2>1, <2>4 DEF Borrowers, Placed
      <3>2. {f \in B : g[f] = c} \subseteq Holders(c) /\ Holders(c) \subseteq Fibers
        BY DEF Borrowers, Holders
      <3>3. IsFiniteSet(Holders(c))
        BY <3>2, BoundAssumption, FS_Subset
      <3>4. Cardinality({f \in B : g[f] = c}) <= Cardinality(Holders(c))
        BY <3>2, <3>3, FS_Subset
      <3>5. /\ Cardinality(Holders(c)) <= users[c] /\ users[c] <= Capacity
            /\ users[c] \in Nat
        BY <2>1, <3>1 DEF UsersMatchHolders, TypeOK
      <3>6. Cardinality(Holders(c)) \in Nat /\ Cardinality({f \in B : g[f] = c}) \in Nat
        BY <3>2, <3>3, FS_Subset, FS_CardinalityType
      <3> QED
        BY <3>4, <3>5, <3>6, ConfigAssumption
    <2>8. g \in [B -> I] /\ Capacity \in Nat
      BY <2>4, ConfigAssumption
    <2> HIDE DEF B, I, g
    <2>9. Cardinality(B) <= Capacity * Cardinality(I)
      BY <2>3, <2>6, <2>7, <2>8, Shares
    <2> QED
      BY <2>2, <2>6, <2>9 DEF I
  <1>2. CountInv => ActiveBoundsInUse
    BY <1>1 DEF ActiveBoundsInUse
  <1> QED
    BY <1>2, CountInvariance, PTL

\* stats.idle is never less than the number of idle connections, although it is
\* decremented when a connection is reused and when an idle one is retired.
THEOREM IdleCounted == Spec => []IdleNeverUnderstated
  <1>1. CountInv => IdleNeverUnderstated
    BY DEF CountInv, Counts, CountsAt, IdleOf, IdleNeverUnderstated
  <1> QED
    BY <1>1, CountInvariance, PTL

\* In a program that never calls clear_endpoint, a fiber's socket stays open for
\* as long as the fiber has the connection, although other fibers retire it.
THEOREM SocketsKept ==
    ASSUME "clear" \notin Faults
    PROVE  Spec => []UserKeepsSocket
  <1> DEFINE SocketInv == CountInv /\ NobodyClears /\ UserKeepsSocket
  <1>1. Init => SocketInv
    <2>1. Init => NobodyClears /\ UserKeepsSocket
      BY DEF Init, NobodyClears, UserKeepsSocket, Using
    <2> QED
      BY <2>1, CountInit
  <1>2. SocketInv /\ [Next]_vars => SocketInv'
    <2> SUFFICES ASSUME SocketInv, [Next]_vars PROVE SocketInv'
      OBVIOUS
    <2>1. CountInv'
      BY CountStep
    <2>2. Inv /\ MutexSound /\ TypeOK
      BY DEF CountInv, Inv
    <2>3. NobodyClears'
      BY <2>2, FlowKept
    <2>4. UserKeepsSocket'
      BY <2>2, SocketStep
    <2> QED
      BY <2>1, <2>3, <2>4
  <1>3. SocketInv => UserKeepsSocket
    OBVIOUS
  <1> HIDE DEF SocketInv
  <1> QED
    BY <1>1, <1>2, <1>3, PTL DEF Spec

\* acquire_connection never waits for a connection when the connections but one
\* suffice for all fibers: the bound under which the wait at the limit, which
\* never ends, is never entered.  With one fiber more it may be.
THEOREM RoomForAll ==
    ASSUME Cardinality(Fibers) <= Capacity * (MaxConns - 1)
    PROVE  Spec => []NeverStuck
  <1> DEFINE RoomInv == CountInv /\ Roomy /\ NeverStuck
  <1>1. Init => RoomInv
    <2> SUFFICES ASSUME Init PROVE Roomy /\ NeverStuck
      BY CountInit
    <2>1. \A p \in PoolIds : Open(p) = {}
      BY DEF Init, Open
    <2>2. Roomy
      BY <2>1, FS_EmptySet, ConfigAssumption DEF Roomy
    <2>3. NeverStuck
      BY DEF Init, NeverStuck
    <2> QED
      BY <2>2, <2>3
  <1>2. RoomInv /\ [Next]_vars => RoomInv'
    <2> SUFFICES ASSUME RoomInv, [Next]_vars PROVE RoomInv'
      OBVIOUS
    <2>1. CountInv'
      BY CountStep
    <2>2. Inv /\ Inv' /\ MutexSound /\ Counts /\ Saturated /\ TypeOK
      BY <2>1 DEF CountInv, Inv
    <2>3. Roomy'
      BY <2>2, RoomyStep
    <2>4. \A f \in Fibers : ~AcquireAtLimit(f)
      <3> SUFFICES ASSUME NEW f \in Fibers, AcquireAtLimit(f) PROVE FALSE
        OBVIOUS
      <3>1. AtLimit(pool[f]) /\ pool[f] \in PoolIds
        BY <2>2 DEF AcquireAtLimit, Inside, Placed, Inv
      <3>2. Cardinality(Open(pool[f])) < MaxConns
        BY <3>1 DEF Roomy
      <3>3. Cardinality(Open(pool[f])) \in Nat
        BY <2>2, <3>1, CountsFinite
      <3> QED
        BY <3>1, <3>2, <3>3, ConfigAssumption DEF AtLimit
    <2>5. NeverStuck'
      BY <2>2, <2>4, NewPlaces DEF NeverStuck
    <2> QED
      BY <2>1, <2>3, <2>5
  <1>3. RoomInv => NeverStuck
    OBVIOUS
  <1> HIDE DEF RoomInv
  <1> QED
    BY <1>1, <1>2, <1>3, PTL DEF Spec
=============================================================================
