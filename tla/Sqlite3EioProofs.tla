--------------------------- MODULE Sqlite3EioProofs ---------------------------
(* Proofs about Sqlite3Eio, for every set of fibers.                          *)
EXTENDS Sqlite3Eio, TLAPS

----------------------------------------------------------------------------
(* Types and locks.                                                           *)

LEMMA TypeInit == Init => TypeOK
  <1> SUFFICES ASSUME Init PROVE TypeOK
    OBVIOUS
  <1>1. calls \in [Fibers -> 0 .. MaxCalls] /\ kind \in [Fibers -> Kinds \cup {"none"}]
    BY EioAssumption DEF Init
  <1>2. \A f \in Fibers :
           /\ mx = f <=> thread[f] \in {"sql", "callback"}
           /\ rt = f <=> thread[f] = "blocked"
    BY EioAssumption DEF Init
  <1>3. rt = Loop <=> closing
    BY EioAssumption DEF Init
  <1> QED
    BY <1>1, <1>2, <1>3 DEF Init, TypeOK

\* A step keeps the types, and the locks with those who run under them.
LEMMA TypeStep ==
    ASSUME TypeOK, [Next]_vars
    PROVE  TypeOK'
  <1>1. ASSUME NEW f \in Fibers, NEW k \in Kinds, StartCall(f, k)
         PROVE  TypeOK'
    <2>1. calls' \in [Fibers -> 0 .. MaxCalls]
      BY <1>1, EioAssumption DEF TypeOK, StartCall
    <2>2. /\ thread' = [thread EXCEPT ![f] = "queued"]
          /\ kind' \in [Fibers -> Kinds \cup {"none"}]
      BY <1>1 DEF TypeOK, StartCall
    <2>3. thread[f] = "none"
      BY <1>1 DEF StartCall, InCall
    <2> QED
      BY <1>1, <2>1, <2>2, <2>3 DEF TypeOK, StartCall, closeVars
  <1>2. ASSUME NEW f \in Fibers, Cancel(f)
         PROVE  TypeOK'
    BY <1>2, EioAssumption DEF TypeOK, Cancel, Interrupt, closeVars
  <1>3. ASSUME NEW f \in Fibers, Return(f)
         PROVE  TypeOK'
    BY <1>3, EioAssumption DEF TypeOK, Return, Finish, Interrupt, closeVars
  <1>4. ASSUME NEW f \in Fibers, Begin(f)
         PROVE  TypeOK'
    BY <1>4, EioAssumption DEF TypeOK, Begin, closeVars
  <1>5. ASSUME NEW f \in Fibers, EnterSql(f)
         PROVE  TypeOK'
    BY <1>5, EioAssumption DEF TypeOK, EnterSql, callVars, closeVars
  <1>6. ASSUME NEW f \in Fibers, CallBack(f)
         PROVE  TypeOK'
    BY <1>6, EioAssumption DEF TypeOK, CallBack, callVars, closeVars
  <1>7. ASSUME NEW f \in Fibers, RunCallback(f)
         PROVE  TypeOK'
    BY <1>7, EioAssumption DEF TypeOK, RunCallback, closeVars
  <1>8. ASSUME NEW f \in Fibers, LeaveSql(f)
         PROVE  TypeOK'
    BY <1>8, EioAssumption DEF TypeOK, LeaveSql, closeVars
  <1>9. ASSUME NEW f \in Fibers, Leave(f)
         PROVE  TypeOK'
    BY <1>9, EioAssumption DEF TypeOK, Leave, callVars, closeVars
  <1>10. ASSUME NEW f \in Fibers, Stub(f)
         PROVE  TypeOK'
    BY <1>10, EioAssumption DEF TypeOK, Stub, closeVars
  <1>11. ASSUME StartClose
         PROVE  TypeOK'
    <2>1. rt = NoOne /\ \A f \in Fibers : thread[f] # "blocked"
      BY <1>11, EioAssumption DEF TypeOK, StartClose, OnLoop
    <2> QED
      BY <1>11, <2>1, EioAssumption DEF TypeOK, StartClose, callVars
  <1>12. ASSUME EndClose
         PROVE  TypeOK'
    BY <1>12, EioAssumption DEF TypeOK, EndClose, callVars
  <1>13. CASE UNCHANGED vars
    BY <1>13 DEF TypeOK, vars, callVars, closeVars
  <1> QED
    BY <1>1, <1>2, <1>3, <1>4, <1>5, <1>6, <1>7, <1>8, <1>9, <1>10, <1>11,
       <1>12, <1>13 DEF Next


\* Every variable keeps its type; the mutex is held exactly inside SQLite, and
\* the runtime lock across a wait exactly by a stub or db_close.
THEOREM TypeCorrect == Spec => []TypeOK
  BY TypeInit, TypeStep, PTL DEF Spec

----------------------------------------------------------------------------
(* Who interrupts whom.                                                       *)

\* Until a call is cancelled or raises, there is no interrupt, and nobody has
\* got one.
Quiet ==
    ~stopped => ~interrupted /\ \A f \in Fibers : result[f] # "interrupt"

\* Only a cancellation or an exception interrupts.
LEMMA QuietStep ==
    ASSUME TypeOK, Quiet, [Next]_vars
    PROVE  Quiet'
  <1>1. ASSUME NEW f \in Fibers, NEW k \in Kinds, StartCall(f, k)
         PROVE  Quiet'
    BY <1>1 DEF TypeOK, Quiet, StartCall, closeVars
  <1>2. ASSUME NEW f \in Fibers, Cancel(f)
         PROVE  Quiet'
    BY <1>2 DEF TypeOK, Quiet, Cancel, Interrupt, closeVars
  <1>3. ASSUME NEW f \in Fibers, Return(f)
         PROVE  Quiet'
    BY <1>3 DEF TypeOK, Quiet, Return, Finish, Interrupt, closeVars
  <1>4. ASSUME NEW f \in Fibers, Begin(f)
         PROVE  Quiet'
    BY <1>4 DEF TypeOK, Quiet, Begin, closeVars
  <1>5. ASSUME NEW f \in Fibers, EnterSql(f)
         PROVE  Quiet'
    BY <1>5 DEF TypeOK, Quiet, EnterSql, callVars, closeVars
  <1>6. ASSUME NEW f \in Fibers, CallBack(f)
         PROVE  Quiet'
    BY <1>6 DEF TypeOK, Quiet, CallBack, callVars, closeVars
  <1>7. ASSUME NEW f \in Fibers, RunCallback(f)
         PROVE  Quiet'
    BY <1>7 DEF TypeOK, Quiet, RunCallback, closeVars
  <1>8. ASSUME NEW f \in Fibers, LeaveSql(f)
         PROVE  Quiet'
    BY <1>8 DEF TypeOK, Quiet, LeaveSql, closeVars
  <1>9. ASSUME NEW f \in Fibers, Leave(f)
         PROVE  Quiet'
    BY <1>9 DEF TypeOK, Quiet, Leave, callVars, closeVars
  <1>10. ASSUME NEW f \in Fibers, Stub(f)
         PROVE  Quiet'
    BY <1>10 DEF TypeOK, Quiet, Stub, closeVars
  <1>11. ASSUME StartClose
         PROVE  Quiet'
    BY <1>11 DEF TypeOK, Quiet, StartClose, callVars
  <1>12. ASSUME EndClose
         PROVE  Quiet'
    BY <1>12 DEF TypeOK, Quiet, EndClose, callVars
  <1>13. CASE UNCHANGED vars
    BY <1>13 DEF TypeOK, Quiet, vars, callVars, closeVars
  <1> QED
    BY <1>1, <1>2, <1>3, <1>4, <1>5, <1>6, <1>7, <1>8, <1>9, <1>10, <1>11,
       <1>12, <1>13 DEF Next


\* As long as no call has been cancelled or has raised, no statement on the
\* shared handle is interrupted.
THEOREM NormalReturns == Spec => []NormalReturnsInterruptNobody
  <1>1. Init => Quiet
    BY DEF Init, Quiet
  <1>2. Quiet => NormalReturnsInterruptNobody
    BY DEF Quiet, NormalReturnsInterruptNobody
  <1> QED
    BY <1>1, <1>2, TypeInit, TypeStep, QuietStep, PTL DEF Spec
=============================================================================
