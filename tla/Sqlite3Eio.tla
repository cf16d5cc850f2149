----------------------------- MODULE Sqlite3Eio -----------------------------
(* Fibers that share one database of bleeding/sqlite3/lib_eio/sqlite3_eio.ml. *)
(* Each call runs in a system thread, beside a watcher that interrupts the    *)
(* connection when the fiber is cancelled.                                    *)
(*                                                                            *)
(* Two locks matter: the OCaml runtime lock, under which the event loop, the  *)
(* threads' OCaml code and the stubs run, and the mutex of the SQLite         *)
(* connection.  exec and step release the runtime lock before they take the   *)
(* mutex, and take it again for a callback; the other stubs wait for the      *)
(* mutex with the runtime lock held.  OCaml code that does not block is one   *)
(* step, which needs the runtime lock to be free.                             *)
(*                                                                            *)
(* The model starts when the database is open and each fiber has prepared the *)
(* statement it steps, resets and finalises; what it executes and prepares    *)
(* besides are statements nobody steps.                                       *)
EXTENDS Naturals, FiniteSets

CONSTANTS
    Fibers,
    Loop,        \* the event loop's thread, as an owner of the runtime lock
    NoOne,
    MaxCalls,    \* bound: calls each fiber makes
    Careful      \* the program shares nothing with a call that has callbacks

ASSUME EioAssumption ==
    /\ Loop \notin Fibers /\ NoOne \notin Fibers \cup {Loop}
    /\ MaxCalls \in Nat /\ Careful \in BOOLEAN

\* exec and step leave the runtime lock; a row callback, a user function or a
\* collation takes it again in the middle.  prepare, reset and finalize keep it.
Execs == {"exec", "execCallback"}
Steps == {"step", "stepCallback"}
WithCallback == {"execCallback", "stepCallback"}
Keeping == {"prepare", "reset", "finalize"}
Kinds == Execs \cup Steps \cup Keeping

VARIABLES
    thread,      \* where the system thread of each fiber's call stands
    kind,        \* what the call does, or "none"
    result,      \* what it got from SQLite
    cancelled,   \* the fiber was cancelled during the call
    calls,       \* calls made by the fiber
    vm,          \* the fiber's statement: "null" (finalised), "ready", or
                 \* "active", between two rows
    closed,      \* st.closed
    dbptr,       \* the handle's connection is not NULL
    closing,     \* the event loop is inside db_close
    rt,          \* owner of the runtime lock while it is held across a wait
    mx,          \* owner of the connection's mutex
    interrupted, \* SQLite: an interrupt is in effect
    stopped      \* history: some call was cancelled or raised

callVars == <<kind, result, cancelled, calls, vm>>
closeVars == <<closed, dbptr, closing>>
vars == <<thread, callVars, closeVars, rt, mx, interrupted, stopped>>

Init ==
    /\ thread = [f \in Fibers |-> "none"]
    /\ kind = [f \in Fibers |-> "none"]
    /\ result = [f \in Fibers |-> "none"]
    /\ cancelled = [f \in Fibers |-> FALSE]
    /\ calls = [f \in Fibers |-> 0]
    /\ vm = [f \in Fibers |-> "ready"]
    /\ closed = FALSE /\ dbptr = TRUE /\ closing = FALSE
    /\ rt = NoOne /\ mx = NoOne
    /\ interrupted = FALSE /\ stopped = FALSE

----------------------------------------------------------------------------
(* SQLite.                                                                    *)

\* The fibers with a running statement: inside SQLite, or between rows.
Running == {f \in Fibers : thread[f] \in {"sql", "callback"} \/ vm[f] = "active"}

\* sqlite3_interrupt: in effect until no statement runs, and without effect
\* when none does.
Interrupt == interrupted' = (interrupted \/ (dbptr /\ Running # {}))

----------------------------------------------------------------------------
(* The fiber, on the event loop: run.                                         *)

\* The event loop has the runtime lock.
OnLoop == rt = NoOne

InCall(f) == thread[f] # "none"
Callers == {f \in Fibers : InCall(f)}

\* A careful program has a call with callbacks, or others, and not both.
Allowed(k) ==
    Careful => \A f \in Callers : (k \in WithCallback) = (kind[f] \in WithCallback)

\* check_open and the submission to a system thread; Closed is raised at once.
\* A fiber whose call was cancelled may go on in an outer context.
StartCall(f, k) ==
    /\ OnLoop
    /\ ~InCall(f) /\ calls[f] < MaxCalls
    /\ ~closed /\ Allowed(k)
    /\ thread' = [thread EXCEPT ![f] = "queued"]
    /\ kind' = [kind EXCEPT ![f] = k]
    /\ calls' = [calls EXCEPT ![f] = @ + 1]
    /\ UNCHANGED <<result, cancelled, vm, closeVars, rt, mx, interrupted, stopped>>

\* The fiber is cancelled: its watcher interrupts the connection, whichever
\* statements run on it, and the fiber goes on waiting for the thread.
Cancel(f) ==
    /\ OnLoop
    /\ InCall(f) /\ ~cancelled[f]
    /\ cancelled' = [cancelled EXCEPT ![f] = TRUE]
    /\ stopped' = TRUE
    /\ Interrupt
    /\ UNCHANGED <<thread, kind, result, calls, vm, closeVars, rt, mx>>

\* The call is over, for the fiber and for the model's account of it.
Finish(f) ==
    /\ thread' = [thread EXCEPT ![f] = "none"]
    /\ kind' = [kind EXCEPT ![f] = "none"]
    /\ result' = [result EXCEPT ![f] = "none"]
    /\ cancelled' = [cancelled EXCEPT ![f] = FALSE]

\* Mutant: completed is not looked at.
ReturnInterrupting(f) ==
    /\ OnLoop
    /\ thread[f] = "result"
    /\ Finish(f)
    /\ Interrupt
    /\ stopped' = (stopped \/ result[f] \in {"raised", "misuse"})
    /\ UNCHANGED <<calls, vm, closeVars, rt, mx>>

\* The thread's result reaches the fiber.  A return code, SQLITE_INTERRUPT
\* included, is a normal return: completed is set before the watcher goes.  An
\* exception leaves completed unset, and the watcher interrupts.
Return(f) ==
    /\ OnLoop
    /\ thread[f] = "result"
    /\ Finish(f)
    /\ \/ /\ result[f] \in {"rc", "interrupt"}
          /\ UNCHANGED <<interrupted, stopped>>
       \/ /\ result[f] \in {"raised", "misuse"}
          /\ Interrupt
          /\ stopped' = TRUE
    /\ UNCHANGED <<calls, vm, closeVars, rt, mx>>

\* close_state, on the event loop: db_close waits for the mutex, runtime lock
\* in hand.  Closing under a running exec is undefined (sqlite3.mli:81), and
\* left out; a running step keeps the connection as a zombie, and a careful
\* program does not close while one may call back.
StartClose ==
    /\ OnLoop /\ ~closed
    /\ \A f \in Callers : thread[f] \in {"want", "sql", "callback"} =>
          kind[f] \in Steps /\ (Careful => kind[f] \notin WithCallback)
    /\ closed' = TRUE
    /\ closing' = TRUE
    /\ rt' = Loop
    /\ UNCHANGED <<thread, callVars, dbptr, mx, interrupted, stopped>>

EndClose ==
    /\ closing /\ mx = NoOne
    /\ dbptr' = FALSE
    /\ closing' = FALSE
    /\ rt' = NoOne
    /\ UNCHANGED <<thread, callVars, closed, mx, interrupted, stopped>>

----------------------------------------------------------------------------
(* The system thread: fn handle.                                              *)

\* check_db of the stubs that take the handle, safe_get_stmtw of those that take
\* a statement.
Misused(f) == IF kind[f] \in Execs \cup {"prepare"} THEN ~dbptr ELSE vm[f] = "null"

\* The stub begins: after its check, exec and step leave the runtime lock, and
\* the others keep it while they wait for the mutex.
Begin(f) ==
    /\ thread[f] = "queued" /\ rt = NoOne
    /\ \/ /\ Misused(f)
          /\ thread' = [thread EXCEPT ![f] = "result"]
          /\ result' = [result EXCEPT ![f] = "misuse"]
          /\ UNCHANGED rt
       \/ /\ ~Misused(f) /\ kind[f] \in Keeping
          /\ thread' = [thread EXCEPT ![f] = "blocked"]
          /\ rt' = f
          /\ UNCHANGED result
       \/ /\ ~Misused(f) /\ kind[f] \notin Keeping
          /\ thread' = [thread EXCEPT ![f] = "want"]
          /\ UNCHANGED <<result, rt>>
    /\ UNCHANGED <<kind, cancelled, calls, vm, closeVars, mx, interrupted, stopped>>

\* sqlite3_exec or sqlite3_step takes the mutex; an old interrupt ends when
\* nothing is running.
EnterSql(f) ==
    /\ thread[f] = "want" /\ mx = NoOne
    /\ mx' = f
    /\ thread' = [thread EXCEPT ![f] = "sql"]
    /\ interrupted' = (interrupted /\ Running # {})
    /\ UNCHANGED <<callVars, closeVars, rt, stopped>>

\* SQLite calls back, and the callback needs the runtime lock.
CallBack(f) ==
    /\ thread[f] = "sql" /\ kind[f] \in WithCallback /\ result[f] = "none"
    /\ thread' = [thread EXCEPT ![f] = "callback"]
    /\ UNCHANGED <<callVars, closeVars, rt, mx, interrupted, stopped>>

\* Mutant: a callback that raises does not leave the runtime lock again.
RunCallbackKeepingLock(f) ==
    /\ thread[f] = "callback" /\ rt = NoOne
    /\ thread' = [thread EXCEPT ![f] = "sql"]
    /\ \E r \in {"rc"} \cup (IF kind[f] \in Execs THEN {"raised"} ELSE {}) :
          /\ result' = [result EXCEPT ![f] = r]
          /\ rt' = IF r = "raised" THEN f ELSE rt
    /\ UNCHANGED <<kind, cancelled, calls, vm, closeVars, mx, interrupted, stopped>>

\* The callback runs.  If it raises, exec is aborted and raises; a step makes an
\* error code of it.
RunCallback(f) ==
    /\ thread[f] = "callback" /\ rt = NoOne
    /\ thread' = [thread EXCEPT ![f] = "sql"]
    /\ \E r \in {"rc"} \cup (IF kind[f] \in Execs THEN {"raised"} ELSE {}) :
          result' = [result EXCEPT ![f] = r]
    /\ UNCHANGED <<kind, cancelled, calls, vm, closeVars, rt, mx, interrupted,
                   stopped>>

\* The statement ends, is interrupted, or stops at a row; the mutex is free.
\* What exec runs is not the fiber's own statement, which stays where it is.
LeaveSql(f) ==
    /\ thread[f] = "sql"
    /\ thread' = [thread EXCEPT ![f] = "leave"]
    /\ mx' = NoOne
    /\ \E now \in IF kind[f] \in Steps THEN {"ready", "active"} ELSE {vm[f]} :
          /\ vm' = [vm EXCEPT ![f] = now]
          /\ \/ /\ result[f] # "raised" /\ interrupted
                /\ kind[f] \in Steps => now = "ready"
                /\ result' = [result EXCEPT ![f] = "interrupt"]
             \/ result' = [result EXCEPT ![f] = IF @ = "none" THEN "rc" ELSE @]
    /\ UNCHANGED <<kind, cancelled, calls, closeVars, rt, interrupted, stopped>>

\* The thread takes the runtime lock back and enqueues its result.
Leave(f) ==
    /\ thread[f] = "leave" /\ rt = NoOne
    /\ thread' = [thread EXCEPT ![f] = "result"]
    /\ UNCHANGED <<callVars, closeVars, rt, mx, interrupted, stopped>>

\* prepare, reset or finalize gets the mutex.  reset ends a statement between
\* rows, finalize any; prepare, of another statement, may raise.
Stub(f) ==
    /\ thread[f] = "blocked" /\ mx = NoOne
    /\ thread' = [thread EXCEPT ![f] = "result"]
    /\ \E r \in {"rc"} \cup (IF kind[f] = "prepare" THEN {"raised"} ELSE {}) :
          result' = [result EXCEPT ![f] = r]
    /\ vm' = [vm EXCEPT ![f] = IF kind[f] = "reset" THEN "ready"
                               ELSE IF kind[f] = "finalize" THEN "null" ELSE @]
    /\ rt' = NoOne
    /\ UNCHANGED <<kind, cancelled, calls, closeVars, mx, interrupted, stopped>>

----------------------------------------------------------------------------
Thread(f) ==
    \/ Begin(f) \/ EnterSql(f) \/ CallBack(f) \/ RunCallback(f) \/ LeaveSql(f)
    \/ Leave(f) \/ Stub(f)

Next ==
    \/ \E f \in Fibers :
          \/ \E k \in Kinds : StartCall(f, k)
          \/ Cancel(f) \/ Return(f) \/ Begin(f) \/ EnterSql(f) \/ CallBack(f)
          \/ RunCallback(f) \/ LeaveSql(f) \/ Leave(f) \/ Stub(f)
    \/ StartClose \/ EndClose

Spec == Init /\ [][Next]_vars

\* Threads and the event loop get the locks they wait for infinitely often
\* free; statements end.  No fairness for starting, cancelling or closing.
Fairness ==
    /\ \A f \in Fibers : SF_vars(Thread(f)) /\ SF_vars(Return(f))
    /\ SF_vars(EndClose)

FairSpec == Spec /\ Fairness

----------------------------------------------------------------------------
(* Properties.                                                                *)

\* Type invariant, and who holds which lock: the mutex is held exactly inside
\* SQLite, the runtime lock across a wait exactly by a stub or db_close.
TypeOK ==
    /\ thread \in [Fibers -> {"none", "queued", "want", "sql", "callback",
                              "leave", "blocked", "result"}]
    /\ kind \in [Fibers -> Kinds \cup {"none"}]
    /\ result \in [Fibers -> {"none", "rc", "interrupt", "raised", "misuse"}]
    /\ cancelled \in [Fibers -> BOOLEAN]
    /\ vm \in [Fibers -> {"null", "ready", "active"}]
    /\ calls \in [Fibers -> 0 .. MaxCalls]
    /\ closed \in BOOLEAN /\ dbptr \in BOOLEAN /\ closing \in BOOLEAN
    /\ rt \in Fibers \cup {Loop, NoOne} /\ mx \in Fibers \cup {NoOne}
    /\ interrupted \in BOOLEAN /\ stopped \in BOOLEAN
    /\ \A f \in Fibers : mx = f <=> thread[f] \in {"sql", "callback"}
    /\ \A f \in Fibers : rt = f <=> thread[f] = "blocked"
    /\ rt = Loop <=> closing

\* A call that returns normally interrupts nobody: as long as no call has been
\* cancelled or has raised, no statement on the shared handle is interrupted.
NormalReturnsInterruptNobody ==
    ~stopped => \A f \in Fibers : result[f] # "interrupt"

\* Every call ends, also when it is cancelled, interrupted by another fiber's
\* cancellation, or raises - provided calls with callbacks share the handle
\* with nobody.
EveryCallEnds ==
    \A f \in Fibers : InCall(f) ~> ~InCall(f)

----------------------------------------------------------------------------
(* What the interface documents, and the code does not keep.                  *)

\* sqlite3_eio.mli:23-24: fibers sharing a handle via system threads are safe.
\* No fiber's thread waits for the mutex, runtime lock in hand, while that of the
\* fiber which has the mutex waits for the runtime lock.
SharingIsSafe ==
    \A f, g \in Fibers : ~(thread[f] = "callback" /\ thread[g] = "blocked")
=============================================================================
