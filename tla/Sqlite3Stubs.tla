---------------------------- MODULE Sqlite3Stubs ----------------------------
(* The C stubs of bleeding/sqlite3/lib/sqlite3_stubs.c: who keeps the memory  *)
(* of a database alive.  An OCaml handle, an OCaml statement and the SQLite   *)
(* library each hold pointers into what the others free, and the garbage      *)
(* collector finalises handles and statements in any order.                   *)
(*                                                                            *)
(* OCaml code and the stubs run one at a time, under the runtime lock, except *)
(* inside blocking sections: a step or an exec is therefore a begin and an    *)
(* end, every other stub one action.  As sqlite.org/threadsafe asks of        *)
(* callers (sqlite3.mli:81,89), a statement is not finalised or reset while   *)
(* it is stepped, nor a database closed while it executes.                    *)
EXTENDS Integers, FiniteSets

CONSTANTS
    Dbs,         \* databases opened
    Stmts,       \* statements prepared
    NoDb,
    Names,       \* names of user functions and collations
    Arities,     \* arities of user functions
    MaxLinks     \* bound: functions and collations ever registered

ASSUME StubsAssumption ==
    /\ IsFiniteSet(Stmts)
    /\ NoDb \notin Dbs
    /\ Names # {}
    /\ Arities \subseteq Int /\ 0 \in Arities
    /\ MaxLinks \in Nat

\* SQLite registers a function under a name and an arity, a collation under a
\* name.  A collation is written as if it had arity 0.
Kinds == {"function", "collation"}
Slots == ({"function"} \X Names \X Arities) \cup ({"collation"} \X Names \X {0})

\* user_function and user_collation cells, numbered as they are allocated.
\* The two lists of a db_wrap grow at the head, so they are sets of cells read
\* newest first.
Links == 1 .. MaxLinks
NoLink == 0

VARIABLES
    wrap,        \* db_wrap: "none", "live", or "freed"
    dbptr,       \* dbw->db is not NULL
    refs,        \* dbw->ref_count
    linked,      \* dbw->user_functions and dbw->user_collations
    handle,      \* OCaml db: "none", "held", "dropped", "collected"
    stmt,        \* OCaml stmt, whose stmt_wrap lives until it is collected
    owner,       \* stmtw->db_wrap
    vm,          \* stmtw->stmt: "null", "ready", or "active" between rows
    stepping,    \* statements inside sqlite3_step
    executing,   \* databases inside sqlite3_exec
    conn,        \* SQLite: "none", "open", "zombie", or "closed"
    reg,         \* SQLite: the cell registered in each slot of a connection
    label,       \* slot of each cell
    made         \* cells allocated so far

wrapVars == <<wrap, dbptr, refs>>
stmtVars == <<stmt, owner, vm, stepping>>
userVars == <<linked, reg, label, made>>
vars == <<wrapVars, stmtVars, userVars, handle, executing, conn>>

Life == {"none", "held", "dropped", "collected"}

Init ==
    /\ wrap = [d \in Dbs |-> "none"] /\ dbptr = [d \in Dbs |-> FALSE]
    /\ refs = [d \in Dbs |-> 0]
    /\ linked = [d \in Dbs |-> {}]
    /\ handle = [d \in Dbs |-> "none"]
    /\ stmt = [s \in Stmts |-> "none"]
    /\ owner = [s \in Stmts |-> NoDb]
    /\ vm = [s \in Stmts |-> "null"]
    /\ stepping = {} /\ executing = {}
    /\ conn = [d \in Dbs |-> "none"]
    /\ reg = [d \in Dbs |-> [x \in Slots |-> NoLink]]
    /\ label = [l \in Links |-> CHOOSE x \in Slots : TRUE]
    /\ made = 0

----------------------------------------------------------------------------
(* SQLite.                                                                    *)

\* The statements of a connection that have not been finalised.
Vms(d) == {s \in Stmts : owner[s] = d /\ vm[s] # "null"}

\* A connection with a statement between its first and last row, or in a call.
Active(d) ==
    \/ \E s \in Vms(d) : vm[s] = "active" \/ s \in stepping
    \/ d \in executing

\* sqlite3_finalize: the last statement of a zombie frees the connection.
Finalized(s) ==
    IF conn[owner[s]] = "zombie" /\ Vms(owner[s]) = {s}
    THEN [conn EXCEPT ![owner[s]] = "closed"]
    ELSE conn

\* sqlite3_close_v2: with statements left the connection becomes a zombie.
CloseV2(c, d, left) ==
    [c EXCEPT ![d] = IF left = {} THEN "closed" ELSE "zombie"]

----------------------------------------------------------------------------
(* Databases.                                                                 *)

\* caml_sqlite3_open, when it succeeds.
Open(d) ==
    /\ handle[d] = "none"
    /\ handle' = [handle EXCEPT ![d] = "held"]
    /\ wrap' = [wrap EXCEPT ![d] = "live"]
    /\ dbptr' = [dbptr EXCEPT ![d] = TRUE]
    /\ refs' = [refs EXCEPT ![d] = 1]
    /\ conn' = [conn EXCEPT ![d] = "open"]
    /\ UNCHANGED <<stmtVars, userVars, executing>>

\* A stub called with this handle passes check_db.
Usable(d) == handle[d] = "held" /\ dbptr[d]

\* caml_sqlite3_close.  The handle's reference is not given back.
Close(d) ==
    /\ Usable(d) /\ d \notin executing
    /\ conn' = CloseV2(conn, d, Vms(d))
    /\ dbptr' = [dbptr EXCEPT ![d] = FALSE]
    /\ UNCHANGED <<wrap, refs, stmtVars, userVars, handle, executing>>

\* Mutant: the connection is never closed.
RefDownNoClose(d, c, left) ==
    /\ refs' = [refs EXCEPT ![d] = @ - 1]
    /\ IF refs[d] = 1
       THEN /\ wrap' = [wrap EXCEPT ![d] = "freed"]
            /\ linked' = [linked EXCEPT ![d] = {}]
       ELSE UNCHANGED <<wrap, linked>>
    /\ conn' = c

\* ref_count_finalize_dbw, SQLite being in state c and left with some
\* statements: the last reference frees cells, connection (unless it has been
\* closed already) and db_wrap.
RefDown(d, c, left) ==
    /\ refs' = [refs EXCEPT ![d] = @ - 1]
    /\ IF refs[d] = 1
       THEN /\ wrap' = [wrap EXCEPT ![d] = "freed"]
            /\ linked' = [linked EXCEPT ![d] = {}]
            /\ conn' = IF dbptr[d] THEN CloseV2(c, d, left) ELSE c
       ELSE UNCHANGED <<wrap, linked>> /\ conn' = c

\* The program forgets a handle; a running exec still roots it.
DropDb(d) ==
    /\ handle[d] = "held"
    /\ handle' = [handle EXCEPT ![d] = "dropped"]
    /\ UNCHANGED <<wrapVars, stmtVars, userVars, executing, conn>>

\* db_wrap_finalize_gc: nothing at all when the user has closed the database.
GcDb(d) ==
    /\ handle[d] = "dropped" /\ d \notin executing
    /\ handle' = [handle EXCEPT ![d] = "collected"]
    /\ IF dbptr[d] THEN RefDown(d, conn, Vms(d))
                   ELSE UNCHANGED <<refs, wrap, linked, conn>>
    /\ UNCHANGED <<dbptr, reg, label, made, stmtVars, executing>>

\* caml_sqlite3_exec and its variants: v_db is rooted until the call returns.
BeginExec(d) ==
    /\ Usable(d) /\ d \notin executing
    /\ executing' = executing \cup {d}
    /\ UNCHANGED <<wrapVars, stmtVars, userVars, handle, conn>>

EndExec(d) ==
    /\ d \in executing
    /\ executing' = executing \ {d}
    /\ UNCHANGED <<wrapVars, stmtVars, userVars, handle, conn>>

----------------------------------------------------------------------------
(* Statements.                                                                *)

\* Mutant: the statement takes no reference.
PrepareItNoRef(s, d) ==
    /\ stmt[s] = "none"
    /\ stmt' = [stmt EXCEPT ![s] = "held"]
    /\ owner' = [owner EXCEPT ![s] = d]
    /\ vm' = [vm EXCEPT ![s] = "ready"]
    /\ UNCHANGED <<refs, wrap, dbptr, stepping, userVars, handle, executing, conn>>

\* prepare_it, when it succeeds: the statement is a new reference.
PrepareIt(s, d) ==
    /\ stmt[s] = "none"
    /\ stmt' = [stmt EXCEPT ![s] = "held"]
    /\ owner' = [owner EXCEPT ![s] = d]
    /\ vm' = [vm EXCEPT ![s] = "ready"]
    /\ refs' = [refs EXCEPT ![d] = @ + 1]
    /\ UNCHANGED <<wrap, dbptr, stepping, userVars, handle, executing, conn>>

\* caml_sqlite3_prepare.
Prepare(s, d) == Usable(d) /\ PrepareIt(s, d)

\* caml_sqlite3_prepare_tail: the database comes from the statement, whose
\* handle may be gone; SQLite refuses a NULL connection.
PrepareTail(s, from) ==
    /\ stmt[from] = "held"
    /\ dbptr[owner[from]]
    /\ PrepareIt(s, owner[from])

\* A stub that may destroy the compiled statement.
Quiet(s) == stmt[s] = "held" /\ s \notin stepping

\* caml_sqlite3_stmt_finalize.
StmtFinalize(s) ==
    /\ Quiet(s) /\ vm[s] # "null"
    /\ conn' = Finalized(s)
    /\ vm' = [vm EXCEPT ![s] = "null"]
    /\ UNCHANGED <<wrapVars, stmt, owner, stepping, userVars, handle, executing>>

\* caml_sqlite3_stmt_reset.
StmtReset(s) ==
    /\ Quiet(s) /\ vm[s] = "active"
    /\ vm' = [vm EXCEPT ![s] = "ready"]
    /\ UNCHANGED <<wrapVars, stmt, owner, stepping, userVars, handle, executing,
                   conn>>

\* caml_sqlite3_recompile: finalise, then prepare again, which fails if the
\* database has been closed and may fail otherwise.
Recompile(s) ==
    /\ Quiet(s)
    /\ conn' = IF vm[s] = "null" THEN conn ELSE Finalized(s)
    /\ \E now \in {"null"} \cup (IF dbptr[owner[s]] THEN {"ready"} ELSE {}) :
          vm' = [vm EXCEPT ![s] = now]
    /\ UNCHANGED <<wrapVars, stmt, owner, stepping, userVars, handle, executing>>

\* caml_sqlite3_step: v_stmt is rooted until the call returns.
BeginStep(s) ==
    /\ Quiet(s) /\ vm[s] # "null"
    /\ stepping' = stepping \cup {s}
    /\ UNCHANGED <<wrapVars, stmt, owner, vm, userVars, handle, executing, conn>>

EndStep(s) ==
    /\ s \in stepping
    /\ stepping' = stepping \ {s}
    /\ \E now \in {"ready", "active"} : vm' = [vm EXCEPT ![s] = now]
    /\ UNCHANGED <<wrapVars, stmt, owner, userVars, handle, executing, conn>>

\* The program forgets a statement.
DropStmt(s) ==
    /\ stmt[s] = "held"
    /\ stmt' = [stmt EXCEPT ![s] = "dropped"]
    /\ UNCHANGED <<wrapVars, owner, vm, stepping, userVars, handle, executing, conn>>

\* Mutant: nothing roots the statement during the call.
GcStmtUnrooted(s) ==
    /\ stmt[s] = "dropped"
    /\ stmt' = [stmt EXCEPT ![s] = "collected"]
    /\ vm' = [vm EXCEPT ![s] = "null"]
    /\ RefDown(owner[s], IF vm[s] = "null" THEN conn ELSE Finalized(s),
               Vms(owner[s]) \ {s})
    /\ UNCHANGED <<dbptr, owner, stepping, reg, label, made, handle, executing>>

\* Mutant: nothing is given up for a statement the user has finalised.
GcStmtUnlessNull(s) ==
    /\ stmt[s] = "dropped" /\ s \notin stepping
    /\ stmt' = [stmt EXCEPT ![s] = "collected"]
    /\ vm' = [vm EXCEPT ![s] = "null"]
    /\ IF vm[s] = "null"
       THEN UNCHANGED <<refs, wrap, linked, conn>>
       ELSE RefDown(owner[s], Finalized(s), Vms(owner[s]) \ {s})
    /\ UNCHANGED <<dbptr, owner, stepping, reg, label, made, handle, executing>>

\* stmt_wrap_finalize_gc.
GcStmt(s) ==
    /\ stmt[s] = "dropped" /\ s \notin stepping
    /\ stmt' = [stmt EXCEPT ![s] = "collected"]
    /\ vm' = [vm EXCEPT ![s] = "null"]
    /\ RefDown(owner[s], IF vm[s] = "null" THEN conn ELSE Finalized(s),
               Vms(owner[s]) \ {s})
    /\ UNCHANGED <<dbptr, owner, stepping, reg, label, made, handle, executing>>

----------------------------------------------------------------------------
(* User functions and collations.                                             *)

KindOf(l) == label[l][1]
NameOf(l) == label[l][2]

\* unregister_user_function, unregister_user_collation: the first cell of that
\* name leaves the list and is freed, whatever its arity.
Unlink(S, k, n) ==
    LET same == {l \in S : KindOf(l) = k /\ NameOf(l) = n} IN
    {l \in S : ~(l \in same /\ \A m \in same : m <= l)}

\* create_function, create_aggregate_function, create_collation: the cell is
\* listed before SQLite is asked, and unlisted by name if SQLite refuses, as
\* it does when the slot is taken and a statement is active.
Create(d, x) ==
    /\ Usable(d) /\ made < MaxLinks
    /\ made' = made + 1
    /\ label' = [label EXCEPT ![made + 1] = x]
    /\ \/ /\ reg[d][x] = NoLink \/ ~Active(d)
          /\ linked' = [linked EXCEPT ![d] = @ \cup {made + 1}]
          /\ reg' = [reg EXCEPT ![d][x] = made + 1]
       \/ UNCHANGED <<linked, reg>>
    /\ UNCHANGED <<wrapVars, stmtVars, handle, executing, conn>>

\* Mutant: the cell is unlisted before SQLite is asked.
DeleteUnlinkingFirst(d, k, n) ==
    /\ Usable(d)
    /\ linked' = [linked EXCEPT ![d] = Unlink(@, k, n)]
    /\ reg' = IF Active(d) /\ reg[d][<<k, n, 0>>] # NoLink THEN reg
              ELSE [reg EXCEPT ![d][<<k, n, 0>>] = NoLink]
    /\ UNCHANGED <<label, made, wrapVars, stmtVars, handle, executing, conn>>

\* delete_function, delete_collation: SQLite clears the slot of arity 0, or
\* refuses while a statement is active; then the first cell of the name goes.
Delete(d, k, n) ==
    /\ Usable(d)
    /\ reg[d][<<k, n, 0>>] = NoLink \/ ~Active(d)
    /\ linked' = [linked EXCEPT ![d] = Unlink(@, k, n)]
    /\ reg' = [reg EXCEPT ![d][<<k, n, 0>>] = NoLink]
    /\ UNCHANGED <<label, made, wrapVars, stmtVars, handle, executing, conn>>

----------------------------------------------------------------------------
Next ==
    \/ \E d \in Dbs :
          \/ Open(d) \/ Close(d) \/ DropDb(d) \/ GcDb(d)
          \/ BeginExec(d) \/ EndExec(d)
          \/ \E x \in Slots : Create(d, x)
          \/ \E k \in Kinds, n \in Names : Delete(d, k, n)
          \/ \E s \in Stmts : Prepare(s, d)
    \/ \E s \in Stmts :
          \/ StmtFinalize(s) \/ StmtReset(s) \/ Recompile(s)
          \/ BeginStep(s) \/ EndStep(s) \/ DropStmt(s) \/ GcStmt(s)
          \/ \E from \in Stmts : PrepareTail(s, from)

Spec == Init /\ [][Next]_vars

----------------------------------------------------------------------------
(* Properties.                                                                *)

\* Type invariant.
TypeOK ==
    /\ wrap \in [Dbs -> {"none", "live", "freed"}]
    /\ dbptr \in [Dbs -> BOOLEAN]
    /\ refs \in [Dbs -> Nat]
    /\ linked \in [Dbs -> SUBSET Links]
    /\ handle \in [Dbs -> Life]
    /\ stmt \in [Stmts -> Life]
    /\ owner \in [Stmts -> Dbs \cup {NoDb}]
    /\ vm \in [Stmts -> {"null", "ready", "active"}]
    /\ stepping \subseteq Stmts /\ executing \subseteq Dbs
    /\ conn \in [Dbs -> {"none", "open", "zombie", "closed"}]
    /\ reg \in [Dbs -> [Slots -> Links \cup {NoLink}]]
    /\ label \in [Links -> Slots]
    /\ made \in 0 .. MaxLinks

Alive == {"held", "dropped"}

\* The statements whose stmt_wrap points to the db_wrap of d.
Pointing(d) == {s \in Stmts : stmt[s] \in Alive /\ owner[s] = d}

\* Whatever order the collector takes, the db_wrap that a handle or a
\* statement points to has not been freed.
NoDanglingWrap ==
    /\ \A d \in Dbs : handle[d] \in Alive => wrap[d] = "live"
    /\ \A s \in Stmts : stmt[s] \in Alive => wrap[owner[s]] = "live"

\* A compiled statement has a connection to run on, also after the database was
\* closed or collected; one that is being stepped has not been finalised; and a
\* pointer check_db lets through is that of an open connection.
NoDanglingConnection ==
    /\ \A s \in Stmts : vm[s] # "null" => conn[owner[s]] \in {"open", "zombie"}
    /\ \A s \in stepping : vm[s] # "null"
    /\ \A d \in Dbs : wrap[d] = "live" /\ dbptr[d] => conn[d] = "open"

\* sqlite3.mli:76: databases are closed by the collector unless the user has
\* closed them.  Nothing of the connection is left when handle and statements
\* are gone.
CollectedIsClosed ==
    \A d \in Dbs : handle[d] = "collected" /\ Pointing(d) = {} => conn[d] = "closed"

\* A database left to the collector leaves no memory behind: its db_wrap, with the
\* closures it roots, is freed when handle and statements are gone, whichever of
\* them goes last.  (Of one the user has closed nothing is claimed.)
CollectedIsFreed ==
    \A d \in Dbs : handle[d] = "collected" /\ Pointing(d) = {} /\ dbptr[d] =>
        wrap[d] = "freed"

\* A registered collation, or function of arity 0, is called with a cell that
\* has not been freed, although cells are unlisted by name only.
NullaryCellsAlive ==
    \A d \in Dbs : conn[d] \in {"open", "zombie"} =>
        \A x \in Slots : x[3] = 0 /\ reg[d][x] # NoLink => reg[d][x] \in linked[d]
=============================================================================
