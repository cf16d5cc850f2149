-------------------------- MODULE Sqlite3StubsProofs --------------------------
(* Proofs about Sqlite3Stubs, for every set of databases and statements.      *)
EXTENDS Sqlite3Stubs, FiniteSetTheorems, TLAPS

----------------------------------------------------------------------------
(* The inductive invariant.                                                   *)

\* Statements belong to databases that were opened, and only a statement that
\* has not been collected has a compiled statement.
Owned ==
    \A s \in Stmts :
        /\ stmt[s] # "none" => owner[s] \in Dbs /\ handle[owner[s]] # "none"
        /\ vm[s] # "null" => stmt[s] \in Alive

\* What the handle adds to the count: one, which the collector gives back
\* unless the user has closed the database.
HandleRef(d) ==
    IF handle[d] \in Alive \/ (handle[d] = "collected" /\ ~dbptr[d]) THEN 1 ELSE 0

\* ref_count is exact.
Counted ==
    \A d \in Dbs : refs[d] = Cardinality(Pointing(d)) + HandleRef(d)

\* The db_wrap lives exactly as long as there is a reference.
Wrapped ==
    \A d \in Dbs :
        /\ wrap[d] = "live" <=> refs[d] > 0
        /\ wrap[d] = "none" <=> handle[d] = "none"

\* What the stubs know of the connection, against what SQLite knows of it.
Connected ==
    /\ \A d \in Dbs :
          /\ wrap[d] = "live" /\ dbptr[d] => conn[d] = "open"
          /\ handle[d] # "none" /\ ~dbptr[d] => conn[d] \in {"zombie", "closed"}
          /\ conn[d] = "zombie" => Vms(d) # {}
          /\ wrap[d] = "freed" => conn[d] = "closed"
    /\ \A s \in Stmts : vm[s] # "null" => conn[owner[s]] \in {"open", "zombie"}
    /\ \A s \in stepping : vm[s] # "null"

\* Cells are numbered by made; a slot holds a cell made for it, which is still
\* listed if the slot is a collation's or that of arity 0.
Registered ==
    \A d \in Dbs :
        /\ linked[d] \subseteq 1 .. made
        /\ \A x \in Slots :
              /\ reg[d][x] \in 0 .. made
              /\ reg[d][x] # NoLink => label[reg[d][x]] = x
              /\ handle[d] = "none" => reg[d][x] = NoLink
        /\ conn[d] \in {"open", "zombie"} =>
              \A x \in Slots :
                  x[3] = 0 /\ reg[d][x] # NoLink => reg[d][x] \in linked[d]

Inv == TypeOK /\ Owned /\ Counted /\ Wrapped /\ Connected /\ Registered

----------------------------------------------------------------------------
(* Helpers.                                                                   *)

\* Few statements point to a db_wrap.
LEMMA PointingFinite ==
    ASSUME NEW d \in Dbs
    PROVE  IsFiniteSet(Pointing(d)) /\ Cardinality(Pointing(d)) \in Nat
  <1>1. Pointing(d) \in SUBSET Stmts
    BY DEF Pointing
  <1>2. IsFiniteSet(Pointing(d))
    BY <1>1, FS_Subset, StubsAssumption
  <1> QED
    BY <1>2, FS_CardinalityType

\* The reference of a live statement is counted.
LEMMA StatementCounted ==
    ASSUME Inv, NEW s \in Stmts, stmt[s] \in Alive
    PROVE  /\ owner[s] \in Dbs
           /\ refs[owner[s]] >= 1 /\ wrap[owner[s]] = "live"
           /\ handle[owner[s]] # "none"
  <1>1. owner[s] \in Dbs /\ handle[owner[s]] # "none"
    BY DEF Inv, Owned, Alive
  <1>2. s \in Pointing(owner[s])
    BY DEF Pointing
  <1>3. Cardinality(Pointing(owner[s])) # 0
    BY <1>1, <1>2, PointingFinite, FS_EmptySet
  <1>4. Cardinality(Pointing(owner[s])) >= 1
    BY <1>1, <1>3, PointingFinite
  <1>5. refs[owner[s]] >= 1
    BY <1>1, <1>4, PointingFinite DEF Inv, Counted, HandleRef
  <1> QED
    BY <1>1, <1>5 DEF Inv, Wrapped, TypeOK

\* A handle that has not been collected is counted.
LEMMA HandleCounted ==
    ASSUME Inv, NEW d \in Dbs,
           handle[d] \in Alive \/ (handle[d] = "collected" /\ ~dbptr[d])
    PROVE  refs[d] >= 1 /\ wrap[d] = "live"
  <1>1. HandleRef(d) = 1
    BY DEF HandleRef
  <1>2. refs[d] >= 1
    BY <1>1, PointingFinite DEF Inv, Counted
  <1> QED
    BY <1>2 DEF Inv, Wrapped, TypeOK

\* A reference that is the last one is the only statement and no handle, or
\* the handle and no statement.
LEMMA LastReference ==
    ASSUME Inv, NEW d \in Dbs, refs[d] = 1
    PROVE  /\ HandleRef(d) = 1 => Pointing(d) = {}
           /\ \A s \in Pointing(d) : Pointing(d) = {s} /\ HandleRef(d) = 0
  <1>1. refs[d] = Cardinality(Pointing(d)) + HandleRef(d) /\ HandleRef(d) \in {0, 1}
    BY DEF Inv, Counted, HandleRef
  <1>2. ASSUME HandleRef(d) = 1 PROVE Pointing(d) = {}
    <2>1. Cardinality(Pointing(d)) = 0
      BY <1>1, <1>2, PointingFinite
    <2> QED
      BY <2>1, PointingFinite, FS_EmptySet
  <1>3. ASSUME NEW s \in Pointing(d) PROVE Pointing(d) = {s} /\ HandleRef(d) = 0
    <2>1. HandleRef(d) = 0
      BY <1>1, <1>2
    <2>2. Cardinality(Pointing(d)) = 1
      BY <1>1, <2>1, PointingFinite
    <2>3. Cardinality(Pointing(d) \ {s}) = 0 /\ IsFiniteSet(Pointing(d) \ {s})
      BY <2>2, PointingFinite, FS_RemoveElement
    <2>4. Pointing(d) \ {s} = {}
      BY <2>3, FS_EmptySet
    <2> QED
      BY <2>1, <2>4
  <1> QED
    BY <1>2, <1>3

\* What holds where a statement is prepared, of either stub.
LEMMA PrepareContext ==
    ASSUME Inv, NEW s \in Stmts,
           \/ \E d \in Dbs : Prepare(s, d)
           \/ \E from \in Stmts : PrepareTail(s, from)
    PROVE  \E d \in Dbs : /\ PrepareIt(s, d)
                          /\ dbptr[d] /\ wrap[d] = "live" /\ handle[d] # "none"
  <1>1. CASE \E d \in Dbs : Prepare(s, d)
    BY <1>1, HandleCounted DEF Prepare, Usable, Alive
  <1>2. CASE \E from \in Stmts : PrepareTail(s, from)
    BY <1>2, StatementCounted DEF PrepareTail, Alive
  <1> QED
    BY <1>1, <1>2

\* sqlite3_finalize and sqlite3_close_v2 leave a state of SQLite.
LEMMA ConnTypes ==
    ASSUME TypeOK
    PROVE  /\ \A s \in Stmts :
                 Finalized(s) \in [Dbs -> {"none", "open", "zombie", "closed"}]
           /\ \A c \in [Dbs -> {"none", "open", "zombie", "closed"}], d \in Dbs :
                 \A left : CloseV2(c, d, left) \in [Dbs -> {"none", "open", "zombie", "closed"}]
  BY DEF TypeOK, Finalized, CloseV2

----------------------------------------------------------------------------
\* A step keeps the types.
LEMMA TypeStep ==
    ASSUME Inv, [Next]_vars
    PROVE  TypeOK'
  <1>1. ASSUME NEW d \in Dbs, Open(d)
         PROVE  TypeOK'
    BY <1>1 DEF Inv, TypeOK, Life, Open, stmtVars, userVars
  <1>2. ASSUME NEW d \in Dbs, Close(d)
         PROVE  TypeOK'
    BY <1>2 DEF Inv, TypeOK, Life, Close, CloseV2, stmtVars, userVars
  <1>3. ASSUME NEW d \in Dbs, DropDb(d)
         PROVE  TypeOK'
    BY <1>3 DEF Inv, TypeOK, Life, DropDb, wrapVars, stmtVars, userVars
  <1>4. ASSUME NEW d \in Dbs, GcDb(d)
         PROVE  TypeOK'
    <2>1. refs[d] >= 1
      BY <1>4, HandleCounted DEF GcDb, Alive
    <2>2. refs[d] - 1 \in Nat
      BY <2>1 DEF Inv, TypeOK
    <2> QED
      BY <1>4, <2>2 DEF Inv, TypeOK, Life, GcDb, RefDown, CloseV2, stmtVars
  <1>5. ASSUME NEW d \in Dbs, BeginExec(d)
         PROVE  TypeOK'
    BY <1>5
    DEF Inv, TypeOK, Life, BeginExec, Usable, wrapVars, stmtVars, userVars
  <1>6. ASSUME NEW d \in Dbs, EndExec(d)
         PROVE  TypeOK'
    BY <1>6 DEF Inv, TypeOK, Life, EndExec, wrapVars, stmtVars, userVars
  <1>7. ASSUME NEW d \in Dbs, NEW x \in Slots, Create(d, x)
         PROVE  TypeOK'
    <2>1. made + 1 \in Links /\ made + 1 \in 0 .. MaxLinks
      BY <1>7, StubsAssumption DEF Inv, TypeOK, Create, Links
    <2>2. linked' \in [Dbs -> SUBSET Links]
      <3>1. linked' = linked \/ linked' = [linked EXCEPT ![d] = @ \cup {made + 1}]
        BY <1>7 DEF Create
      <3>2. linked \in [Dbs -> SUBSET Links]
        BY DEF Inv, TypeOK
      <3>3. linked[d] \cup {made + 1} \in SUBSET Links
        BY <2>1, <3>2
      <3> QED
        BY <3>1, <3>2, <3>3
    <2>3. reg' \in [Dbs -> [Slots -> Links \cup {NoLink}]]
      <3>1. reg \in [Dbs -> [Slots -> Links \cup {NoLink}]]
        BY DEF Inv, TypeOK
      <3>2. [reg[d] EXCEPT ![x] = made + 1] \in [Slots -> Links \cup {NoLink}]
        BY <2>1, <3>1
      <3>3. reg' = reg \/ reg' = [reg EXCEPT ![d] = [reg[d] EXCEPT ![x] = made + 1]]
        BY <1>7, <3>1 DEF Create
      <3> QED
        BY <3>1, <3>2, <3>3
    <2>4. label' \in [Links -> Slots] /\ made' \in 0 .. MaxLinks
      BY <1>7, <2>1 DEF Inv, TypeOK, Create
    <2> QED
      BY <1>7, <2>2, <2>3, <2>4 DEF Inv, TypeOK, Create, wrapVars, stmtVars
  <1>8. ASSUME NEW d \in Dbs, NEW k \in Kinds, NEW n \in Names, Delete(d, k, n)
         PROVE  TypeOK'
    <2>1. Unlink(linked[d], k, n) \subseteq linked[d]
      BY DEF Unlink
    <2> QED
      BY <1>8, <2>1 DEF Inv, TypeOK, Delete, wrapVars, stmtVars, NoLink
  <1>9. ASSUME NEW s \in Stmts, NEW d \in Dbs, PrepareIt(s, d),
                dbptr[d], wrap[d] = "live", handle[d] # "none"
         PROVE  TypeOK'
    BY <1>9 DEF Inv, TypeOK, Life, PrepareIt, userVars
  <1>10. ASSUME NEW s \in Stmts, StmtFinalize(s)
         PROVE  TypeOK'
    BY <1>10 DEF Inv, TypeOK, Life, StmtFinalize, Finalized, wrapVars, userVars
  <1>11. ASSUME NEW s \in Stmts, StmtReset(s)
         PROVE  TypeOK'
    BY <1>11 DEF Inv, TypeOK, Life, StmtReset, Quiet, wrapVars, userVars
  <1>12. ASSUME NEW s \in Stmts, Recompile(s)
         PROVE  TypeOK'
    <2>1. conn' \in [Dbs -> {"none", "open", "zombie", "closed"}]
      BY <1>12, ConnTypes DEF Inv, TypeOK, Recompile
    <2>2. vm' \in [Stmts -> {"null", "ready", "active"}]
      BY <1>12 DEF Inv, TypeOK, Recompile
    <2> QED
      BY <1>12, <2>1, <2>2 DEF Inv, TypeOK, Life, Recompile, wrapVars, userVars
  <1>13. ASSUME NEW s \in Stmts, BeginStep(s)
         PROVE  TypeOK'
    BY <1>13 DEF Inv, TypeOK, Life, BeginStep, wrapVars, userVars
  <1>14. ASSUME NEW s \in Stmts, EndStep(s)
         PROVE  TypeOK'
    BY <1>14 DEF Inv, TypeOK, Life, EndStep, wrapVars, userVars
  <1>15. ASSUME NEW s \in Stmts, DropStmt(s)
         PROVE  TypeOK'
    BY <1>15 DEF Inv, TypeOK, Life, DropStmt, wrapVars, userVars
  <1>16. ASSUME NEW s \in Stmts, GcStmt(s)
         PROVE  TypeOK'
    <2>1. owner[s] \in Dbs /\ refs[owner[s]] >= 1
      BY <1>16, StatementCounted DEF GcStmt, Alive
    <2>2. refs[owner[s]] - 1 \in Nat
      BY <2>1 DEF Inv, TypeOK
    <2>3. conn' \in [Dbs -> {"none", "open", "zombie", "closed"}]
      <3>1. conn \in [Dbs -> {"none", "open", "zombie", "closed"}] /\ TypeOK
        BY DEF Inv, TypeOK
      <3> DEFINE c == IF vm[s] = "null" THEN conn ELSE Finalized(s)
      <3>2. c \in [Dbs -> {"none", "open", "zombie", "closed"}]
        BY <3>1, <1>16, ConnTypes
      <3>3. conn' \in {c, CloseV2(c, owner[s], Vms(owner[s]) \ {s})}
        BY <1>16 DEF GcStmt, RefDown
      <3> HIDE DEF c
      <3> QED
        BY <2>1, <3>1, <3>2, <3>3, ConnTypes
    <2> QED
      BY <1>16, <2>1, <2>2, <2>3 DEF Inv, TypeOK, Life, GcStmt, RefDown
  <1>17. CASE UNCHANGED vars
    BY <1>17 DEF Inv, TypeOK, Life, vars, wrapVars, stmtVars, userVars
  <1> QED
    BY <1>1, <1>2, <1>3, <1>4, <1>5, <1>6, <1>7, <1>8, <1>9, <1>10, <1>11,
       <1>12, <1>13, <1>14, <1>15, <1>16, <1>17, PrepareContext
    DEF Next

\* A step keeps statements with their databases.
LEMMA OwnedStep ==
    ASSUME Inv, [Next]_vars
    PROVE  Owned'
  <1>1. ASSUME NEW d \in Dbs, Open(d)
         PROVE  Owned'
    BY <1>1 DEF Inv, TypeOK, Owned, Alive, Open, stmtVars, userVars
  <1>2. ASSUME NEW d \in Dbs, Close(d)
         PROVE  Owned'
    BY <1>2 DEF Inv, TypeOK, Owned, Alive, Close, Usable, stmtVars, userVars
  <1>3. ASSUME NEW d \in Dbs, DropDb(d)
         PROVE  Owned'
    BY <1>3 DEF Inv, TypeOK, Owned, Alive, DropDb, wrapVars, stmtVars, userVars
  <1>4. ASSUME NEW d \in Dbs, GcDb(d)
         PROVE  Owned'
    BY <1>4 DEF Inv, TypeOK, Owned, Alive, GcDb, RefDown, stmtVars
  <1>5. ASSUME NEW d \in Dbs, BeginExec(d)
         PROVE  Owned'
    BY <1>5
    DEF Inv, TypeOK, Owned, Alive, BeginExec, Usable, wrapVars, stmtVars,
        userVars
  <1>6. ASSUME NEW d \in Dbs, EndExec(d)
         PROVE  Owned'
    BY <1>6 DEF Inv, TypeOK, Owned, Alive, EndExec, wrapVars, stmtVars, userVars
  <1>7. ASSUME NEW d \in Dbs, NEW x \in Slots, Create(d, x)
         PROVE  Owned'
    BY <1>7 DEF Inv, TypeOK, Owned, Alive, Create, Usable, wrapVars, stmtVars
  <1>8. ASSUME NEW d \in Dbs, NEW k \in Kinds, NEW n \in Names, Delete(d, k, n)
         PROVE  Owned'
    BY <1>8 DEF Inv, TypeOK, Owned, Alive, Delete, Usable, wrapVars, stmtVars
  <1>9. ASSUME NEW s \in Stmts, NEW d \in Dbs, PrepareIt(s, d),
                dbptr[d], wrap[d] = "live", handle[d] # "none"
         PROVE  Owned'
    BY <1>9 DEF Inv, TypeOK, Owned, Alive, PrepareIt, userVars
  <1>10. ASSUME NEW s \in Stmts, StmtFinalize(s)
         PROVE  Owned'
    BY <1>10
    DEF Inv, TypeOK, Owned, Alive, StmtFinalize, Quiet, wrapVars, userVars
  <1>11. ASSUME NEW s \in Stmts, StmtReset(s)
         PROVE  Owned'
    BY <1>11 DEF Inv, TypeOK, Owned, Alive, StmtReset, Quiet, wrapVars, userVars
  <1>12. ASSUME NEW s \in Stmts, Recompile(s)
         PROVE  Owned'
    BY <1>12 DEF Inv, TypeOK, Owned, Alive, Recompile, Quiet, wrapVars, userVars
  <1>13. ASSUME NEW s \in Stmts, BeginStep(s)
         PROVE  Owned'
    BY <1>13 DEF Inv, TypeOK, Owned, Alive, BeginStep, Quiet, wrapVars, userVars
  <1>14. ASSUME NEW s \in Stmts, EndStep(s)
         PROVE  Owned'
    BY <1>14
    DEF Inv, TypeOK, Owned, Connected, Alive, EndStep, wrapVars, userVars
  <1>15. ASSUME NEW s \in Stmts, DropStmt(s)
         PROVE  Owned'
    BY <1>15 DEF Inv, TypeOK, Owned, Alive, DropStmt, wrapVars, userVars
  <1>16. ASSUME NEW s \in Stmts, GcStmt(s)
         PROVE  Owned'
    BY <1>16 DEF Inv, TypeOK, Owned, Alive, GcStmt, RefDown
  <1>17. CASE UNCHANGED vars
    BY <1>17 DEF Inv, TypeOK, Owned, Alive, vars, wrapVars, stmtVars, userVars
  <1> QED
    BY <1>1, <1>2, <1>3, <1>4, <1>5, <1>6, <1>7, <1>8, <1>9, <1>10, <1>11,
       <1>12, <1>13, <1>14, <1>15, <1>16, <1>17, PrepareContext
    DEF Next


\* The count is exact after a step that touches nothing it depends on.
LEMMA CountKept ==
    ASSUME Inv, UNCHANGED <<refs, stmt, owner, handle, dbptr>>
    PROVE  Counted'
  <1> SUFFICES ASSUME NEW d \in Dbs
               PROVE  refs'[d] = Cardinality(Pointing(d)') + HandleRef(d)'
    BY DEF Counted
  <1>1. Pointing(d)' = Pointing(d) /\ HandleRef(d)' = HandleRef(d)
    BY DEF Pointing, HandleRef
  <1> QED
    BY <1>1 DEF Inv, Counted

\* Dropping and collecting handles does not change who points where.
LEMMA PointingKept ==
    ASSUME UNCHANGED owner,
           \A s \in Stmts : stmt'[s] \in Alive <=> stmt[s] \in Alive,
           NEW d \in Dbs
    PROVE  Pointing(d)' = Pointing(d)
  BY DEF Pointing

\* A step keeps ref_count exact.
LEMMA CountedStep ==
    ASSUME Inv, [Next]_vars
    PROVE  Counted'
  <1>1. ASSUME NEW d \in Dbs, Open(d)
         PROVE  Counted'
    <2> SUFFICES ASSUME NEW e \in Dbs
                 PROVE  refs'[e] = Cardinality(Pointing(e)') + HandleRef(e)'
      BY DEF Counted
    <2>1. Pointing(e)' = Pointing(e)
      BY <1>1, PointingKept DEF Open, stmtVars
    <2>2. CASE e = d
      <3>1. Pointing(d) = {}
        BY <1>1 DEF Inv, Owned, Open, Pointing, Alive
      <3>2. refs'[d] = 1 /\ HandleRef(d)' = 1
        BY <1>1 DEF Inv, TypeOK, Open, HandleRef, Alive
      <3> QED
        BY <2>1, <2>2, <3>1, <3>2, FS_EmptySet
    <2>3. CASE e # d
      <3>1. refs'[e] = refs[e] /\ HandleRef(e)' = HandleRef(e)
        BY <1>1, <2>3 DEF Inv, TypeOK, Open, HandleRef
      <3> QED
        BY <2>1, <3>1 DEF Inv, Counted
    <2> QED
      BY <2>2, <2>3
  <1>2. ASSUME NEW d \in Dbs, Close(d)
         PROVE  Counted'
    <2> SUFFICES ASSUME NEW e \in Dbs
                 PROVE  refs'[e] = Cardinality(Pointing(e)') + HandleRef(e)'
      BY DEF Counted
    <2>1. Pointing(e)' = Pointing(e)
      BY <1>2, PointingKept DEF Close, stmtVars
    <2>2. refs'[e] = refs[e] /\ HandleRef(e)' = HandleRef(e)
      BY <1>2 DEF Inv, TypeOK, Close, Usable, HandleRef, Alive
    <2> QED
      BY <2>1, <2>2 DEF Inv, Counted
  <1>3. ASSUME NEW d \in Dbs, DropDb(d)
         PROVE  Counted'
    <2> SUFFICES ASSUME NEW e \in Dbs
                 PROVE  refs'[e] = Cardinality(Pointing(e)') + HandleRef(e)'
      BY DEF Counted
    <2>1. Pointing(e)' = Pointing(e)
      BY <1>3, PointingKept DEF DropDb, stmtVars
    <2>2. refs'[e] = refs[e] /\ HandleRef(e)' = HandleRef(e)
      BY <1>3 DEF Inv, TypeOK, DropDb, wrapVars, HandleRef, Alive
    <2> QED
      BY <2>1, <2>2 DEF Inv, Counted
  <1>4. ASSUME NEW d \in Dbs, GcDb(d)
         PROVE  Counted'
    <2> SUFFICES ASSUME NEW e \in Dbs
                 PROVE  refs'[e] = Cardinality(Pointing(e)') + HandleRef(e)'
      BY DEF Counted
    <2>1. Pointing(e)' = Pointing(e)
      BY <1>4, PointingKept DEF GcDb, stmtVars
    <2>2. CASE e = d /\ dbptr[d]
      <3>1. refs'[d] = refs[d] - 1 /\ HandleRef(d)' = 0 /\ HandleRef(d) = 1
        BY <1>4, <2>2 DEF Inv, TypeOK, GcDb, RefDown, HandleRef, Alive
      <3> QED
        BY <2>1, <2>2, <3>1, PointingFinite DEF Inv, Counted
    <2>3. CASE ~(e = d /\ dbptr[d])
      <3>1. refs'[e] = refs[e] /\ HandleRef(e)' = HandleRef(e)
        BY <1>4, <2>3 DEF Inv, TypeOK, GcDb, RefDown, HandleRef, Alive
      <3> QED
        BY <2>1, <3>1 DEF Inv, Counted
    <2> QED
      BY <2>2, <2>3
  <1>5. ASSUME NEW d \in Dbs, BeginExec(d)
         PROVE  Counted'
    <2>1. UNCHANGED <<refs, stmt, owner, handle, dbptr>>
      BY <1>5 DEF BeginExec, Usable, wrapVars, stmtVars, userVars
    <2> QED
      BY <2>1, CountKept
  <1>6. ASSUME NEW d \in Dbs, EndExec(d)
         PROVE  Counted'
    <2>1. UNCHANGED <<refs, stmt, owner, handle, dbptr>>
      BY <1>6 DEF EndExec, wrapVars, stmtVars, userVars
    <2> QED
      BY <2>1, CountKept
  <1>7. ASSUME NEW d \in Dbs, NEW x \in Slots, Create(d, x)
         PROVE  Counted'
    <2>1. UNCHANGED <<refs, stmt, owner, handle, dbptr>>
      BY <1>7 DEF Create, Usable, wrapVars, stmtVars
    <2> QED
      BY <2>1, CountKept
  <1>8. ASSUME NEW d \in Dbs, NEW k \in Kinds, NEW n \in Names, Delete(d, k, n)
         PROVE  Counted'
    <2>1. UNCHANGED <<refs, stmt, owner, handle, dbptr>>
      BY <1>8 DEF Delete, Usable, wrapVars, stmtVars
    <2> QED
      BY <2>1, CountKept
  <1>9. ASSUME NEW s \in Stmts, NEW d \in Dbs, PrepareIt(s, d),
                dbptr[d], wrap[d] = "live", handle[d] # "none"
         PROVE  Counted'
    <2> SUFFICES ASSUME NEW e \in Dbs
                 PROVE  refs'[e] = Cardinality(Pointing(e)') + HandleRef(e)'
      BY DEF Counted
    <2>1. HandleRef(e)' = HandleRef(e)
      BY <1>9 DEF PrepareIt, HandleRef
    <2>2. CASE e = d
      <3>1. refs'[d] = refs[d] + 1
        BY <1>9 DEF Inv, TypeOK, PrepareIt
      <3>2. Pointing(d)' = Pointing(d) \cup {s} /\ s \notin Pointing(d)
        BY <1>9 DEF Inv, TypeOK, PrepareIt, Pointing, Alive
      <3>3. Cardinality(Pointing(d) \cup {s}) = Cardinality(Pointing(d)) + 1
        BY <3>2, PointingFinite, FS_AddElement
      <3> QED
        BY <2>1, <2>2, <3>1, <3>2, <3>3, PointingFinite
        DEF Inv, Counted, HandleRef
    <2>3. CASE e # d
      <3>1. refs'[e] = refs[e]
        BY <1>9, <2>3 DEF Inv, TypeOK, PrepareIt
      <3>2. Pointing(e)' = Pointing(e)
        BY <1>9, <2>3 DEF Inv, TypeOK, PrepareIt, Pointing, Alive
      <3> QED
        BY <2>1, <3>1, <3>2 DEF Inv, Counted
    <2> QED
      BY <2>2, <2>3
  <1>10. ASSUME NEW s \in Stmts, StmtFinalize(s)
         PROVE  Counted'
    <2>1. UNCHANGED <<refs, stmt, owner, handle, dbptr>>
      BY <1>10 DEF StmtFinalize, Quiet, wrapVars, userVars
    <2> QED
      BY <2>1, CountKept
  <1>11. ASSUME NEW s \in Stmts, StmtReset(s)
         PROVE  Counted'
    <2>1. UNCHANGED <<refs, stmt, owner, handle, dbptr>>
      BY <1>11 DEF StmtReset, Quiet, wrapVars, userVars
    <2> QED
      BY <2>1, CountKept
  <1>12. ASSUME NEW s \in Stmts, Recompile(s)
         PROVE  Counted'
    <2>1. UNCHANGED <<refs, stmt, owner, handle, dbptr>>
      BY <1>12 DEF Recompile, Quiet, wrapVars, userVars
    <2> QED
      BY <2>1, CountKept
  <1>13. ASSUME NEW s \in Stmts, BeginStep(s)
         PROVE  Counted'
    <2>1. UNCHANGED <<refs, stmt, owner, handle, dbptr>>
      BY <1>13 DEF BeginStep, Quiet, wrapVars, userVars
    <2> QED
      BY <2>1, CountKept
  <1>14. ASSUME NEW s \in Stmts, EndStep(s)
         PROVE  Counted'
    <2>1. UNCHANGED <<refs, stmt, owner, handle, dbptr>>
      BY <1>14 DEF EndStep, wrapVars, userVars
    <2> QED
      BY <2>1, CountKept
  <1>15. ASSUME NEW s \in Stmts, DropStmt(s)
         PROVE  Counted'
    <2> SUFFICES ASSUME NEW e \in Dbs
                 PROVE  refs'[e] = Cardinality(Pointing(e)') + HandleRef(e)'
      BY DEF Counted
    <2>1. Pointing(e)' = Pointing(e)
      BY <1>15, PointingKept DEF Inv, TypeOK, DropStmt, Alive
    <2>2. refs'[e] = refs[e] /\ HandleRef(e)' = HandleRef(e)
      BY <1>15 DEF DropStmt, wrapVars, HandleRef
    <2> QED
      BY <2>1, <2>2 DEF Inv, Counted
  <1>16. ASSUME NEW s \in Stmts, GcStmt(s)
         PROVE  Counted'
    <2> SUFFICES ASSUME NEW e \in Dbs
                 PROVE  refs'[e] = Cardinality(Pointing(e)') + HandleRef(e)'
      BY DEF Counted
    <2>1. HandleRef(e)' = HandleRef(e) /\ owner[s] \in Dbs
      BY <1>16, StatementCounted DEF GcStmt, HandleRef, Alive
    <2>2. CASE e = owner[s]
      <3>1. refs'[e] = refs[e] - 1
        BY <1>16, <2>1, <2>2 DEF Inv, TypeOK, GcStmt, RefDown
      <3>2. Pointing(e)' = Pointing(e) \ {s} /\ s \in Pointing(e)
        BY <1>16, <2>2 DEF Inv, TypeOK, GcStmt, Pointing, Alive
      <3>3. Cardinality(Pointing(e) \ {s}) = Cardinality(Pointing(e)) - 1
        BY <3>2, PointingFinite, FS_RemoveElement
      <3> QED
        BY <2>1, <3>1, <3>2, <3>3, PointingFinite DEF Inv, Counted, HandleRef
    <2>3. CASE e # owner[s]
      <3>1. refs'[e] = refs[e]
        BY <1>16, <2>1, <2>3 DEF Inv, TypeOK, GcStmt, RefDown
      <3>2. Pointing(e)' = Pointing(e)
        BY <1>16, <2>3 DEF Inv, TypeOK, GcStmt, Pointing, Alive
      <3> QED
        BY <2>1, <3>1, <3>2 DEF Inv, Counted
    <2> QED
      BY <2>2, <2>3
  <1>17. CASE UNCHANGED vars
    BY <1>17
    DEF Inv, Counted, Pointing, HandleRef, vars, wrapVars, stmtVars, userVars
  <1> QED
    BY <1>1, <1>2, <1>3, <1>4, <1>5, <1>6, <1>7, <1>8, <1>9, <1>10, <1>11,
       <1>12, <1>13, <1>14, <1>15, <1>16, <1>17, PrepareContext
    DEF Next

\* A step frees the db_wrap with its last reference, and not before.
LEMMA WrappedStep ==
    ASSUME Inv, [Next]_vars
    PROVE  Wrapped'
  <1>1. ASSUME NEW d \in Dbs, Open(d)
         PROVE  Wrapped'
    BY <1>1 DEF Inv, TypeOK, Wrapped, Open, stmtVars, userVars
  <1>2. ASSUME NEW d \in Dbs, Close(d)
         PROVE  Wrapped'
    BY <1>2 DEF Inv, TypeOK, Wrapped, Close, Usable, stmtVars, userVars
  <1>3. ASSUME NEW d \in Dbs, DropDb(d)
         PROVE  Wrapped'
    BY <1>3 DEF Inv, TypeOK, Wrapped, DropDb, wrapVars, stmtVars, userVars
  <1>4. ASSUME NEW d \in Dbs, GcDb(d)
         PROVE  Wrapped'
    <2>1. refs[d] >= 1 /\ wrap[d] = "live"
      BY <1>4, HandleCounted DEF GcDb, Alive
    <2> QED
      BY <1>4, <2>1 DEF Inv, TypeOK, Wrapped, GcDb, RefDown
  <1>5. ASSUME NEW d \in Dbs, BeginExec(d)
         PROVE  Wrapped'
    BY <1>5
    DEF Inv, TypeOK, Wrapped, BeginExec, Usable, wrapVars, stmtVars, userVars
  <1>6. ASSUME NEW d \in Dbs, EndExec(d)
         PROVE  Wrapped'
    BY <1>6 DEF Inv, TypeOK, Wrapped, EndExec, wrapVars, stmtVars, userVars
  <1>7. ASSUME NEW d \in Dbs, NEW x \in Slots, Create(d, x)
         PROVE  Wrapped'
    BY <1>7 DEF Inv, TypeOK, Wrapped, Create, Usable, wrapVars, stmtVars
  <1>8. ASSUME NEW d \in Dbs, NEW k \in Kinds, NEW n \in Names, Delete(d, k, n)
         PROVE  Wrapped'
    BY <1>8 DEF Inv, TypeOK, Wrapped, Delete, Usable, wrapVars, stmtVars
  <1>9. ASSUME NEW s \in Stmts, NEW d \in Dbs, PrepareIt(s, d),
                dbptr[d], wrap[d] = "live", handle[d] # "none"
         PROVE  Wrapped'
    BY <1>9 DEF Inv, TypeOK, Wrapped, PrepareIt, userVars
  <1>10. ASSUME NEW s \in Stmts, StmtFinalize(s)
         PROVE  Wrapped'
    BY <1>10 DEF Inv, TypeOK, Wrapped, StmtFinalize, Quiet, wrapVars, userVars
  <1>11. ASSUME NEW s \in Stmts, StmtReset(s)
         PROVE  Wrapped'
    BY <1>11 DEF Inv, TypeOK, Wrapped, StmtReset, Quiet, wrapVars, userVars
  <1>12. ASSUME NEW s \in Stmts, Recompile(s)
         PROVE  Wrapped'
    BY <1>12 DEF Inv, TypeOK, Wrapped, Recompile, Quiet, wrapVars, userVars
  <1>13. ASSUME NEW s \in Stmts, BeginStep(s)
         PROVE  Wrapped'
    BY <1>13 DEF Inv, TypeOK, Wrapped, BeginStep, Quiet, wrapVars, userVars
  <1>14. ASSUME NEW s \in Stmts, EndStep(s)
         PROVE  Wrapped'
    BY <1>14 DEF Inv, TypeOK, Wrapped, EndStep, wrapVars, userVars
  <1>15. ASSUME NEW s \in Stmts, DropStmt(s)
         PROVE  Wrapped'
    BY <1>15 DEF Inv, TypeOK, Wrapped, DropStmt, wrapVars, userVars
  <1>16. ASSUME NEW s \in Stmts, GcStmt(s)
         PROVE  Wrapped'
    <2>1. owner[s] \in Dbs /\ refs[owner[s]] >= 1 /\ wrap[owner[s]] = "live"
      BY <1>16, StatementCounted DEF GcStmt, Alive
    <2> QED
      BY <1>16, <2>1 DEF Inv, TypeOK, Wrapped, GcStmt, RefDown
  <1>17. CASE UNCHANGED vars
    BY <1>17 DEF Inv, TypeOK, Wrapped, vars, wrapVars, stmtVars, userVars
  <1> QED
    BY <1>1, <1>2, <1>3, <1>4, <1>5, <1>6, <1>7, <1>8, <1>9, <1>10, <1>11,
       <1>12, <1>13, <1>14, <1>15, <1>16, <1>17, PrepareContext
    DEF Next


\* Connected, database by database.
ConnectedAt(d) ==
    /\ wrap[d] = "live" /\ dbptr[d] => conn[d] = "open"
    /\ handle[d] # "none" /\ ~dbptr[d] => conn[d] \in {"zombie", "closed"}
    /\ conn[d] = "zombie" => Vms(d) # {}
    /\ wrap[d] = "freed" => conn[d] = "closed"

\* Finalising a compiled statement closes its connection only if that was a
\* zombie which nothing else is left to run on.
LEMMA FinalizeKeeps ==
    ASSUME Inv, NEW s \in Stmts, vm[s] # "null", s \notin stepping,
           conn' = Finalized(s), vm' = [vm EXCEPT ![s] = "null"],
           UNCHANGED <<owner, stepping, wrap, dbptr, handle>>
    PROVE  Connected'
  <1> DEFINE d == owner[s]
  <1>0. d \in Dbs /\ conn[d] \in {"open", "zombie"} /\ s \in Vms(d)
    BY DEF Inv, Owned, Connected, Alive, Vms
  <1>1. \A e \in Dbs : e # d => conn'[e] = conn[e] /\ Vms(e)' = Vms(e)
    BY <1>0 DEF Inv, TypeOK, Finalized, Vms
  <1>2. Vms(d)' = Vms(d) \ {s}
    BY DEF Inv, TypeOK, Vms
  <1>3. conn'[d] = IF conn[d] = "zombie" /\ Vms(d) = {s} THEN "closed" ELSE conn[d]
    BY <1>0 DEF Inv, TypeOK, Finalized
  <1>4. ASSUME NEW e \in Dbs PROVE ConnectedAt(e)'
    <2>1. CASE e # d
      BY <1>1, <2>1 DEF Inv, Connected, ConnectedAt
    <2>2. CASE e = d
      BY <1>0, <1>2, <1>3, <2>2 DEF Inv, Connected, ConnectedAt
    <2> QED
      BY <2>1, <2>2
  <1>5. ASSUME NEW t \in Stmts, vm'[t] # "null"
         PROVE  conn'[owner'[t]] \in {"open", "zombie"}
    <2>1. t # s /\ vm[t] # "null"
      BY <1>5 DEF Inv, TypeOK
    <2>2. owner[t] \in Dbs /\ conn[owner[t]] \in {"open", "zombie"}
      BY <2>1 DEF Inv, Owned, Connected, Alive
    <2>3. owner[t] = d => t \in Vms(d)
      BY <2>1 DEF Vms
    <2> QED
      BY <1>1, <1>3, <2>1, <2>2, <2>3
  <1>6. \A t \in stepping' : vm'[t] # "null"
    BY DEF Inv, TypeOK, Connected
  <1> QED
    BY <1>4, <1>5, <1>6 DEF Connected, ConnectedAt

\* The last reference to a db_wrap finds a connection that is open, and on
\* which at most the statement that gives the reference up was compiled.
LEMMA LastIsOpen ==
    ASSUME Inv, NEW d \in Dbs, refs[d] = 1, dbptr[d] \/ Pointing(d) # {}
    PROVE  /\ dbptr[d] /\ wrap[d] = "live" /\ conn[d] = "open"
           /\ HandleRef(d) = 1 => Vms(d) = {}
           /\ \A s \in Pointing(d) : Vms(d) \subseteq {s}
  <1>1. wrap[d] = "live" /\ handle[d] # "none"
    BY DEF Inv, Wrapped
  <1>2. dbptr[d]
    <2>1. SUFFICES ASSUME ~dbptr[d] PROVE FALSE
      OBVIOUS
    <2>2. HandleRef(d) = 1
      BY <1>1, <2>1 DEF Inv, TypeOK, HandleRef, Life, Alive
    <2> QED
      BY <2>1, <2>2, LastReference
  <1>3. Vms(d) \subseteq Pointing(d)
    BY DEF Inv, Owned, Vms, Pointing
  <1> QED
    BY <1>1, <1>2, <1>3, LastReference DEF Inv, Connected

\* A step keeps the stubs and SQLite in agreement about the connection.
LEMMA ConnectedStep ==
    ASSUME Inv, [Next]_vars
    PROVE  Connected'
  <1>1. ASSUME NEW d \in Dbs, Open(d)
         PROVE  Connected'
    BY <1>1
    DEF Inv, TypeOK, Owned, Wrapped, Connected, Vms, Alive, Open, stmtVars,
        userVars
  <1>2. ASSUME NEW d \in Dbs, Close(d)
         PROVE  Connected'
    <2>1. wrap[d] = "live" /\ conn[d] = "open"
      BY <1>2, HandleCounted DEF Inv, Connected, Close, Usable, Alive
    <2>2. conn' = [conn EXCEPT ![d] = IF Vms(d) = {} THEN "closed" ELSE "zombie"]
      BY <1>2 DEF Close, CloseV2
    <2>3. \A e \in Dbs : Vms(e)' = Vms(e)
      BY <1>2 DEF Close, stmtVars, Vms
    <2>4. ASSUME NEW e \in Dbs PROVE ConnectedAt(e)'
      <3>1. CASE e = d
        BY <1>2, <2>1, <2>2, <2>3, <3>1 DEF Inv, TypeOK, Close, ConnectedAt
      <3>2. CASE e # d
        BY <1>2, <2>2, <2>3, <3>2 DEF Inv, TypeOK, Connected, Close, ConnectedAt
      <3> QED
        BY <3>1, <3>2
    <2>5. ASSUME NEW s \in Stmts, vm'[s] # "null"
           PROVE  conn'[owner'[s]] \in {"open", "zombie"}
      <3>1. vm[s] # "null" /\ owner'[s] = owner[s]
        BY <1>2, <2>5 DEF Close, stmtVars
      <3>2. owner[s] \in Dbs /\ conn[owner[s]] \in {"open", "zombie"}
        BY <3>1 DEF Inv, Owned, Connected, Alive
      <3>3. owner[s] = d => Vms(d) # {}
        BY <3>1 DEF Vms
      <3> QED
        BY <2>2, <3>1, <3>2, <3>3 DEF Inv, TypeOK
    <2>6. \A s \in stepping' : vm'[s] # "null"
      BY <1>2 DEF Close, stmtVars, Inv, Connected
    <2> QED
      BY <2>4, <2>5, <2>6 DEF Connected, ConnectedAt
  <1>3. ASSUME NEW d \in Dbs, DropDb(d)
         PROVE  Connected'
    BY <1>3
    DEF Inv, TypeOK, Owned, Wrapped, Connected, Vms, Alive, DropDb, wrapVars,
        stmtVars, userVars
  <1>4. ASSUME NEW d \in Dbs, GcDb(d)
         PROVE  Connected'
    <2>1. \A e \in Dbs : Vms(e)' = Vms(e)
      BY <1>4 DEF GcDb, stmtVars, Vms
    <2>2. CASE dbptr[d] /\ refs[d] = 1
      <3>1. Vms(d) = {} /\ wrap[d] = "live"
        BY <1>4, <2>2, LastIsOpen DEF GcDb, HandleRef, Alive
      <3>2. /\ conn' = [conn EXCEPT ![d] = "closed"]
            /\ wrap' = [wrap EXCEPT ![d] = "freed"]
        BY <1>4, <2>2, <3>1 DEF GcDb, RefDown, CloseV2
      <3>3. ASSUME NEW s \in Stmts, vm'[s] # "null"
             PROVE  conn'[owner'[s]] \in {"open", "zombie"}
        <4>1. vm[s] # "null" /\ owner'[s] = owner[s]
          BY <1>4, <3>3 DEF GcDb, stmtVars
        <4>2. owner[s] # d
          BY <3>1, <4>1 DEF Vms
        <4> QED
          BY <3>2, <4>1, <4>2 DEF Inv, TypeOK, Owned, Connected, Alive
      <3>4. ASSUME NEW e \in Dbs PROVE ConnectedAt(e)'
        BY <1>4, <2>1, <2>2, <3>2 DEF Inv, TypeOK, Connected, GcDb, ConnectedAt
      <3>5. \A s \in stepping' : vm'[s] # "null"
        BY <1>4 DEF GcDb, stmtVars, Inv, Connected
      <3> QED
        BY <3>3, <3>4, <3>5 DEF Connected, ConnectedAt
    <2>3. CASE ~(dbptr[d] /\ refs[d] = 1)
      BY <1>4, <2>1, <2>3
      DEF Inv, TypeOK, Connected, GcDb, RefDown, stmtVars
    <2> QED
      BY <2>2, <2>3
  <1>5. ASSUME NEW d \in Dbs, BeginExec(d)
         PROVE  Connected'
    BY <1>5
    DEF Inv, TypeOK, Owned, Wrapped, Connected, Vms, Alive, BeginExec, Usable,
        wrapVars, stmtVars, userVars
  <1>6. ASSUME NEW d \in Dbs, EndExec(d)
         PROVE  Connected'
    BY <1>6
    DEF Inv, TypeOK, Owned, Wrapped, Connected, Vms, Alive, EndExec, wrapVars,
        stmtVars, userVars
  <1>7. ASSUME NEW d \in Dbs, NEW x \in Slots, Create(d, x)
         PROVE  Connected'
    BY <1>7
    DEF Inv, TypeOK, Owned, Wrapped, Connected, Vms, Alive, Create, Usable,
        wrapVars, stmtVars
  <1>8. ASSUME NEW d \in Dbs, NEW k \in Kinds, NEW n \in Names, Delete(d, k, n)
         PROVE  Connected'
    BY <1>8
    DEF Inv, TypeOK, Owned, Wrapped, Connected, Vms, Alive, Delete, Usable,
        wrapVars, stmtVars
  <1>9. ASSUME NEW s \in Stmts, NEW d \in Dbs, PrepareIt(s, d),
                dbptr[d], wrap[d] = "live", handle[d] # "none"
         PROVE  Connected'
    BY <1>9
    DEF Inv, TypeOK, Owned, Wrapped, Connected, Vms, Alive, PrepareIt,
        userVars
  <1>10. ASSUME NEW s \in Stmts, StmtFinalize(s)
         PROVE  Connected'
    BY <1>10, FinalizeKeeps DEF StmtFinalize, Quiet, wrapVars
  <1>11. ASSUME NEW s \in Stmts, StmtReset(s)
         PROVE  Connected'
    BY <1>11
    DEF Inv, TypeOK, Owned, Wrapped, Connected, Vms, Alive, StmtReset, Quiet,
        wrapVars, userVars
  <1>12. ASSUME NEW s \in Stmts, Recompile(s)
         PROVE  Connected'
    <2>1. CASE vm[s] # "null" /\ vm' = [vm EXCEPT ![s] = "null"]
      BY <1>12, <2>1, FinalizeKeeps DEF Recompile, Quiet, wrapVars
    <2>2. CASE vm[s] = "null" /\ vm' = [vm EXCEPT ![s] = "null"]
      <3>1. vm' = vm /\ conn' = conn
        BY <1>12, <2>2 DEF Recompile, Inv, TypeOK
      <3> QED
        BY <1>12, <3>1 DEF Inv, Connected, Recompile, Vms, wrapVars
    <2>3. CASE dbptr[owner[s]] /\ vm' = [vm EXCEPT ![s] = "ready"]
      <3>1. owner[s] \in Dbs /\ conn[owner[s]] = "open"
        BY <1>12, <2>3, StatementCounted
        DEF Recompile, Quiet, Inv, Connected, Alive
      <3>2. conn' = conn
        BY <1>12, <3>1 DEF Recompile, Finalized
      <3>3. \A e \in Dbs : Vms(e) \subseteq Vms(e)'
        BY <1>12, <2>3 DEF Recompile, Vms, Inv, TypeOK
      <3> QED
        BY <1>12, <2>3, <3>1, <3>2, <3>3
        DEF Inv, TypeOK, Connected, Recompile, wrapVars
    <2> QED
      BY <1>12, <2>1, <2>2, <2>3 DEF Recompile
  <1>13. ASSUME NEW s \in Stmts, BeginStep(s)
         PROVE  Connected'
    BY <1>13
    DEF Inv, TypeOK, Owned, Wrapped, Connected, Vms, Alive, BeginStep, Quiet,
        wrapVars, userVars
  <1>14. ASSUME NEW s \in Stmts, EndStep(s)
         PROVE  Connected'
    BY <1>14
    DEF Inv, TypeOK, Owned, Wrapped, Connected, Vms, Alive, EndStep, wrapVars,
        userVars
  <1>15. ASSUME NEW s \in Stmts, DropStmt(s)
         PROVE  Connected'
    BY <1>15
    DEF Inv, TypeOK, Owned, Wrapped, Connected, Vms, Alive, DropStmt,
        wrapVars, userVars
  <1>16. ASSUME NEW s \in Stmts, GcStmt(s)
         PROVE  Connected'
    <2> DEFINE d == owner[s]
    <2>1. d \in Dbs /\ s \in Pointing(d) /\ wrap[d] = "live"
      BY <1>16, StatementCounted DEF GcStmt, Alive, Pointing
    <2>2. CASE refs[d] = 1
      <3>1. dbptr[d] /\ conn[d] = "open" /\ Vms(d) \subseteq {s}
        BY <2>1, <2>2, LastIsOpen
      <3>2. /\ conn' = [conn EXCEPT ![d] = "closed"]
            /\ wrap' = [wrap EXCEPT ![d] = "freed"]
            /\ vm' = [vm EXCEPT ![s] = "null"]
        BY <1>16, <2>2, <3>1 DEF GcStmt, RefDown, CloseV2, Finalized
      <3>3. ASSUME NEW t \in Stmts, vm'[t] # "null"
             PROVE  conn'[owner'[t]] \in {"open", "zombie"}
        <4>1. t # s /\ vm[t] # "null" /\ owner'[t] = owner[t]
          BY <1>16, <3>2, <3>3 DEF GcStmt, Inv, TypeOK
        <4>2. owner[t] # d
          BY <3>1, <4>1 DEF Vms
        <4> QED
          BY <3>2, <4>1, <4>2 DEF Inv, TypeOK, Owned, Connected, Alive
      <3>4. \A e \in Dbs : e # d => Vms(e)' = Vms(e)
        BY <1>16, <3>2 DEF GcStmt, Vms, Inv, TypeOK
      <3>5. ASSUME NEW e \in Dbs PROVE ConnectedAt(e)'
        <4>1. CASE e = d
          BY <1>16, <2>1, <3>1, <3>2, <4>1 DEF Inv, TypeOK, GcStmt, ConnectedAt
        <4>2. CASE e # d
          BY <1>16, <3>2, <3>4, <4>2
          DEF Inv, TypeOK, Connected, GcStmt, ConnectedAt
        <4> QED
          BY <4>1, <4>2
      <3>6. \A t \in stepping' : vm'[t] # "null"
        BY <1>16, <3>2 DEF GcStmt, Inv, TypeOK, Connected
      <3> QED
        BY <3>3, <3>5, <3>6 DEF Connected, ConnectedAt
    <2>3. CASE refs[d] # 1 /\ vm[s] # "null"
      BY <1>16, <2>3, FinalizeKeeps DEF GcStmt, RefDown
    <2>4. CASE refs[d] # 1 /\ vm[s] = "null"
      <3>1. vm' = vm /\ conn' = conn /\ wrap' = wrap
        BY <1>16, <2>4 DEF GcStmt, RefDown, Inv, TypeOK
      <3> QED
        BY <1>16, <3>1 DEF Inv, Connected, GcStmt, Vms
    <2> QED
      BY <2>2, <2>3, <2>4
  <1>17. CASE UNCHANGED vars
    BY <1>17
    DEF Inv, TypeOK, Owned, Wrapped, Connected, Vms, Alive, vars, wrapVars,
        stmtVars, userVars
  <1> QED
    BY <1>1, <1>2, <1>3, <1>4, <1>5, <1>6, <1>7, <1>8, <1>9, <1>10, <1>11,
       <1>12, <1>13, <1>14, <1>15, <1>16, <1>17, PrepareContext
    DEF Next


\* Registered, database by database.
RegisteredAt(d) ==
    /\ linked[d] \subseteq 1 .. made
    /\ \A x \in Slots :
          /\ reg[d][x] \in 0 .. made
          /\ reg[d][x] # NoLink => label[reg[d][x]] = x
          /\ handle[d] = "none" => reg[d][x] = NoLink
    /\ conn[d] \in {"open", "zombie"} =>
          \A x \in Slots :
              x[3] = 0 /\ reg[d][x] # NoLink => reg[d][x] \in linked[d]

\* No slot becomes stale in a step that registers, lists and opens nothing.
LEMMA RegisteredKept ==
    ASSUME Inv, NEW d \in Dbs, UNCHANGED <<reg, label, made>>,
           linked'[d] = linked[d],
           handle'[d] = "none" => handle[d] = "none",
           conn'[d] \in {"open", "zombie"} => conn[d] \in {"open", "zombie"}
    PROVE  RegisteredAt(d)'
  BY DEF Inv, Registered, RegisteredAt

\* Nor when the connection is closed and the list emptied.
LEMMA RegisteredFreed ==
    ASSUME Inv, NEW d \in Dbs, UNCHANGED <<reg, label, made>>,
           linked'[d] = {}, conn'[d] = "closed",
           handle'[d] = "none" => handle[d] = "none"
    PROVE  RegisteredAt(d)'
  BY DEF Inv, Registered, RegisteredAt

\* A connection that finalising a statement leaves open was open before.
LEMMA FinalizedOpensNone ==
    ASSUME Inv, NEW s \in Stmts, owner[s] \in Dbs, NEW d \in Dbs
    PROVE  Finalized(s)[d] \in {"open", "zombie"} => conn[d] \in {"open", "zombie"}
  BY DEF Inv, TypeOK, Finalized

\* A slot is its three parts.
LEMMA SlotParts ==
    ASSUME NEW x \in Slots, NEW y \in Slots, x[1] = y[1], x[2] = y[2], x[3] = y[3]
    PROVE  x = y
  BY DEF Slots

\* A step leaves no slot of arity 0 with a cell that is not listed.
LEMMA RegisteredStep ==
    ASSUME Inv, [Next]_vars
    PROVE  Registered'
  <1>1. ASSUME NEW d \in Dbs, Open(d)
         PROVE  Registered'
    BY <1>1 DEF Inv, TypeOK, Registered, Open, userVars
  <1>2. ASSUME NEW d \in Dbs, Close(d)
         PROVE  Registered'
    <2>1. conn[d] = "open"
      BY <1>2, HandleCounted DEF Inv, Connected, Close, Usable, Alive
    <2>2. ASSUME NEW e \in Dbs PROVE RegisteredAt(e)'
      BY <1>2, <2>1, RegisteredKept DEF Inv, TypeOK, Close, CloseV2, userVars
    <2> QED
      BY <2>2 DEF Registered, RegisteredAt
  <1>3. ASSUME NEW d \in Dbs, DropDb(d)
         PROVE  Registered'
    BY <1>3 DEF Inv, TypeOK, Registered, DropDb, wrapVars, stmtVars, userVars
  <1>4. ASSUME NEW d \in Dbs, GcDb(d)
         PROVE  Registered'
    <2>1. ASSUME NEW e \in Dbs PROVE RegisteredAt(e)'
      <3>1. CASE e = d /\ dbptr[d] /\ refs[d] = 1
        <4>1. Vms(d) = {}
          BY <1>4, <3>1, LastIsOpen DEF GcDb, HandleRef, Alive
        <4> QED
          BY <1>4, <3>1, <4>1, RegisteredFreed
          DEF Inv, TypeOK, GcDb, RefDown, CloseV2
      <3>2. CASE ~(e = d /\ dbptr[d] /\ refs[d] = 1)
        BY <1>4, <3>2, RegisteredKept DEF Inv, TypeOK, GcDb, RefDown, CloseV2
      <3> QED
        BY <3>1, <3>2
    <2> QED
      BY <2>1 DEF Registered, RegisteredAt
  <1>5. ASSUME NEW d \in Dbs, BeginExec(d)
         PROVE  Registered'
    BY <1>5
    DEF Inv, TypeOK, Registered, BeginExec, Usable, wrapVars, stmtVars,
        userVars
  <1>6. ASSUME NEW d \in Dbs, EndExec(d)
         PROVE  Registered'
    BY <1>6 DEF Inv, TypeOK, Registered, EndExec, wrapVars, stmtVars, userVars
  <1>7. ASSUME NEW d \in Dbs, NEW x \in Slots, Create(d, x)
         PROVE  Registered'
    <2> DEFINE l == made + 1
    <2>1. l \in Links /\ l \notin 0 .. made /\ 0 .. made \subseteq 0 .. l /\ made \in Nat
      BY <1>7, StubsAssumption DEF Inv, TypeOK, Create, Links
    <2>2. made' = l /\ label'[l] = x /\ \A m \in 1 .. made : label'[m] = label[m]
      BY <1>7, <2>1 DEF Inv, TypeOK, Create
    <2>3. ASSUME NEW e \in Dbs PROVE RegisteredAt(e)'
      <3>0. linked[e] \subseteq 1 .. l /\ handle'[e] = handle[e] /\ conn'[e] = conn[e]
        BY <1>7, <2>1 DEF Inv, Registered, Create
      <3>1. CASE e = d /\ linked' # linked
        <4>1. linked'[d] = linked[d] \cup {l} /\ handle[d] # "none"
          BY <1>7, <3>1 DEF Inv, TypeOK, Create, Usable
        <4>2. \A y \in Slots : reg'[d][y] = IF y = x THEN l ELSE reg[d][y]
          BY <1>7, <3>1 DEF Inv, TypeOK, Create
        <4>3. ASSUME NEW y \in Slots
               PROVE  /\ reg'[d][y] \in 0 .. l
                      /\ reg'[d][y] # NoLink => label'[reg'[d][y]] = y
                      /\ conn[d] \in {"open", "zombie"} /\ y[3] = 0 /\ reg'[d][y] # NoLink
                            => reg'[d][y] \in linked'[d]
          <5>1. CASE y = x
            BY <2>1, <2>2, <4>1, <4>2, <5>1
          <5>2. CASE y # x
            <6>1. reg'[d][y] = reg[d][y] /\ reg[d][y] \in 0 .. made
              BY <4>2, <5>2 DEF Inv, Registered
            <6>2. reg[d][y] # NoLink => reg[d][y] \in 1 .. made
              BY <2>1, <6>1 DEF NoLink
            <6> QED
              BY <2>1, <2>2, <4>1, <6>1, <6>2 DEF Inv, Registered
          <5> QED
            BY <5>1, <5>2
        <4>4. linked'[d] \subseteq 1 .. l
          BY <2>1, <3>0, <3>1, <4>1
        <4> QED
          BY <2>2, <3>0, <3>1, <4>1, <4>3, <4>4 DEF RegisteredAt
      <3>2. CASE e # d \/ linked' = linked
        <4>1. linked'[e] = linked[e] /\ reg'[e] = reg[e]
          <5>1. CASE e # d
            BY <1>7, <5>1 DEF Inv, TypeOK, Create
          <5>2. CASE linked' = linked
            <6>1. l \notin linked[d]
              BY <2>1 DEF Inv, Registered
            <6>2. linked' # [linked EXCEPT ![d] = @ \cup {l}]
              BY <5>2, <6>1 DEF Inv, TypeOK
            <6> QED
              BY <1>7, <6>2 DEF Create
          <5> QED
            BY <3>2, <5>1, <5>2
        <4>2. ASSUME NEW y \in Slots, reg[e][y] # NoLink
               PROVE  reg[e][y] \in 1 .. made
          BY <2>1, <4>2 DEF Inv, Registered, NoLink
        <4> QED
          BY <2>1, <2>2, <3>0, <4>1, <4>2 DEF Inv, Registered, RegisteredAt
      <3> QED
        BY <3>1, <3>2
    <2> QED
      BY <2>3 DEF Registered, RegisteredAt
  <1>8. ASSUME NEW d \in Dbs, NEW k \in Kinds, NEW n \in Names, Delete(d, k, n)
         PROVE  Registered'
    <2> DEFINE z == <<k, n, 0>>
    <2>0. z \in Slots
      BY StubsAssumption DEF Kinds, Slots
    <2>1. ASSUME NEW e \in Dbs PROVE RegisteredAt(e)'
      <3>1. CASE e = d
        <4>1. /\ linked'[d] = Unlink(linked[d], k, n)
              /\ \A x \in Slots : reg'[d][x] = IF x = z THEN NoLink ELSE reg[d][x]
              /\ UNCHANGED <<label, made, conn>> /\ handle[d] # "none"
          BY <1>8, <2>0 DEF Inv, TypeOK, Delete, Usable, wrapVars
        <4>2. linked'[d] \subseteq linked[d]
          BY <4>1 DEF Unlink
        <4>3. ASSUME NEW x \in Slots, x[3] = 0, x # z, NEW l \in linked[d], label[l] = x
               PROVE  l \in linked'[d]
          <5>1. x[1] # k \/ x[2] # n
            BY <2>0, <4>3, SlotParts
          <5> QED
            BY <4>1, <4>3, <5>1 DEF Unlink, KindOf, NameOf
        <4>4. ASSUME NEW x \in Slots
               PROVE  /\ reg'[d][x] \in 0 .. made
                      /\ reg'[d][x] # NoLink => label[reg'[d][x]] = x
                      /\ conn[d] \in {"open", "zombie"} /\ x[3] = 0 /\ reg'[d][x] # NoLink
                            => reg'[d][x] \in linked'[d]
          <5>1. CASE x = z
            <6>1. reg'[d][x] = NoLink /\ NoLink \in 0 .. made
              BY <4>1, <5>1 DEF NoLink, Inv, TypeOK
            <6> QED
              BY <6>1
          <5>2. CASE x # z
            <6>1. reg'[d][x] = reg[d][x]
              BY <4>1, <5>2
            <6> QED
              BY <4>3, <5>2, <6>1 DEF Inv, Registered
          <5> QED
            BY <5>1, <5>2
        <4>5. handle'[d] = handle[d]
          BY <1>8 DEF Delete
        <4> QED
          BY <3>1, <4>1, <4>2, <4>4, <4>5 DEF Inv, Registered, RegisteredAt
      <3>2. CASE e # d
        <4>1. /\ linked'[e] = linked[e] /\ reg'[e] = reg[e]
              /\ UNCHANGED <<label, made, conn, handle>>
          BY <1>8, <3>2 DEF Inv, TypeOK, Delete
        <4> QED
          BY <4>1 DEF Inv, Registered, RegisteredAt
      <3> QED
        BY <3>1, <3>2
    <2> QED
      BY <2>1 DEF Registered, RegisteredAt
  <1>9. ASSUME NEW s \in Stmts, NEW d \in Dbs, PrepareIt(s, d),
                dbptr[d], wrap[d] = "live", handle[d] # "none"
         PROVE  Registered'
    BY <1>9 DEF Inv, TypeOK, Registered, PrepareIt, userVars
  <1>10. ASSUME NEW s \in Stmts, StmtFinalize(s)
         PROVE  Registered'
    <2>1. owner[s] \in Dbs
      BY <1>10, StatementCounted DEF StmtFinalize, Quiet, Alive
    <2>2. ASSUME NEW e \in Dbs PROVE RegisteredAt(e)'
      BY <1>10, <2>1, FinalizedOpensNone, RegisteredKept
      DEF StmtFinalize, userVars
    <2> QED
      BY <2>2 DEF Registered, RegisteredAt
  <1>11. ASSUME NEW s \in Stmts, StmtReset(s)
         PROVE  Registered'
    BY <1>11 DEF Inv, TypeOK, Registered, StmtReset, Quiet, wrapVars, userVars
  <1>12. ASSUME NEW s \in Stmts, Recompile(s)
         PROVE  Registered'
    <2>1. owner[s] \in Dbs
      BY <1>12, StatementCounted DEF Recompile, Quiet, Alive
    <2>2. ASSUME NEW e \in Dbs PROVE RegisteredAt(e)'
      BY <1>12, <2>1, FinalizedOpensNone, RegisteredKept DEF Recompile, userVars
    <2> QED
      BY <2>2 DEF Registered, RegisteredAt
  <1>13. ASSUME NEW s \in Stmts, BeginStep(s)
         PROVE  Registered'
    BY <1>13 DEF Inv, TypeOK, Registered, BeginStep, Quiet, wrapVars, userVars
  <1>14. ASSUME NEW s \in Stmts, EndStep(s)
         PROVE  Registered'
    BY <1>14 DEF Inv, TypeOK, Registered, EndStep, wrapVars, userVars
  <1>15. ASSUME NEW s \in Stmts, DropStmt(s)
         PROVE  Registered'
    BY <1>15 DEF Inv, TypeOK, Registered, DropStmt, wrapVars, userVars
  <1>16. ASSUME NEW s \in Stmts, GcStmt(s)
         PROVE  Registered'
    <2> DEFINE d == owner[s]
    <2>0. d \in Dbs /\ s \in Pointing(d)
      BY <1>16, StatementCounted DEF GcStmt, Alive, Pointing
    <2>1. ASSUME NEW e \in Dbs PROVE RegisteredAt(e)'
      <3>1. CASE e = d /\ refs[d] = 1
        <4>1. dbptr[d] /\ conn[d] = "open" /\ Vms(d) \subseteq {s}
          BY <2>0, <3>1, LastIsOpen
        <4>2. conn' = [conn EXCEPT ![d] = "closed"] /\ linked' = [linked EXCEPT ![d] = {}]
          BY <1>16, <3>1, <4>1 DEF GcStmt, RefDown, CloseV2, Finalized
        <4> QED
          BY <1>16, <2>0, <3>1, <4>2, RegisteredFreed DEF Inv, TypeOK, GcStmt
      <3>2. CASE e # d \/ refs[d] # 1
        <4>1. linked'[e] = linked[e]
          BY <1>16, <2>0, <3>2 DEF Inv, TypeOK, GcStmt, RefDown
        <4>2. conn'[e] \in {conn[e], Finalized(s)[e]}
          <5>1. CASE refs[d] # 1
            BY <1>16, <5>1 DEF GcStmt, RefDown
          <5>2. CASE e # d
            BY <1>16, <2>0, <5>2
            DEF Inv, TypeOK, GcStmt, RefDown, CloseV2, Finalized
          <5> QED
            BY <3>2, <5>1, <5>2
        <4> QED
          BY <1>16, <2>0, <4>1, <4>2, FinalizedOpensNone, RegisteredKept
          DEF GcStmt
      <3> QED
        BY <3>1, <3>2
    <2> QED
      BY <2>1 DEF Registered, RegisteredAt
  <1>17. CASE UNCHANGED vars
    BY <1>17 DEF Inv, TypeOK, Registered, vars, wrapVars, stmtVars, userVars
  <1> QED
    BY <1>1, <1>2, <1>3, <1>4, <1>5, <1>6, <1>7, <1>8, <1>9, <1>10, <1>11,
       <1>12, <1>13, <1>14, <1>15, <1>16, <1>17, PrepareContext
    DEF Next


----------------------------------------------------------------------------
(* The theorems.                                                              *)

LEMMA InvInit == Init => Inv
  <1> SUFFICES ASSUME Init PROVE Inv
    OBVIOUS
  <1>1. (CHOOSE x \in Slots : TRUE) \in Slots
    <2>1. PICK n \in Names : TRUE
      BY StubsAssumption
    <2>2. <<"collation", n, 0>> \in Slots
      BY <2>1 DEF Slots
    <2> QED
      BY <2>2
  <1>2. TypeOK
    BY <1>1, StubsAssumption DEF Init, TypeOK, Life, NoLink, Links
  <1>3. Owned /\ Wrapped /\ Connected
    BY DEF Init, Owned, Wrapped, Connected, Vms, Alive
  <1>4. Counted
    <2> SUFFICES ASSUME NEW d \in Dbs
                 PROVE  refs[d] = Cardinality(Pointing(d)) + HandleRef(d)
      BY DEF Counted
    <2>1. Pointing(d) = {} /\ HandleRef(d) = 0 /\ refs[d] = 0
      BY DEF Init, Pointing, HandleRef, Alive
    <2> QED
      BY <2>1, FS_EmptySet
  <1>5. Registered
    BY DEF Init, Registered, NoLink
  <1> QED
    BY <1>2, <1>3, <1>4, <1>5 DEF Inv

LEMMA InvStep == Inv /\ [Next]_vars => Inv'
  BY TypeStep, OwnedStep, CountedStep, WrappedStep, ConnectedStep,
     RegisteredStep
  DEF Inv

LEMMA Invariance == Spec => []Inv
  BY InvInit, InvStep, PTL DEF Spec

\* Every variable keeps its type; ref_count never goes below zero.
THEOREM TypeCorrect == Spec => []TypeOK
  <1>1. Inv => TypeOK
    BY DEF Inv
  <1> QED
    BY <1>1, Invariance, PTL

\* Neither a handle nor a statement is left with a db_wrap that was freed,
\* whatever the order in which the collector finalises them.
THEOREM WrapsAreLive == Spec => []NoDanglingWrap
  <1>1. Inv => NoDanglingWrap
    BY HandleCounted, StatementCounted DEF NoDanglingWrap
  <1> QED
    BY <1>1, Invariance, PTL

\* No compiled statement outlives its connection, and check_db lets no closed
\* connection through.
THEOREM ConnectionsAreLive == Spec => []NoDanglingConnection
  <1>1. Inv => NoDanglingConnection
    BY DEF Inv, Connected, NoDanglingConnection
  <1> QED
    BY <1>1, Invariance, PTL

\* Nothing of a connection is left once handle and statements are collected.
THEOREM ConnectionsAreClosed == Spec => []CollectedIsClosed
  <1>1. ASSUME Inv, NEW d \in Dbs, handle[d] = "collected", Pointing(d) = {}
         PROVE  conn[d] = "closed"
    <2>1. CASE dbptr[d]
      <3>1. refs[d] = 0
        BY <1>1, <2>1, FS_EmptySet DEF Inv, Counted, HandleRef, Alive
      <3> QED
        BY <1>1, <3>1 DEF Inv, TypeOK, Wrapped, Connected
    <2>2. CASE ~dbptr[d]
      <3>1. Vms(d) \subseteq Pointing(d)
        BY <1>1 DEF Vms, Pointing, Inv, Owned
      <3> QED
        BY <1>1, <2>2, <3>1 DEF Inv, Connected
    <2> QED
      BY <2>1, <2>2
  <1>2. Inv => CollectedIsClosed
    BY <1>1 DEF CollectedIsClosed
  <1> QED
    BY <1>2, Invariance, PTL

\* The db_wrap of a database nobody closed is freed with the last of them,
\* whichever that is and however many statements there are.
THEOREM WrapsAreFreed == Spec => []CollectedIsFreed
  <1>1. ASSUME Inv, NEW d \in Dbs, handle[d] = "collected", Pointing(d) = {}, dbptr[d]
         PROVE  wrap[d] = "freed"
    <2>1. refs[d] = 0
      BY <1>1, FS_EmptySet DEF Inv, Counted, HandleRef, Alive
    <2> QED
      BY <1>1, <2>1 DEF Inv, TypeOK, Wrapped
  <1>2. Inv => CollectedIsFreed
    BY <1>1 DEF CollectedIsFreed
  <1> QED
    BY <1>2, Invariance, PTL

\* SQLite never holds a freed cell for a collation or a function of arity 0.
THEOREM NullaryCellsAreAlive == Spec => []NullaryCellsAlive
  <1>1. Inv => NullaryCellsAlive
    BY DEF Inv, Registered, NullaryCellsAlive
  <1> QED
    BY <1>1, Invariance, PTL
=============================================================================
