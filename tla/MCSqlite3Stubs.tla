--------------------------- MODULE MCSqlite3Stubs ---------------------------
(* Instances of Sqlite3Stubs for TLC.                                         *)
EXTENDS Sqlite3Stubs, TLC

CONSTANTS d1, s1, s2, f

OneDb == {d1}
TwoStmts == {s1, s2}
OneName == {f}
NullaryAndUnary == {0, 1}

HandleSymmetry == Permutations(Dbs) \cup Permutations(Stmts)
=============================================================================
