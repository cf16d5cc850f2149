---------------------------- MODULE MCSqlite3Eio ----------------------------
(* Instances of Sqlite3Eio for TLC.                                           *)
EXTENDS Sqlite3Eio

CONSTANTS f1, f2

TwoFibers == {f1, f2}
=============================================================================
