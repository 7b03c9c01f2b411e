-------------------------- MODULE MCSqliteConnPool --------------------------
(* Instances of SqliteConnPool for TLC. *)
EXTENDS SqliteConnPool
=============================================================================
