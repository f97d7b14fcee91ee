------------------------------ MODULE MCSqliteStore ------------------------------
(* Two directories, one inside the other, for the SQLite store.              *)
EXTENDS SqliteStore

MCPaths == {<<"a">>, <<"a", "x">>}
=============================================================================
