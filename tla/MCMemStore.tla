------------------------------ MODULE MCMemStore ------------------------------
(* Two directories, one inside the other, for the in-memory store.           *)
EXTENDS MemStore

MCPaths == {<<"a">>, <<"a", "x">>}
=============================================================================
