------------------------------ MODULE MCPgWire ------------------------------
(* Values for PgWire: two files, attached in either order or one alone. *)
EXTENDS PgWire

MCFileLists == {<<"a", "b">>, <<"b", "a">>, <<"b">>}
=============================================================================
