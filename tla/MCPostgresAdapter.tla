------------------------- MODULE MCPostgresAdapter -------------------------
(* Two concurrent calls over a database that fails at any time.             *)
EXTENDS PostgresAdapter
=============================================================================
