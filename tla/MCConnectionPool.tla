-------------------------- MODULE MCConnectionPool --------------------------
(* The connection pool with more clients than connections, and one handle   *)
(* more than connections for a reconnect.                                   *)
EXTENDS ConnectionPool
==============================================================================
