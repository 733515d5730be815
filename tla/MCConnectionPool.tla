--------------------------- MODULE MCConnectionPool ---------------------------
(* A pool smaller than the streams that follow the list. *)
EXTENDS ConnectionPool
=============================================================================
