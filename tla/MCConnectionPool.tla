--------------------------- MODULE MCConnectionPool ---------------------------
(* Three threads, so that two of them can wait for what the third gives back. *)
EXTENDS ConnectionPool
=============================================================================
