-------------------------- MODULE MCConnectionPool --------------------------
(* Small instances of ConnectionPool for TLC. *)
EXTENDS ConnectionPool

CONSTANTS s1, s2

\* The cluster loses a server.
Views == <<{s1, s2}, {s1}>>
==============================================================================
