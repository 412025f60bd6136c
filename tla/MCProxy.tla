------------------------------- MODULE MCProxy -------------------------------
(* Small instances of Proxy for TLC. *)
EXTENDS Proxy

\* Of two addresses of clients' transports, 1 and 2, the first is used again.
OneReused == <<2, 1>>
=============================================================================
