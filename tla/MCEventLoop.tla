----------------------------- MODULE MCEventLoop -----------------------------
(* Small instances of EventLoop for TLC. *)
EXTENDS EventLoop, TLC

\* Addresses and descriptor numbers are interchangeable.
Interchangeable == Permutations(Conn) \cup Permutations(Fd)
=============================================================================
