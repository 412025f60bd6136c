---------------------------- MODULE MCHpackDecoder ----------------------------
(* A small instance of HpackDecoder for TLC. *)
EXTENDS HpackDecoder

\* A static table of two entries, and strings of which one is long.
MCStatic == <<[name |-> "m", value |-> "x"], [name |-> "p", value |-> "x"]>>
MCLength == [m |-> 1, p |-> 3, x |-> 1, long |-> 90]
=============================================================================
