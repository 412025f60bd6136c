-------------------------- MODULE MCSwitchTransport --------------------------
(* Small instances of SwitchTransport for TLC. *)
EXTENDS SwitchTransport

\* A short preface in which a letter repeats.
ShortPreface == <<"P", "R", "P">>
=============================================================================
