----------------------------- MODULE MCOutputPath -----------------------------
(* Small instances of OutputPath for TLC. *)
EXTENDS OutputPath
=============================================================================
