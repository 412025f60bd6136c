----------------------------- MODULE MCStreamBuf -----------------------------
(* Small instances of StreamBuf for TLC. *)
EXTENDS StreamBuf
=============================================================================
