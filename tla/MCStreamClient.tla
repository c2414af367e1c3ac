--------------------------- MODULE MCStreamClient ---------------------------
(* Small instances of StreamClient for TLC. *)
EXTENDS StreamClient
=============================================================================
