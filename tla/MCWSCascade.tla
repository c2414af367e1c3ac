---------------------------- MODULE MCWSCascade ----------------------------
(* Small instances of WSCascade for TLC. *)
EXTENDS WSCascade
============================================================================
