---------------------------- MODULE MCAppTunnel ----------------------------
(* Small instances of AppTunnel for TLC. *)
EXTENDS AppTunnel
=============================================================================
