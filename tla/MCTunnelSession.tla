-------------------------- MODULE MCTunnelSession --------------------------
(* Small instances of TunnelSession for TLC. *)
EXTENDS TunnelSession

CONSTANTS c1, c2, c3
============================================================================
