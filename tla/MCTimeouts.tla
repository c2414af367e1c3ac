----------------------------- MODULE MCTimeouts -----------------------------
(* A small instance of Timeouts for TLC. *)
EXTENDS Timeouts
=============================================================================
