---------------------------- MODULE MCLwipBridge ----------------------------
(* Small instances of LwipBridge for TLC. *)
EXTENDS LwipBridge, TLC

CONSTANTS c1, c2, c3, p1, p2, p3, dcA, dcB

\* Three client ports, two DCs.
MCPortOf == (c1 :> p1) @@ (c2 :> p2) @@ (c3 :> p3)
MCDcOf == (c1 :> dcA) @@ (c2 :> dcB) @@ (c3 :> dcA)

\* Two connections, one port each.
MCPortOf2 == (c1 :> p1) @@ (c2 :> p2)
MCDcOf2 == (c1 :> dcA) @@ (c2 :> dcB)

\* The second connection uses the client port of the first again.
MCPortShared == (c1 :> p1) @@ (c2 :> p1) @@ (c3 :> p2)
=============================================================================
