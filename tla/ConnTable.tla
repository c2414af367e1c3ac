----------------------------- MODULE ConnTable -----------------------------
(***************************************************************************)
(* What the connection table of the bridge promises to those who hold a    *)
(* connection id: an id is given to a connection only while nobody has it, *)
(* a connection has one id at most, and an id is taken back, not passed    *)
(* on: between two owners every holder sees it free.  Which free id a      *)
(* connection gets, and when it ends, is left open.                        *)
(*                                                                         *)
(* LwipBridge implements this specification, with the callbacks of lwIP    *)
(* behind it.                                                              *)
(***************************************************************************)
CONSTANTS Conns, NoConn, Slots

VARIABLE table \* the connection that has each id, NoConn if nobody has it

TableInit == table = [s \in Slots |-> NoConn]

Accept(s, c) ==
  /\ table[s] = NoConn
  /\ \A t \in Slots : table[t] # c
  /\ table' = [table EXCEPT ![s] = c]

Release(s) ==
  /\ table[s] # NoConn
  /\ table' = [table EXCEPT ![s] = NoConn]

TableNext == \E s \in Slots : Release(s) \/ \E c \in Conns : Accept(s, c)

TableSpec == TableInit /\ [][TableNext]_table
============================================================================
