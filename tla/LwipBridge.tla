----------------------------- MODULE LwipBridge -----------------------------
(***************************************************************************)
(* Tunnel/lwip_bridge.c: the C layer between the packets of the tunnel     *)
(* interface and the sessions.  Its state is the NAT table g_nat, which    *)
(* remembers the data centre (DC) a client port was talking to, and the    *)
(* connection table g_conns, whose index is the connection id that the     *)
(* Swift side holds.  Everything in it runs on lwipQueue, so a step of     *)
(* this module is one job of that queue: an input packet, a timer poll, a  *)
(* write or a close.                                                       *)
(*                                                                         *)
(* Around it stand the parts of lwIP that call it back (the pcb states     *)
(* "SYN_RCVD" and "ESTABLISHED", the pcb pool, the RST of tcp_abort) and   *)
(* the TCP of the device, which sends the packets.  The client address is  *)
(* always 198.18.0.2, so a NAT key is a port.  A connection stands for one *)
(* (client port, listening port) pair used once; two connections may share *)
(* the client port, one after the other.                                   *)
(*                                                                         *)
(* Packets to the device are delivered within the step that sends them:    *)
(* only the order in which packets reach the bridge matters to it, and     *)
(* inq keeps every packet of the device waiting as long as it likes.       *)
(***************************************************************************)
EXTENDS Integers, Sequences, FiniteSets, FiniteSetsExt

CONSTANTS
  Conns,          \* the connections the device opens
  Ports, Dcs,     \* client ports, DC addresses
  PortOf, DcOf,   \* client port and DC of each connection
  Listening,      \* connections to a listening port (443, 80, 5222)
  NoConn, NoPort, \* no pcb in the slot; port of an unused NAT entry
  NoDc,           \* the address 0: no NAT entry, source left at 198.18.0.2
  NAT_MAX,        \* entries of g_nat
  MAX_CONNS,      \* slots of g_conns
  PcbPool,        \* MEMP_NUM_TCP_PCB: pcbs lwIP can hold
  QueueBound,     \* packets that wait for lwipQueue; more are lost
  MemFails,       \* malloc and pbuf_alloc may return NULL
  SessionAborts   \* the recv callback may close the connection (bad init)

ASSUME ConnAssumption ==
  /\ PortOf \in [Conns -> Ports]
  /\ DcOf \in [Conns -> Dcs]
  /\ Listening \subseteq Conns
  /\ NoConn \notin Conns
  /\ NoPort \notin Ports
  /\ NoDc \notin Dcs

ASSUME SizeAssumption ==
  /\ NAT_MAX \in Nat \ {0}
  /\ MAX_CONNS \in Nat \ {0}
  /\ PcbPool \in Nat
  /\ QueueBound \in Nat
  /\ MemFails \in BOOLEAN
  /\ SessionAborts \in BOOLEAN

VARIABLES
  g_nat,    \* the NAT table
  g_conns,  \* the connection table
  pcb,      \* state of the lwIP pcb of each connection, "none" if freed
  arg,      \* callback argument of that pcb: the slot set by tcp_arg
  unacked,  \* the pcb has sent data that the device has not acknowledged
  client,   \* the device's end of each connection
  inq,      \* packets of the device on their way to lwip_bridge_input
  out,      \* packet that netif_output wrote in the last step
  cb        \* how the last TCP callback ended

bridge == <<g_nat, g_conns, pcb, arg, unacked>>
vars == <<g_nat, g_conns, pcb, arg, unacked, client, inq, out, cb>>

NatIdx == 1 .. NAT_MAX
Slots == 0 .. MAX_CONNS - 1

FreeEntry == [port |-> NoPort, dc |-> NoDc]
FreeSlot == [pcb |-> NoConn, dc |-> NoDc]
NoOut == [conn |-> NoConn, kind |-> "none", src |-> NoDc]

\* What lwIP sees of a callback: did it abort the pcb it was called for, and
\* what did it return.
Quiet == [aborted |-> FALSE, ret |-> "ERR_OK"]

Kinds == {"SYN", "ACK", "DATA", "FIN", "RST"}
OutKinds == {"none", "SYNACK", "ACK", "DATA", "RST"}
ClientStates == {"idle", "syn_sent", "estab", "closing", "closed"}
Packet == [conn : Conns, dst : Dcs, kind : Kinds]

TypeOK ==
  /\ g_nat \in [NatIdx -> [port : Ports \cup {NoPort}, dc : Dcs \cup {NoDc}]]
  /\ g_conns \in [Slots -> [pcb : Conns \cup {NoConn}, dc : Dcs \cup {NoDc}]]
  /\ pcb \in [Conns -> {"none", "SYN_RCVD", "ESTABLISHED"}]
  /\ arg \in [Conns -> Slots]
  /\ unacked \in [Conns -> BOOLEAN]
  /\ client \in [Conns -> ClientStates]
  /\ inq \in Seq(Packet)
  /\ out \in [conn : Conns \cup {NoConn}, kind : OutKinds, src : Dcs \cup {NoDc}]
  /\ cb \in [aborted : BOOLEAN, ret : {"ERR_OK", "ERR_ABRT"}]

-----------------------------------------------------------------------------
(* The NAT table *)

Matching(nat, port) == {i \in NatIdx : nat[i].port = port}

\* Mutant of nat_add: the scan for an entry of the same port is missing.
nat_add_NoReuse(nat, port, dc) ==
  LET free == Matching(nat, NoPort)
  IN  IF free # {} THEN [nat EXCEPT ![Min(free)] = [port |-> port, dc |-> dc]] ELSE nat

\* A full table drops the mapping without a word.
nat_add(nat, port, dc) ==
  LET old == Matching(nat, port)
      free == Matching(nat, NoPort)
  IN  IF old # {} THEN [nat EXCEPT ![Min(old)] = [port |-> port, dc |-> dc]]
      ELSE IF free # {} THEN [nat EXCEPT ![Min(free)] = [port |-> port, dc |-> dc]]
      ELSE nat

\* Mutant of nat_lookup: the first used entry, whatever its port.
nat_lookup_FirstUsed(nat, port) ==
  LET used == {i \in NatIdx : nat[i].port # NoPort}
  IN  IF used = {} THEN NoDc ELSE nat[Min(used)].dc

nat_lookup(nat, port) ==
  LET old == Matching(nat, port)
  IN  IF old = {} THEN NoDc ELSE nat[Min(old)].dc

\* Mutant of nat_remove: the first used entry, whatever its port.
nat_remove_FirstUsed(nat, port) ==
  LET used == {i \in NatIdx : nat[i].port # NoPort}
  IN  IF used = {} THEN nat ELSE [nat EXCEPT ![Min(used)] = FreeEntry]

\* The code clears "used" only; the other fields of an unused entry are never read.
nat_remove(nat, port) ==
  LET old == Matching(nat, port)
  IN  IF old = {} THEN nat ELSE [nat EXCEPT ![Min(old)] = FreeEntry]

-----------------------------------------------------------------------------
(* Packets in both directions *)

\* The interface queue is bounded and drops at its tail.
Enqueue(q, c, dst, kind) ==
  IF Len(q) < QueueBound
  THEN Append(q, [conn |-> c, dst |-> dst, kind |-> kind])
  ELSE q

Open(c) == client[c] \in {"syn_sent", "estab", "closing"}

\* A packet of the bridge reaches the socket of c only if it comes from the
\* DC that socket is connected to.
Reaches(c, src) == src = DcOf[c] /\ Open(c)

ClientAfter(c, kind) ==
  CASE kind = "RST" -> "closed"
    [] kind = "SYNACK" /\ client[c] = "syn_sent" -> "estab"
    [] OTHER -> client[c]

\* The answer of the device's TCP: an ACK from the socket, a RST for a packet
\* no socket expects, nothing for an ACK or a RST.  A packet that still has the
\* source 198.18.0.2 (and no checksum) is dropped.
Replies(q, c, kind, src) ==
  IF kind = "RST" \/ src = NoDc \/ (kind = "ACK" /\ Reaches(c, src)) THEN q
  ELSE Enqueue(q, c, src, IF Reaches(c, src) THEN "ACK" ELSE "RST")

\* The packet goes out with the source the NAT table holds at this moment; q is
\* what is left of inq.
netif_output(nat, c, kind, q) ==
  \/ LET src == nat_lookup(nat, PortOf[c]) IN
     /\ out' = [conn |-> c, kind |-> kind, src |-> src]
     /\ client' = IF Reaches(c, src)
                  THEN [client EXCEPT ![c] = ClientAfter(c, kind)] ELSE client
     /\ inq' = Replies(q, c, kind, src)
  \/ /\ MemFails
     /\ out' = NoOut
     /\ client' = client
     /\ inq' = q

NoOutput(q) == out' = NoOut /\ client' = client /\ inq' = q

\* A freed pcb has no argument and nothing to resend.
Free(c) ==
  /\ pcb' = [pcb EXCEPT ![c] = "none"]
  /\ arg' = [arg EXCEPT ![c] = 0]
  /\ unacked' = [unacked EXCEPT ![c] = FALSE]

Live == {c \in Conns : pcb[c] # "none"}
\* Mutant of FreeSlots: the loop of tcp_accept_cb runs from 1 to MAX_CONNS.
FreeSlots_FromOne == {s \in 1 .. MAX_CONNS : s = MAX_CONNS \/ g_conns[s].pcb = NoConn}

\* Mutant of FreeSlots: the flag "active" is not looked at.
FreeSlots_Any == Slots

FreeSlots == {s \in Slots : g_conns[s].pcb = NoConn}

-----------------------------------------------------------------------------
(* lwip_bridge_input: one packet of the device *)

Arrives(c, kinds) == inq # <<>> /\ Head(inq).conn = c /\ Head(inq).kind \in kinds

\* Every packet refreshes the NAT table before anything else happens to it.
NatIn == nat_add(g_nat, PortOf[Head(inq).conn], Head(inq).dst)

\* malloc or pbuf_alloc fails, after nat_add.
InputDropped ==
  /\ MemFails
  /\ inq # <<>>
  /\ g_nat' = NatIn
  /\ NoOutput(Tail(inq))
  /\ cb' = Quiet
  /\ UNCHANGED <<g_conns, pcb, arg, unacked>>

\* A SYN finds a listener: a pcb in SYN_RCVD, unless the pool is empty.
InputSyn(c) ==
  /\ Arrives(c, {"SYN"})
  /\ pcb[c] = "none"
  /\ c \in Listening
  /\ g_nat' = NatIn
  /\ \/ /\ Cardinality(Live) < PcbPool
        /\ pcb' = [pcb EXCEPT ![c] = "SYN_RCVD"]
        /\ netif_output(NatIn, c, "SYNACK", Tail(inq))
     \/ /\ Cardinality(Live) >= PcbPool
        /\ NoOutput(Tail(inq))
        /\ UNCHANGED pcb
  /\ cb' = Quiet
  /\ UNCHANGED <<g_conns, arg, unacked>>

\* Another copy of the SYN: the SYN-ACK is sent again.
InputSynAgain(c) ==
  /\ Arrives(c, {"SYN"})
  /\ pcb[c] = "SYN_RCVD"
  /\ g_nat' = NatIn
  /\ netif_output(NatIn, c, "SYNACK", Tail(inq))
  /\ cb' = Quiet
  /\ UNCHANGED <<g_conns, pcb, arg, unacked>>

\* No pcb and no listener for the packet: a RST, and nothing for a RST.
InputNoPcb(c) ==
  /\ pcb[c] = "none"
  /\ \/ /\ \/ Arrives(c, {"ACK", "DATA", "FIN"})
           \/ Arrives(c, {"SYN"}) /\ c \notin Listening
        /\ netif_output(NatIn, c, "RST", Tail(inq))
     \/ /\ Arrives(c, {"RST"})
        /\ NoOutput(Tail(inq))
  /\ g_nat' = NatIn
  /\ cb' = Quiet
  /\ UNCHANGED <<g_conns, pcb, arg, unacked>>

\* The segment that completes the handshake calls tcp_accept_cb.  What else a
\* DATA or FIN segment carries is handled by the next step, as if a bare ACK had
\* come before it.  Without a slot the callback aborts the pcb, returning ERR_OK.
tcp_accept_cb(c) ==
  /\ Arrives(c, {"ACK", "DATA", "FIN"})
  /\ pcb[c] = "SYN_RCVD"
  /\ g_nat' = NatIn
  /\ LET q == IF Head(inq).kind = "ACK" THEN Tail(inq) ELSE inq
         slot == Min(FreeSlots)
     IN  \/ /\ FreeSlots # {}
            /\ g_conns' = [g_conns EXCEPT
                 ![slot] = [pcb |-> c, dc |-> nat_lookup(NatIn, PortOf[c])]]
            /\ pcb' = [pcb EXCEPT ![c] = "ESTABLISHED"]
            /\ arg' = [arg EXCEPT ![c] = slot]
            /\ NoOutput(q)
            /\ cb' = Quiet
            /\ UNCHANGED unacked
         \/ /\ FreeSlots = {}
            /\ Free(c)
            /\ netif_output(NatIn, c, "RST", q)
            /\ cb' = [aborted |-> TRUE, ret |-> "ERR_OK"]
            /\ UNCHANGED g_conns

\* The abort of the pcb in slot s: its NAT entry goes first, then the RST.
AbortSlot(nat, s, q) ==
  LET d == g_conns[s].pcb IN
  /\ g_nat' = nat_remove(nat, PortOf[d])
  /\ g_conns' = [g_conns EXCEPT ![s] = FreeSlot]
  /\ Free(d)
  /\ netif_output(nat_remove(nat, PortOf[d]), d, "RST", q)

\* In-order data: g_recv, tcp_recved, and lwIP acknowledges it.  The session may
\* call lwip_bridge_close from inside g_recv; the callback still returns ERR_OK.
tcp_recv_cb_data(c) ==
  /\ Arrives(c, {"DATA"})
  /\ pcb[c] = "ESTABLISHED"
  /\ \/ /\ g_nat' = NatIn
        /\ netif_output(NatIn, c, "ACK", Tail(inq))
        /\ unacked' = [unacked EXCEPT ![c] = FALSE]
        /\ cb' = Quiet
        /\ UNCHANGED <<g_conns, pcb, arg>>
     \/ /\ SessionAborts
        /\ g_conns[arg[c]].pcb # NoConn
        /\ AbortSlot(NatIn, arg[c], Tail(inq))
        /\ cb' = [aborted |-> g_conns[arg[c]].pcb = c, ret |-> "ERR_OK"]

\* Mutant of tcp_recv_cb_fin: it returns ERR_OK after the abort.
tcp_recv_cb_fin_ErrOk(c) ==
  /\ Arrives(c, {"FIN"})
  /\ pcb[c] = "ESTABLISHED"
  /\ AbortSlot(NatIn, arg[c], Tail(inq))
  /\ cb' = [aborted |-> TRUE, ret |-> "ERR_OK"]

\* Mutant of tcp_recv_cb_fin: it tells the session and leaves the pcb half closed.
tcp_recv_cb_fin_HalfClosed(c) ==
  /\ Arrives(c, {"FIN"})
  /\ pcb[c] = "ESTABLISHED"
  /\ g_nat' = NatIn
  /\ netif_output(NatIn, c, "ACK", Tail(inq))
  /\ cb' = Quiet
  /\ UNCHANGED <<g_conns, pcb, arg, unacked>>

\* FIN: the callback gets no pbuf, tells the session, and aborts the pcb of the
\* slot if the slot is still active; it returns ERR_ABRT in any case.
tcp_recv_cb_fin(c) ==
  /\ Arrives(c, {"FIN"})
  /\ pcb[c] = "ESTABLISHED"
  /\ IF g_conns[arg[c]].pcb # NoConn
     THEN AbortSlot(NatIn, arg[c], Tail(inq))
     ELSE /\ g_nat' = NatIn
          /\ NoOutput(Tail(inq))
          /\ UNCHANGED <<g_conns, pcb, arg, unacked>>
  /\ cb' = [aborted |-> g_conns[arg[c]].pcb = c, ret |-> "ERR_ABRT"]

\* A bare ACK (tcp_sent_cb changes nothing here), or a segment that lwIP only
\* acknowledges: one it has seen already, or a FIN or RST ahead of lost data.
InputAck(c) ==
  /\ pcb[c] = "ESTABLISHED"
  /\ \/ /\ Arrives(c, {"ACK"})
        /\ unacked' = [unacked EXCEPT ![c] = FALSE]
        /\ NoOutput(Tail(inq))
     \/ /\ \/ Arrives(c, {"SYN", "DATA"})
           \/ MemFails /\ Arrives(c, {"FIN", "RST"})
        /\ netif_output(NatIn, c, "ACK", Tail(inq))
        /\ UNCHANGED unacked
  /\ g_nat' = NatIn
  /\ cb' = Quiet
  /\ UNCHANGED <<g_conns, pcb, arg>>

\* Mutant of tcp_err_cb: the slot keeps its pcb.
tcp_err_cb_KeepsSlot(nat, c) ==
  /\ g_nat' = nat_remove(nat, PortOf[c])
  /\ UNCHANGED g_conns
  /\ Free(c)

\* lwIP frees the pcb of c and reports it; the callback clears the slot it finds.
tcp_err_cb(nat, c) ==
  LET s == arg[c]
      d == g_conns[s].pcb
  IN  /\ g_nat' = IF d = NoConn THEN nat ELSE nat_remove(nat, PortOf[d])
      /\ g_conns' = [g_conns EXCEPT ![s] = FreeSlot]
      /\ Free(c)

\* RST: before tcp_accept_cb no error callback is set and the pcb just goes.
InputRst(c) ==
  /\ Arrives(c, {"RST"})
  /\ \/ /\ pcb[c] = "SYN_RCVD"
        /\ g_nat' = NatIn
        /\ Free(c)
        /\ UNCHANGED g_conns
     \/ /\ pcb[c] = "ESTABLISHED"
        /\ tcp_err_cb(NatIn, c)
  /\ NoOutput(Tail(inq))
  /\ cb' = Quiet

lwip_bridge_input ==
  \/ InputDropped
  \/ \E c \in Conns :
       \/ InputSyn(c) \/ InputSynAgain(c) \/ InputNoPcb(c)
       \/ tcp_accept_cb(c) \/ tcp_recv_cb_data(c) \/ tcp_recv_cb_fin(c)
       \/ InputAck(c) \/ InputRst(c)

-----------------------------------------------------------------------------
(* lwip_bridge_poll: the retransmissions of lwIP and their limits *)

PollResend(c) ==
  /\ \/ pcb[c] = "SYN_RCVD" /\ netif_output(g_nat, c, "SYNACK", inq)
     \/ pcb[c] = "ESTABLISHED" /\ unacked[c] /\ netif_output(g_nat, c, "DATA", inq)
  /\ cb' = Quiet
  /\ UNCHANGED bridge

PollGiveUp(c) ==
  /\ \/ /\ pcb[c] = "SYN_RCVD"
        /\ Free(c)
        /\ UNCHANGED <<g_nat, g_conns>>
     \/ /\ pcb[c] = "ESTABLISHED"
        /\ unacked[c]
        /\ tcp_err_cb(g_nat, c)
  /\ NoOutput(inq)
  /\ cb' = Quiet

lwip_bridge_poll == \E c \in Conns : PollResend(c) \/ PollGiveUp(c)

-----------------------------------------------------------------------------
(* Calls of the sessions, by connection id *)

\* A write that tcp_write refuses changes nothing and is no step here.
lwip_bridge_write(s) ==
  LET c == g_conns[s].pcb IN
  /\ c # NoConn
  /\ unacked' = [unacked EXCEPT ![c] = TRUE]
  /\ netif_output(g_nat, c, "DATA", inq)
  /\ cb' = Quiet
  /\ UNCHANGED <<g_nat, g_conns, pcb, arg>>

\* No callback: tcp_err is cleared before the abort.
lwip_bridge_close(s) ==
  /\ g_conns[s].pcb # NoConn
  /\ AbortSlot(g_nat, s, inq)
  /\ cb' = Quiet

-----------------------------------------------------------------------------
(* The device *)

Send(c, kind) == inq' = Append(inq, [conn |-> c, dst |-> DcOf[c], kind |-> kind])

ClientStep ==
  /\ out' = NoOut
  /\ cb' = Quiet
  /\ UNCHANGED bridge

ClientConnect(c) ==
  /\ client[c] = "idle"
  /\ \A d \in Conns : PortOf[d] = PortOf[c] => ~Open(d)
  /\ Len(inq) < QueueBound
  /\ client' = [client EXCEPT ![c] = "syn_sent"]
  /\ Send(c, "SYN")
  /\ ClientStep

\* New data, or anything again that has not been answered.
ClientSend(c) ==
  /\ Len(inq) < QueueBound
  /\ \/ client[c] = "syn_sent" /\ Send(c, "SYN")
     \/ client[c] = "estab" /\ Send(c, "DATA")
     \/ client[c] = "closing" /\ Send(c, "FIN")
  /\ UNCHANGED client
  /\ ClientStep

ClientClose(c) ==
  /\ client[c] = "estab"
  /\ Len(inq) < QueueBound
  /\ \/ Send(c, "FIN") /\ client' = [client EXCEPT ![c] = "closing"]
     \/ Send(c, "RST") /\ client' = [client EXCEPT ![c] = "closed"]
  /\ ClientStep

\* The device stops trying, silently.
ClientGiveUp(c) ==
  /\ client[c] \in {"syn_sent", "closing"}
  /\ client' = [client EXCEPT ![c] = "closed"]
  /\ UNCHANGED inq
  /\ ClientStep

-----------------------------------------------------------------------------
Init ==
  /\ g_nat = [i \in NatIdx |-> FreeEntry]
  /\ g_conns = [s \in Slots |-> FreeSlot]
  /\ pcb = [c \in Conns |-> "none"]
  /\ arg = [c \in Conns |-> 0]
  /\ unacked = [c \in Conns |-> FALSE]
  /\ client = [c \in Conns |-> "idle"]
  /\ inq = <<>>
  /\ out = NoOut
  /\ cb = Quiet

Next ==
  \/ lwip_bridge_input
  \/ lwip_bridge_poll
  \/ \E s \in Slots : lwip_bridge_write(s) \/ lwip_bridge_close(s)
  \/ \E c \in Conns :
       ClientConnect(c) \/ ClientSend(c) \/ ClientClose(c) \/ ClientGiveUp(c)

Spec == Init /\ [][Next]_vars

\* lwipQueue runs its jobs, the poll timer fires every 250 ms, and the device
\* repeats what has not been answered.  Sessions and users owe nothing.
Fairness ==
  /\ WF_vars(lwip_bridge_input)
  /\ \A c \in Conns : WF_vars(PollGiveUp(c)) /\ WF_vars(ClientSend(c))

FairSpec == Spec /\ Fairness

-----------------------------------------------------------------------------
(* Safety *)

\* nat_add, called for every packet, never stores a port twice.  nat_lookup and
\* nat_remove stop at the first match and rely on it: with a second entry a
\* removed mapping would come back.
NatUnique ==
  \A i, j \in NatIdx :
    g_nat[i].port # NoPort /\ g_nat[i].port = g_nat[j].port => i = j

\* g_conns and the pcbs of lwIP point at each other: the callback argument of an
\* accepted pcb is the slot that holds it, and a slot holds an accepted pcb that
\* has not been freed, whichever of FIN, RST, timeout, failed handshake and
\* lwip_bridge_close happened in whatever order.
SlotsSound ==
  /\ \A c \in Conns : pcb[c] = "ESTABLISHED" => g_conns[arg[c]].pcb = c
  /\ \A s \in Slots : g_conns[s].pcb # NoConn =>
       pcb[g_conns[s].pcb] = "ESTABLISHED" /\ arg[g_conns[s].pcb] = s

\* The rule of tcp_abort (lwip/core/tcp.c:631): a callback that aborted its pcb
\* returns ERR_ABRT, and no other does; lwIP touches the freed pcb otherwise.
\* tcp_accept_cb and tcp_recv_cb keep it because the pcb pool is smaller than
\* g_conns and the slot of a live pcb is active.
CallbackContract == cb.aborted <=> cb.ret = "ERR_ABRT"

\* What lwip_bridge_get_dst_ip answers: the DC the device connected to.  It is
\* looked up at accept time, long after the SYN, in a table that other
\* connections have changed meanwhile and that may be full.
DcKnown ==
  \A s \in Slots : g_conns[s].pcb # NoConn => g_conns[s].dc = DcOf[g_conns[s].pcb]

\* The same where client ports are used again: never the DC of another
\* connection, though it may be 0.
DcNeverWrong ==
  \A s \in Slots :
    g_conns[s].pcb # NoConn => g_conns[s].dc \in {DcOf[g_conns[s].pcb], NoDc}

\* What the bridge sends on an accepted connection carries the source address of
\* its DC, even with the NAT table full and entries of other ports coming and going.
EstablishedRewritten ==
  out.conn # NoConn /\ out.kind # "RST" /\ pcb[out.conn] = "ESTABLISHED"
    => out.src = DcOf[out.conn]

-----------------------------------------------------------------------------
(* Refinement *)

\* The owner of each id.
Owner == [s \in Slots |-> g_conns[s].pcb]

Table == INSTANCE ConnTable WITH table <- Owner

\* The bridge implements ConnTable: whatever packets, timers, failed allocations
\* and sessions do, and in whatever order callbacks find their slot, an active slot
\* is never given to a second connection, no connection sits in two slots, and a
\* step changes the owner of one id only.
ImplementsConnTable == Table!TableSpec

-----------------------------------------------------------------------------
(* Liveness *)

\* The other connections are gone, at both ends.
Alone(c) == \A d \in Conns \ {c} : client[d] \in {"idle", "closed"} /\ pcb[d] = "none"

\* A connection attempt of the device is answered, whatever happened to earlier
\* connections, once those are gone.
ConnectServed ==
  \A c \in Conns : client[c] = "syn_sent" /\ Alone(c) ~> client[c] # "syn_sent"

\* A pcb whose other end is gone is freed: the pool of lwIP does not run dry.
PcbReclaimed ==
  \A c \in Conns : client[c] = "closed" ~> pcb[c] = "none"

=============================================================================
