-------------------------- MODULE LwipBridgeProofs --------------------------
(***************************************************************************)
(* Safety of the bridge for every number of connections, ports, NAT        *)
(* entries, slots and pcbs: type correctness, no port twice in the NAT     *)
(* table, slots and pcbs in step, the rule of tcp_abort, the connection    *)
(* table it implements, and whose data centre a slot and a packet carry.   *)
(***************************************************************************)
EXTENDS LwipBridge, Induction, FiniteSetTheorems, TLAPS

NatTable == [NatIdx -> [port : Ports \cup {NoPort}, dc : Dcs \cup {NoDc}]]

Unique(nat) ==
  \A i, j \in NatIdx : nat[i].port # NoPort /\ nat[i].port = nat[j].port => i = j

\* The scans of the NAT table stop inside it, at an entry with the port they look for.
LEMMA FirstMatch ==
  ASSUME NEW nat \in NatTable, NEW port, Matching(nat, port) # {}
  PROVE  Min(Matching(nat, port)) \in NatIdx /\ nat[Min(Matching(nat, port))].port = port
<1>1. Matching(nat, port) \in SUBSET Nat
  BY SizeAssumption DEF Matching, NatIdx
<1>2. Min(Matching(nat, port)) \in Matching(nat, port)
  BY <1>1, MinExists
<1> QED BY <1>2 DEF Matching

\* nat_add keeps the table well formed and its ports distinct.
LEMMA NatAdd ==
  ASSUME NEW nat \in NatTable, NEW port \in Ports, NEW dc \in Dcs
  PROVE  /\ nat_add(nat, port, dc) \in NatTable
         /\ Unique(nat) => Unique(nat_add(nat, port, dc))
<1> DEFINE old == Matching(nat, port)
           free == Matching(nat, NoPort)
<1>1. CASE old # {}
  <2>1. Min(old) \in NatIdx /\ nat[Min(old)].port = port
    BY <1>1, FirstMatch
  <2>2. nat_add(nat, port, dc) = [nat EXCEPT ![Min(old)] = [port |-> port, dc |-> dc]]
    BY <1>1 DEF nat_add
  <2> HIDE DEF old, free
  <2> QED BY <2>1, <2>2 DEF NatTable, Unique
<1>2. CASE old = {} /\ free # {}
  <2>1. Min(free) \in NatIdx /\ nat[Min(free)].port = NoPort
    BY <1>2, FirstMatch
  <2>2. nat_add(nat, port, dc) = [nat EXCEPT ![Min(free)] = [port |-> port, dc |-> dc]]
    BY <1>2 DEF nat_add
  <2>3. \A i \in NatIdx : nat[i].port # port
    BY <1>2 DEF Matching
  <2> HIDE DEF old, free
  <2> QED BY <2>1, <2>2, <2>3, ConnAssumption DEF NatTable, Unique
<1>3. CASE old = {} /\ free = {}
  BY <1>3 DEF nat_add
<1> QED BY <1>1, <1>2, <1>3

\* nat_remove keeps the table well formed and its ports distinct.
LEMMA NatRemove ==
  ASSUME NEW nat \in NatTable, NEW port \in Ports
  PROVE  /\ nat_remove(nat, port) \in NatTable
         /\ Unique(nat) => Unique(nat_remove(nat, port))
<1> DEFINE old == Matching(nat, port)
<1>1. CASE old # {}
  <2>1. Min(old) \in NatIdx
    BY <1>1, FirstMatch
  <2>2. nat_remove(nat, port) = [nat EXCEPT ![Min(old)] = FreeEntry]
    BY <1>1 DEF nat_remove
  <2> HIDE DEF old
  <2> QED BY <2>1, <2>2, ConnAssumption DEF NatTable, Unique, FreeEntry
<1>2. CASE old = {}
  BY <1>2 DEF nat_remove
<1> QED BY <1>1, <1>2

\* nat_lookup answers a DC or the address 0.
LEMMA NatLookup ==
  ASSUME NEW nat \in NatTable, NEW port \in Ports
  PROVE  nat_lookup(nat, port) \in Dcs \cup {NoDc}
<1>1. CASE Matching(nat, port) # {}
  BY <1>1, FirstMatch DEF nat_lookup, NatTable
<1>2. CASE Matching(nat, port) = {}
  BY <1>2 DEF nat_lookup
<1> QED BY <1>1, <1>2

-----------------------------------------------------------------------------
(* What a step may do to the packets and to the tables, action by action. *)

OutTyped ==
  /\ client' \in [Conns -> ClientStates]
  /\ inq' \in Seq(Packet)
  /\ out' \in [conn : Conns \cup {NoConn}, kind : OutKinds, src : Dcs \cup {NoDc}]

TablesTyped ==
  /\ g_nat' \in NatTable
  /\ g_conns' \in [Slots -> [pcb : Conns \cup {NoConn}, dc : Dcs \cup {NoDc}]]
  /\ pcb' \in [Conns -> {"none", "SYN_RCVD", "ESTABLISHED"}]
  /\ arg' \in [Conns -> Slots]
  /\ unacked' \in [Conns -> BOOLEAN]

NatStep == Unique(g_nat) => Unique(g_nat')

\* The five things that can happen to slots and pcbs.
Keep == UNCHANGED <<g_conns, pcb, arg>>

Alloc(c) ==
  /\ pcb[c] = "none"
  /\ Cardinality(Live) < PcbPool
  /\ pcb' = [pcb EXCEPT ![c] = "SYN_RCVD"]
  /\ UNCHANGED <<g_conns, arg>>

Drop(c) ==
  /\ pcb[c] = "SYN_RCVD"
  /\ pcb' = [pcb EXCEPT ![c] = "none"]
  /\ arg' = [arg EXCEPT ![c] = 0]
  /\ UNCHANGED g_conns

Accept(c, s, dc) ==
  /\ pcb[c] = "SYN_RCVD"
  /\ g_conns[s].pcb = NoConn
  /\ g_conns' = [g_conns EXCEPT ![s] = [pcb |-> c, dc |-> dc]]
  /\ pcb' = [pcb EXCEPT ![c] = "ESTABLISHED"]
  /\ arg' = [arg EXCEPT ![c] = s]

Release(c) ==
  /\ pcb[c] = "ESTABLISHED"
  /\ g_conns' = [g_conns EXCEPT ![arg[c]] = FreeSlot]
  /\ pcb' = [pcb EXCEPT ![c] = "none"]
  /\ arg' = [arg EXCEPT ![c] = 0]

TableStep ==
  \/ Keep
  \/ \E c \in Conns : Alloc(c) \/ Drop(c) \/ Release(c)
  \/ \E c \in Conns, s \in Slots, dc \in Dcs \cup {NoDc} : Accept(c, s, dc)

\* The queue only grows by packets.
LEMMA EnqueueType ==
  ASSUME NEW q \in Seq(Packet), NEW c \in Conns, NEW dst \in Dcs, NEW kind \in Kinds
  PROVE  Enqueue(q, c, dst, kind) \in Seq(Packet)
<1>1. [conn |-> c, dst |-> dst, kind |-> kind] \in Packet
  BY DEF Packet
<1> QED BY <1>1 DEF Enqueue

\* netif_output writes a well-formed packet and the device answers with packets.
LEMMA OutputType ==
  ASSUME TypeOK, NEW nat \in NatTable, NEW c \in Conns,
         NEW kind \in {"SYNACK", "ACK", "DATA", "RST"}, NEW q \in Seq(Packet),
         netif_output(nat, c, kind, q)
  PROVE  OutTyped
<1> DEFINE src == nat_lookup(nat, PortOf[c])
<1>1. src \in Dcs \cup {NoDc}
  BY NatLookup, ConnAssumption
<1>2. CASE /\ out' = [conn |-> c, kind |-> kind, src |-> src]
           /\ client' = IF Reaches(c, src)
                        THEN [client EXCEPT ![c] = ClientAfter(c, kind)] ELSE client
           /\ inq' = Replies(q, c, kind, src)
  <2> HIDE DEF src
  <2>1. out' \in [conn : Conns \cup {NoConn}, kind : OutKinds, src : Dcs \cup {NoDc}]
    BY <1>1, <1>2 DEF OutKinds
  <2>2. ClientAfter(c, kind) \in ClientStates
    BY DEF ClientAfter, TypeOK, ClientStates
  <2>3. client' \in [Conns -> ClientStates]
    BY <1>2, <2>2 DEF TypeOK
  <2>4. inq' \in Seq(Packet)
    <3>1. CASE kind = "RST" \/ src = NoDc
      BY <3>1, <1>2 DEF Replies
    <3>2. CASE ~(kind = "RST" \/ src = NoDc)
      <4>1. src \in Dcs /\ "ACK" \in Kinds /\ "RST" \in Kinds
        BY <3>2, <1>1 DEF Kinds
      <4>2. /\ Enqueue(q, c, src, "ACK") \in Seq(Packet)
            /\ Enqueue(q, c, src, "RST") \in Seq(Packet)
        BY <4>1, EnqueueType
      <4> QED BY <4>2, <3>2, <1>2 DEF Replies
    <3> QED BY <3>1, <3>2
  <2> QED BY <2>1, <2>3, <2>4 DEF OutTyped
<1>3. CASE out' = NoOut /\ client' = client /\ inq' = q
  BY <1>3 DEF OutTyped, TypeOK, NoOut, OutKinds
<1> QED BY <1>2, <1>3 DEF netif_output

\* A step that writes no packet.
LEMMA NoOutputType ==
  ASSUME TypeOK, NEW q \in Seq(Packet), NoOutput(q)
  PROVE  OutTyped
BY DEF NoOutput, OutTyped, TypeOK, NoOut, OutKinds

\* The packet at the head of the queue and the NAT table it leaves.
LEMMA ArrivalType ==
  ASSUME TypeOK, inq # <<>>
  PROVE  /\ Head(inq) \in Packet
         /\ Tail(inq) \in Seq(Packet)
         /\ NatIn \in NatTable
         /\ Unique(g_nat) => Unique(NatIn)
<1>1. Head(inq) \in Packet /\ Tail(inq) \in Seq(Packet)
  BY DEF TypeOK
<1>2. g_nat \in NatTable /\ PortOf[Head(inq).conn] \in Ports /\ Head(inq).dst \in Dcs
  BY <1>1, ConnAssumption DEF TypeOK, NatTable, Packet
<1> QED BY <1>1, <1>2, NatAdd DEF NatIn

-----------------------------------------------------------------------------
CbTyped == cb' \in [aborted : BOOLEAN, ret : {"ERR_OK", "ERR_ABRT"}]

Effect == OutTyped /\ TablesTyped /\ NatStep /\ TableStep /\ CbTyped

\* Aborting the pcb of an active slot releases the connection in it.
LEMMA AbortSlotEffect ==
  ASSUME TypeOK, SlotsSound, NEW s \in Slots, g_conns[s].pcb # NoConn,
         NEW nat \in NatTable, Unique(g_nat) => Unique(nat),
         NEW q \in Seq(Packet), AbortSlot(nat, s, q)
  PROVE  OutTyped /\ TablesTyped /\ NatStep /\ TableStep
<1> DEFINE d == g_conns[s].pcb
<1>1. d \in Conns /\ pcb[d] = "ESTABLISHED" /\ arg[d] = s /\ PortOf[d] \in Ports
  BY ConnAssumption DEF TypeOK, SlotsSound
<1>2. /\ nat_remove(nat, PortOf[d]) \in NatTable
      /\ Unique(g_nat) => Unique(nat_remove(nat, PortOf[d]))
  BY <1>1, NatRemove
<1>3. /\ g_nat' = nat_remove(nat, PortOf[d])
      /\ g_conns' = [g_conns EXCEPT ![s] = FreeSlot]
      /\ pcb' = [pcb EXCEPT ![d] = "none"]
      /\ arg' = [arg EXCEPT ![d] = 0]
      /\ unacked' = [unacked EXCEPT ![d] = FALSE]
      /\ netif_output(nat_remove(nat, PortOf[d]), d, "RST", q)
  BY DEF AbortSlot, Free
<1> HIDE DEF d
<1>4. OutTyped
  BY <1>1, <1>2, <1>3, OutputType
<1>5. TablesTyped
  BY <1>1, <1>2, <1>3, SizeAssumption DEF TablesTyped, TypeOK, FreeSlot, Slots
<1>6. TableStep
  BY <1>1, <1>3 DEF TableStep, Release
<1> QED BY <1>2, <1>3, <1>4, <1>5, <1>6 DEF NatStep

\* The error callback of an accepted pcb releases the connection.
LEMMA ErrEffect ==
  ASSUME TypeOK, SlotsSound, NEW c \in Conns, pcb[c] = "ESTABLISHED",
         NEW nat \in NatTable, Unique(g_nat) => Unique(nat), tcp_err_cb(nat, c)
  PROVE  TablesTyped /\ NatStep /\ TableStep
<1>1. g_conns[arg[c]].pcb = c /\ arg[c] \in Slots /\ PortOf[c] \in Ports /\ c # NoConn
  BY ConnAssumption DEF TypeOK, SlotsSound
<1>2. /\ nat_remove(nat, PortOf[c]) \in NatTable
      /\ Unique(g_nat) => Unique(nat_remove(nat, PortOf[c]))
  BY <1>1, NatRemove
<1>3. /\ g_nat' = nat_remove(nat, PortOf[c])
      /\ g_conns' = [g_conns EXCEPT ![arg[c]] = FreeSlot]
      /\ pcb' = [pcb EXCEPT ![c] = "none"]
      /\ arg' = [arg EXCEPT ![c] = 0]
      /\ unacked' = [unacked EXCEPT ![c] = FALSE]
  BY <1>1 DEF tcp_err_cb, Free
<1>4. TablesTyped
  BY <1>1, <1>2, <1>3, SizeAssumption DEF TablesTyped, TypeOK, FreeSlot, Slots
<1> QED BY <1>2, <1>3, <1>4 DEF NatStep, TableStep, Release

\* A pcb in SYN_RCVD that goes takes nothing with it.
LEMMA DropEffect ==
  ASSUME TypeOK, NEW c \in Conns, pcb[c] = "SYN_RCVD",
         g_nat' \in NatTable, Unique(g_nat) => Unique(g_nat'),
         Free(c), UNCHANGED g_conns
  PROVE  TablesTyped /\ NatStep /\ TableStep
<1>1. TablesTyped
  BY SizeAssumption DEF TablesTyped, TypeOK, Free, Slots
<1> QED BY <1>1 DEF NatStep, TableStep, Drop, Free

\* Nothing happens to slots and pcbs.
LEMMA KeepEffect ==
  ASSUME TypeOK, g_nat' \in NatTable, Unique(g_nat) => Unique(g_nat'),
         UNCHANGED <<g_conns, pcb, arg>>, unacked' \in [Conns -> BOOLEAN]
  PROVE  TablesTyped /\ NatStep /\ TableStep
BY DEF TypeOK, TablesTyped, NatStep, TableStep, Keep

-----------------------------------------------------------------------------
\* Every input packet, whatever it is.
LEMMA InputEffect ==
  ASSUME TypeOK, SlotsSound, lwip_bridge_input
  PROVE  Effect
<1>1. inq # <<>>
  BY DEF lwip_bridge_input, InputDropped, InputSyn, InputSynAgain, InputNoPcb, tcp_accept_cb,
         tcp_recv_cb_data, tcp_recv_cb_fin, InputAck, InputRst, Arrives
<1>2. /\ Head(inq) \in Packet
      /\ Tail(inq) \in Seq(Packet)
      /\ inq \in Seq(Packet)
      /\ NatIn \in NatTable
      /\ Unique(g_nat) => Unique(NatIn)
      /\ unacked \in [Conns -> BOOLEAN]
  BY <1>1, ArrivalType DEF TypeOK
<1>3. CASE InputDropped
  <2>1. OutTyped
    BY <1>2, <1>3, NoOutputType DEF InputDropped
  <2>2. TablesTyped /\ NatStep /\ TableStep
    BY <1>2, <1>3, KeepEffect DEF InputDropped
  <2> QED BY <1>3, <2>1, <2>2 DEF Effect, InputDropped, CbTyped, Quiet
<1>4. ASSUME NEW c \in Conns, InputSyn(c) PROVE Effect
  <2>1. CASE /\ Cardinality(Live) < PcbPool
             /\ pcb' = [pcb EXCEPT ![c] = "SYN_RCVD"]
             /\ netif_output(NatIn, c, "SYNACK", Tail(inq))
    <3>1. OutTyped
      BY <1>2, <2>1, OutputType
    <3>2. TablesTyped /\ NatStep /\ TableStep
      BY <1>2, <1>4, <2>1 DEF InputSyn, TypeOK, TablesTyped, NatStep, TableStep, Alloc
    <3> QED BY <1>4, <3>1, <3>2 DEF Effect, InputSyn, CbTyped, Quiet
  <2>2. CASE NoOutput(Tail(inq)) /\ UNCHANGED pcb
    <3>1. OutTyped
      BY <1>2, <2>2, NoOutputType
    <3>2. TablesTyped /\ NatStep /\ TableStep
      BY <1>2, <1>4, <2>2, KeepEffect DEF InputSyn
    <3> QED BY <1>4, <3>1, <3>2 DEF Effect, InputSyn, CbTyped, Quiet
  <2> QED BY <1>4, <2>1, <2>2 DEF InputSyn
<1>5. ASSUME NEW c \in Conns, InputSynAgain(c) PROVE Effect
  <2>1. OutTyped
    BY <1>2, <1>5, OutputType DEF InputSynAgain
  <2>2. TablesTyped /\ NatStep /\ TableStep
    BY <1>2, <1>5, KeepEffect DEF InputSynAgain
  <2> QED BY <1>5, <2>1, <2>2 DEF Effect, InputSynAgain, CbTyped, Quiet
<1>6. ASSUME NEW c \in Conns, InputNoPcb(c) PROVE Effect
  <2>1. OutTyped
    BY <1>2, <1>6, OutputType, NoOutputType DEF InputNoPcb
  <2>2. TablesTyped /\ NatStep /\ TableStep
    BY <1>2, <1>6, KeepEffect DEF InputNoPcb
  <2> QED BY <1>6, <2>1, <2>2 DEF Effect, InputNoPcb, CbTyped, Quiet
<1>7. ASSUME NEW c \in Conns, tcp_accept_cb(c) PROVE Effect
  <2> DEFINE q == IF Head(inq).kind = "ACK" THEN Tail(inq) ELSE inq
             slot == Min(FreeSlots)
             dc == nat_lookup(NatIn, PortOf[c])
  <2>1. q \in Seq(Packet) /\ dc \in Dcs \cup {NoDc}
    BY <1>2, NatLookup, ConnAssumption
  <2>2. CASE /\ FreeSlots # {}
             /\ g_conns' = [g_conns EXCEPT ![slot] = [pcb |-> c, dc |-> dc]]
             /\ pcb' = [pcb EXCEPT ![c] = "ESTABLISHED"]
             /\ arg' = [arg EXCEPT ![c] = slot]
             /\ NoOutput(q)
             /\ cb' = Quiet
             /\ UNCHANGED unacked
    <3>1. FreeSlots \in SUBSET Nat
      BY SizeAssumption DEF FreeSlots, Slots
    <3>2. slot \in FreeSlots
      BY <2>2, <3>1, MinExists
    <3>3. slot \in Slots /\ g_conns[slot].pcb = NoConn
      BY <3>2 DEF FreeSlots
    <3> HIDE DEF q, slot, dc
    <3>4. OutTyped
      BY <2>1, <2>2, NoOutputType
    <3>5. TablesTyped /\ NatStep
      BY <1>2, <1>7, <2>1, <2>2, <3>3 DEF tcp_accept_cb, TypeOK, TablesTyped, NatStep
    <3>6. Accept(c, slot, dc)
      BY <1>7, <2>2, <3>3 DEF tcp_accept_cb, Accept
    <3> QED BY <2>1, <2>2, <3>3, <3>4, <3>5, <3>6 DEF Effect, TableStep, CbTyped, Quiet
  <2>3. CASE /\ Free(c)
             /\ netif_output(NatIn, c, "RST", q)
             /\ cb' = [aborted |-> TRUE, ret |-> "ERR_OK"]
             /\ UNCHANGED g_conns
    <3> HIDE DEF q
    <3>1. OutTyped
      BY <1>2, <2>1, <2>3, OutputType
    <3>2. TablesTyped /\ NatStep /\ TableStep
      BY <1>2, <1>7, <2>3, DropEffect DEF tcp_accept_cb
    <3> QED BY <2>3, <3>1, <3>2 DEF Effect, CbTyped
  <2> QED BY <1>7, <2>2, <2>3 DEF tcp_accept_cb
<1>8. ASSUME NEW c \in Conns, tcp_recv_cb_data(c) PROVE Effect
  <2>1. CASE /\ g_nat' = NatIn
             /\ netif_output(NatIn, c, "ACK", Tail(inq))
             /\ unacked' = [unacked EXCEPT ![c] = FALSE]
             /\ cb' = Quiet
             /\ UNCHANGED <<g_conns, pcb, arg>>
    <3>1. OutTyped
      BY <1>2, <2>1, OutputType
    <3>2. TablesTyped /\ NatStep /\ TableStep
      BY <1>2, <2>1, KeepEffect
    <3> QED BY <2>1, <3>1, <3>2 DEF Effect, CbTyped, Quiet
  <2>2. CASE /\ g_conns[arg[c]].pcb # NoConn
             /\ AbortSlot(NatIn, arg[c], Tail(inq))
             /\ cb' = [aborted |-> g_conns[arg[c]].pcb = c, ret |-> "ERR_OK"]
    <3>1. OutTyped /\ TablesTyped /\ NatStep /\ TableStep
      BY <1>2, <2>2, AbortSlotEffect DEF TypeOK
    <3> QED BY <2>2, <3>1 DEF Effect, CbTyped
  <2> QED BY <1>8, <2>1, <2>2 DEF tcp_recv_cb_data
<1>9. ASSUME NEW c \in Conns, tcp_recv_cb_fin(c) PROVE Effect
  <2>1. arg[c] \in Slots /\ g_conns[arg[c]].pcb = c /\ c # NoConn
    BY <1>9, ConnAssumption DEF tcp_recv_cb_fin, SlotsSound, TypeOK
  <2>2. AbortSlot(NatIn, arg[c], Tail(inq))
    BY <1>9, <2>1 DEF tcp_recv_cb_fin
  <2>3. OutTyped /\ TablesTyped /\ NatStep /\ TableStep
    BY <1>2, <2>1, <2>2, AbortSlotEffect
  <2> QED BY <1>9, <2>3 DEF Effect, CbTyped, tcp_recv_cb_fin
<1>10. ASSUME NEW c \in Conns, InputAck(c) PROVE Effect
  <2>1. OutTyped
    BY <1>2, <1>10, OutputType, NoOutputType DEF InputAck
  <2>2. TablesTyped /\ NatStep /\ TableStep
    BY <1>2, <1>10, KeepEffect DEF InputAck
  <2> QED BY <1>10, <2>1, <2>2 DEF Effect, InputAck, CbTyped, Quiet
<1>11. ASSUME NEW c \in Conns, InputRst(c) PROVE Effect
  <2>1. OutTyped
    BY <1>2, <1>11, NoOutputType DEF InputRst
  <2>2. TablesTyped /\ NatStep /\ TableStep
    BY <1>2, <1>11, DropEffect, ErrEffect DEF InputRst
  <2> QED BY <1>11, <2>1, <2>2 DEF Effect, InputRst, CbTyped, Quiet
<1> QED
  BY <1>3, <1>4, <1>5, <1>6, <1>7, <1>8, <1>9, <1>10, <1>11 DEF lwip_bridge_input

\* Every step of the system.
LEMMA NextEffect ==
  ASSUME TypeOK, SlotsSound, Next
  PROVE  Effect
<1>1. /\ g_nat \in NatTable
      /\ inq \in Seq(Packet)
      /\ unacked \in [Conns -> BOOLEAN]
      /\ client \in [Conns -> ClientStates]
  BY DEF TypeOK, NatTable
<1>2. CASE lwip_bridge_input
  BY <1>2, InputEffect
<1>3. ASSUME NEW c \in Conns, PollResend(c) PROVE Effect
  <2>1. OutTyped
    BY <1>1, <1>3, OutputType DEF PollResend
  <2>2. TablesTyped /\ NatStep /\ TableStep
    BY <1>1, <1>3, KeepEffect DEF PollResend, bridge
  <2> QED BY <1>3, <2>1, <2>2 DEF Effect, PollResend, CbTyped, Quiet
<1>4. ASSUME NEW c \in Conns, PollGiveUp(c) PROVE Effect
  <2>1. OutTyped
    BY <1>1, <1>4, NoOutputType DEF PollGiveUp
  <2>2. TablesTyped /\ NatStep /\ TableStep
    BY <1>1, <1>4, DropEffect, ErrEffect DEF PollGiveUp
  <2> QED BY <1>4, <2>1, <2>2 DEF Effect, PollGiveUp, CbTyped, Quiet
<1>5. ASSUME NEW s \in Slots, lwip_bridge_write(s) PROVE Effect
  <2>1. g_conns[s].pcb \in Conns
    BY <1>5 DEF lwip_bridge_write, TypeOK
  <2>2. OutTyped
    BY <1>1, <1>5, <2>1, OutputType DEF lwip_bridge_write
  <2>3. TablesTyped /\ NatStep /\ TableStep
    BY <1>1, <1>5, <2>1, KeepEffect DEF lwip_bridge_write
  <2> QED BY <1>5, <2>2, <2>3 DEF Effect, lwip_bridge_write, CbTyped, Quiet
<1>6. ASSUME NEW s \in Slots, lwip_bridge_close(s) PROVE Effect
  <2>1. OutTyped /\ TablesTyped /\ NatStep /\ TableStep
    BY <1>1, <1>6, AbortSlotEffect DEF lwip_bridge_close
  <2> QED BY <1>6, <2>1 DEF Effect, lwip_bridge_close, CbTyped, Quiet
<1>7. ASSUME NEW c \in Conns,
             ClientConnect(c) \/ ClientSend(c) \/ ClientClose(c) \/ ClientGiveUp(c)
      PROVE  Effect
  <2>1. ClientStep
    BY <1>7 DEF ClientConnect, ClientSend, ClientClose, ClientGiveUp
  <2>2. TablesTyped /\ NatStep /\ TableStep /\ CbTyped
    BY <1>1, <2>1, KeepEffect DEF ClientStep, bridge, CbTyped, Quiet
  <2>3. \A kind \in Kinds : [conn |-> c, dst |-> DcOf[c], kind |-> kind] \in Packet
    BY ConnAssumption DEF Packet
  <2>4. inq' \in Seq(Packet)
    <3>1. inq' = inq \/ \E kind \in Kinds : Send(c, kind)
      BY <1>7 DEF ClientConnect, ClientSend, ClientClose, ClientGiveUp, Kinds
    <3>2. ASSUME NEW kind \in Kinds, Send(c, kind) PROVE inq' \in Seq(Packet)
      <4>1. [conn |-> c, dst |-> DcOf[c], kind |-> kind] \in Packet
        BY <2>3
      <4> QED BY <1>1, <3>2, <4>1 DEF Send
    <3> QED BY <1>1, <3>1, <3>2
  <2>5. client' \in [Conns -> ClientStates]
    BY <1>1, <1>7 DEF ClientConnect, ClientSend, ClientClose, ClientGiveUp, ClientStates
  <2>6. OutTyped
    BY <2>1, <2>4, <2>5 DEF OutTyped, ClientStep, NoOut, OutKinds
  <2> QED BY <2>2, <2>6 DEF Effect
<1> QED
  BY <1>2, <1>3, <1>4, <1>5, <1>6, <1>7 DEF Next, lwip_bridge_poll

-----------------------------------------------------------------------------
\* Slots and pcbs stay in step, whichever of the five things happens.
LEMMA SlotsSoundStep ==
  ASSUME TypeOK, SlotsSound, TableStep
  PROVE  SlotsSound'
<1> USE DEF TypeOK, SlotsSound
<1>1. CASE Keep
  BY <1>1 DEF Keep
<1>2. ASSUME NEW c \in Conns, Alloc(c) PROVE SlotsSound'
  BY <1>2 DEF Alloc
<1>3. ASSUME NEW c \in Conns, Drop(c) PROVE SlotsSound'
  BY <1>3 DEF Drop
<1>4. ASSUME NEW c \in Conns, Release(c) PROVE SlotsSound'
  BY <1>4, ConnAssumption DEF Release, FreeSlot
<1>5. ASSUME NEW c \in Conns, NEW s \in Slots, NEW dc \in Dcs \cup {NoDc}, Accept(c, s, dc)
      PROVE  SlotsSound'
  BY <1>5, ConnAssumption DEF Accept
<1> QED BY <1>1, <1>2, <1>3, <1>4, <1>5 DEF TableStep

Safe == TypeOK /\ NatUnique /\ SlotsSound

\* Empty tables and no pcbs satisfy the invariant.
LEMMA SafeInit == Init => Safe
<1> SUFFICES ASSUME Init PROVE Safe
  OBVIOUS
<1>1. TypeOK
  BY SizeAssumption, ConnAssumption
     DEF Init, TypeOK, FreeEntry, FreeSlot, NoOut, Quiet, Slots, NatIdx, ClientStates, OutKinds
<1>2. NatUnique
  BY DEF Init, NatUnique, FreeEntry
<1>3. SlotsSound
  BY DEF Init, SlotsSound, FreeSlot
<1> QED BY <1>1, <1>2, <1>3 DEF Safe

\* Every step of bridge, lwIP and device keeps it.
LEMMA SafeStep == Safe /\ [Next]_vars => Safe'
<1> SUFFICES ASSUME Safe, [Next]_vars PROVE Safe'
  OBVIOUS
<1>1. CASE Next
  <2>1. Effect
    BY <1>1, NextEffect DEF Safe
  <2>2. TypeOK'
    BY <2>1 DEF Effect, OutTyped, TablesTyped, CbTyped, TypeOK, NatTable
  <2>3. NatUnique'
    BY <2>1 DEF Effect, NatStep, Unique, NatUnique, Safe
  <2>4. SlotsSound'
    BY <2>1, SlotsSoundStep DEF Effect, Safe
  <2> QED BY <2>2, <2>3, <2>4 DEF Safe
<1>2. CASE UNCHANGED vars
  BY <1>2 DEF vars, Safe, TypeOK, NatUnique, SlotsSound
<1> QED BY <1>1, <1>2

\* The state of the bridge, lwIP and the device stays well formed: in particular
\* no callback argument and no NAT scan ever leaves its table.
THEOREM TypeCorrect == Spec => []TypeOK
<1>1. Safe => TypeOK
  BY DEF Safe
<1> QED BY <1>1, SafeInit, SafeStep, PTL DEF Spec

\* No client port is ever twice in g_nat, so nat_remove removes it altogether.
THEOREM NatIsUnique == Spec => []NatUnique
<1>1. Safe => NatUnique
  BY DEF Safe
<1> QED BY <1>1, SafeInit, SafeStep, PTL DEF Spec

\* Active slots and accepted pcbs are in one-to-one correspondence, so a callback
\* always acts on the connection it was called for, and no freed pcb is in g_conns.
THEOREM SlotsAreSound == Spec => []SlotsSound
<1>1. Safe => SlotsSound
  BY DEF Safe
<1> QED BY <1>1, SafeInit, SafeStep, PTL DEF Spec

-----------------------------------------------------------------------------
\* A step of the tables is a step of ConnTable: SlotsSound is what makes the slot
\* of a callback the one of its own pcb, and an accepted connection new to the table.
LEMMA OwnerStep ==
  ASSUME TypeOK, SlotsSound, TableStep
  PROVE  [Table!TableNext]_Owner
<1> USE DEF TypeOK, SlotsSound
<1>1. ASSUME g_conns' = g_conns PROVE Owner' = Owner
  BY <1>1 DEF Owner
<1>2. ASSUME NEW c \in Conns, Release(c) PROVE Table!TableNext
  <2> DEFINE s == arg[c]
  <2>1. s \in Slots /\ g_conns[s].pcb = c /\ c # NoConn
    BY <1>2, ConnAssumption DEF Release
  <2>2. g_conns' = [g_conns EXCEPT ![s] = FreeSlot]
    BY <1>2 DEF Release
  <2>3. Owner' = [Owner EXCEPT ![s] = NoConn]
    BY <2>1, <2>2 DEF Owner, FreeSlot
  <2>4. Table!Release(s)
    BY <2>1, <2>3 DEF Table!Release, Owner
  <2> QED BY <2>1, <2>4 DEF Table!TableNext
<1>3. ASSUME NEW c \in Conns, NEW s \in Slots, NEW dc \in Dcs \cup {NoDc}, Accept(c, s, dc)
      PROVE  Table!TableNext
  <2>1. /\ g_conns[s].pcb = NoConn
        /\ pcb[c] = "SYN_RCVD"
        /\ g_conns' = [g_conns EXCEPT ![s] = [pcb |-> c, dc |-> dc]]
    BY <1>3 DEF Accept
  <2>2. \A t \in Slots : g_conns[t].pcb # c
    BY <2>1, ConnAssumption
  <2>3. Owner' = [Owner EXCEPT ![s] = c]
    BY <2>1 DEF Owner
  <2>4. Table!Accept(s, c)
    BY <2>1, <2>2, <2>3 DEF Table!Accept, Owner
  <2> QED BY <2>4 DEF Table!TableNext
<1> QED BY <1>1, <1>2, <1>3 DEF TableStep, Keep, Alloc, Drop

\* The bridge implements ConnTable for all sizes of its tables and pools and for
\* every behaviour of device, sessions and memory: an id is never taken from a
\* connection to be given to another within a step, nor given to two.
THEOREM BridgeImplementsConnTable == Spec => ImplementsConnTable
<1>1. Init => Table!TableInit
  BY DEF Init, Table!TableInit, Owner, FreeSlot
<1>2. Safe /\ [Next]_vars => [Table!TableNext]_Owner
  <2> SUFFICES ASSUME Safe, [Next]_vars PROVE [Table!TableNext]_Owner
    OBVIOUS
  <2>1. CASE Next
    BY <2>1, NextEffect, OwnerStep DEF Safe, Effect
  <2>2. CASE UNCHANGED vars
    BY <2>2 DEF vars, Owner
  <2> QED BY <2>1, <2>2
<1> QED
  BY <1>1, <1>2, SafeInit, SafeStep, PTL DEF Spec, ImplementsConnTable, Table!TableSpec

-----------------------------------------------------------------------------
(* The pcb pool.  LwIP never holds more than PcbPool pcbs, every active slot *)
(* holds one of them, and so a pcb in SYN_RCVD always finds a free slot.     *)

PoolBound == IsFiniteSet(Live) /\ Cardinality(Live) <= PcbPool

\* Allocation stops at the size of the pool, and everything else only frees pcbs.
LEMMA PoolStep ==
  ASSUME TypeOK, PoolBound, TableStep
  PROVE  PoolBound'
<1> USE DEF TypeOK
<1>1. ASSUME NEW c \in Conns, Alloc(c) PROVE PoolBound'
  <2>1. Live' = Live \cup {c} /\ c \notin Live
    BY <1>1 DEF Alloc, Live
  <2>2. IsFiniteSet(Live \cup {c}) /\ Cardinality(Live \cup {c}) = Cardinality(Live) + 1
    BY <2>1, FS_AddElement DEF PoolBound
  <2>3. Cardinality(Live) \in Nat /\ Cardinality(Live) < PcbPool
    BY <1>1, FS_CardinalityType DEF Alloc, PoolBound
  <2> QED BY <2>1, <2>2, <2>3, SizeAssumption DEF PoolBound
<1>2. ASSUME Live' \subseteq Live PROVE PoolBound'
  <2>1. /\ IsFiniteSet(Live')
        /\ Cardinality(Live') <= Cardinality(Live)
        /\ Cardinality(Live) \in Nat
        /\ Cardinality(Live') \in Nat
    BY <1>2, FS_Subset, FS_CardinalityType DEF PoolBound
  <2> QED BY <2>1, SizeAssumption DEF PoolBound
<1>3. CASE Keep
  BY <1>2, <1>3 DEF Keep, Live
<1>4. ASSUME NEW c \in Conns, Drop(c) \/ Release(c) PROVE PoolBound'
  BY <1>2, <1>4 DEF Drop, Release, Live
<1>5. ASSUME NEW c \in Conns, NEW s \in Slots, NEW dc \in Dcs \cup {NoDc}, Accept(c, s, dc)
      PROVE  PoolBound'
  BY <1>2, <1>5 DEF Accept, Live
<1> QED BY <1>1, <1>3, <1>4, <1>5 DEF TableStep

\* While a handshake is unfinished some slot is free, if the pool is no larger
\* than g_conns: the pcbs of active slots are distinct and none is the one waiting.
LEMMA FreeSlotForHandshake ==
  ASSUME TypeOK, SlotsSound, PoolBound, PcbPool <= MAX_CONNS,
         NEW c \in Conns, pcb[c] = "SYN_RCVD"
  PROVE  FreeSlots # {}
<1> SUFFICES ASSUME FreeSlots = {} PROVE FALSE
  OBVIOUS
<1> DEFINE f == [s \in Slots |-> g_conns[s].pcb]
           L == Live \ {c}
<1>1. \A s \in Slots : g_conns[s].pcb # NoConn
  BY DEF FreeSlots
<1>2. \A s \in Slots : f[s] \in L
  BY <1>1 DEF SlotsSound, TypeOK, Live
<1>3. \A s, t \in Slots : f[s] = f[t] => s = t
  BY <1>1 DEF SlotsSound
<1>4. f \in Injection(Slots, L)
  BY <1>2, <1>3 DEF Injection, IsInjective
<1>5. /\ IsFiniteSet(L)
      /\ Cardinality(L) = Cardinality(Live) - 1
      /\ Cardinality(Live) \in Nat
  BY FS_RemoveElement, FS_CardinalityType DEF PoolBound, Live
<1>6. Cardinality(Slots) <= Cardinality(L)
  BY <1>4, <1>5, FS_Injection
<1>7. Cardinality(Slots) = MAX_CONNS
  BY FS_Interval, SizeAssumption DEF Slots
<1> QED BY <1>5, <1>6, <1>7, SizeAssumption DEF PoolBound

\* The inductive invariant behind the rule of tcp_abort.
ContractInv == Safe /\ PoolBound /\ CallbackContract

\* With a pcb pool no larger than g_conns (32 and 64 in this build) and sessions
\* that do not close inside g_recv, a TCP callback returns ERR_ABRT exactly when
\* it has aborted its pcb: lwIP never goes on with a freed pcb.
THEOREM CallbacksKeepContract ==
  ASSUME PcbPool <= MAX_CONNS, SessionAborts = FALSE
  PROVE  Spec => []CallbackContract
<1>1. Init => ContractInv
  <2> SUFFICES ASSUME Init PROVE ContractInv
    OBVIOUS
  <2>1. Live = {}
    BY DEF Init, Live
  <2>2. PoolBound
    BY <2>1, FS_EmptySet, SizeAssumption DEF PoolBound
  <2>3. CallbackContract
    BY DEF Init, CallbackContract, Quiet
  <2> QED BY <2>2, <2>3, SafeInit DEF ContractInv
<1>2. ContractInv /\ [Next]_vars => ContractInv'
  <2> SUFFICES ASSUME ContractInv, [Next]_vars PROVE ContractInv'
    OBVIOUS
  <2>1. Safe'
    BY SafeStep DEF ContractInv
  <2>2. CASE UNCHANGED vars
    BY <2>1, <2>2 DEF vars, ContractInv, PoolBound, Live, CallbackContract
  <2>3. CASE Next
    <3>1. PoolBound'
      BY <2>3, NextEffect, PoolStep DEF ContractInv, Safe, Effect
    <3>2. ASSUME NEW c \in Conns, tcp_accept_cb(c) PROVE CallbackContract'
      <4>1. FreeSlots # {}
        BY <3>2, FreeSlotForHandshake DEF tcp_accept_cb, ContractInv, Safe
      <4> QED BY <3>2, <4>1 DEF tcp_accept_cb, CallbackContract, Quiet
    <3>3. ASSUME NEW c \in Conns, tcp_recv_cb_data(c) PROVE CallbackContract'
      BY <3>3 DEF tcp_recv_cb_data, CallbackContract, Quiet
    <3>4. ASSUME NEW c \in Conns, tcp_recv_cb_fin(c) PROVE CallbackContract'
      <4>1. g_conns[arg[c]].pcb = c
        BY <3>4 DEF tcp_recv_cb_fin, ContractInv, Safe, SlotsSound
      <4> QED BY <3>4, <4>1 DEF tcp_recv_cb_fin, CallbackContract
    <3>5. ASSUME cb' = Quiet PROVE CallbackContract'
      BY <3>5 DEF CallbackContract, Quiet
    <3>6. \/ cb' = Quiet
          \/ \E c \in Conns : tcp_accept_cb(c) \/ tcp_recv_cb_data(c) \/ tcp_recv_cb_fin(c)
      <4>1. CASE lwip_bridge_input
        BY <4>1 DEF lwip_bridge_input, InputDropped, InputSyn, InputSynAgain, InputNoPcb,
                    InputAck, InputRst
      <4>2. CASE lwip_bridge_poll
        BY <4>2 DEF lwip_bridge_poll, PollResend, PollGiveUp
      <4>3. CASE \E s \in Slots : lwip_bridge_write(s) \/ lwip_bridge_close(s)
        BY <4>3 DEF lwip_bridge_write, lwip_bridge_close
      <4>4. CASE \E c \in Conns : ClientConnect(c) \/ ClientSend(c) \/ ClientClose(c)
                                  \/ ClientGiveUp(c)
        BY <4>4 DEF ClientConnect, ClientSend, ClientClose, ClientGiveUp, ClientStep
      <4> QED BY <2>3, <4>1, <4>2, <4>3, <4>4 DEF Next
    <3>7. CallbackContract'
      BY <3>2, <3>3, <3>4, <3>5, <3>6
    <3> QED BY <2>1, <3>1, <3>7 DEF ContractInv
  <2> QED BY <2>2, <2>3
<1>3. ContractInv => CallbackContract
  BY DEF ContractInv
<1> QED BY <1>1, <1>2, <1>3, PTL DEF Spec

-----------------------------------------------------------------------------
(***************************************************************************)
(* For all sizes of the NAT table, even one that is full, and however the  *)
(* device reuses its client ports: lwip_bridge_get_dst_ip never answers    *)
(* the data centre of another connection.                                  *)
(*                                                                         *)
(* DcNeverWrong alone is not inductive.  The address that tcp_accept_cb    *)
(* looks up was stored by nat_add for the very packet that completes the   *)
(* handshake, so the queue must be known to hold no segment of a           *)
(* connection with the address of another one.  Only a RST may carry one:  *)
(* the device refuses a packet no socket expects.                          *)
(*                                                                         *)
(* The second part adds that no two connections share a client port.  Then *)
(* the address of an accepted connection is known, and its packets leave   *)
(* with it, again for every size of the table: nat_add may find no room    *)
(* for a SYN, but then the SYN-ACK goes nowhere and the handshake never    *)
(* completes.                                                              *)
(***************************************************************************)

Truthful(q) == \A i \in 1 .. Len(q) : q[i].kind # "RST" => q[i].dst = DcOf[q[i].conn]

DcInv == Safe /\ DcNeverWrong /\ Truthful(inq)

\* The queue stays truthful when its head is taken or a truthful packet is added.
LEMMA TruthfulQueue ==
  ASSUME NEW q \in Seq(Packet), Truthful(q)
  PROVE  /\ q # <<>> => Tail(q) \in Seq(Packet) /\ Truthful(Tail(q))
         /\ \A p \in Packet : (p.kind # "RST" => p.dst = DcOf[p.conn]) => Truthful(Append(q, p))
<1>1. ASSUME q # <<>> PROVE Tail(q) \in Seq(Packet) /\ Truthful(Tail(q))
  <2>1. /\ Tail(q) \in Seq(Packet)
        /\ Len(q) \in Nat
        /\ Len(Tail(q)) = Len(q) - 1
        /\ \A i \in 1 .. Len(Tail(q)) : i + 1 \in 1 .. Len(q) /\ Tail(q)[i] = q[i + 1]
    BY <1>1
  <2> QED BY <2>1 DEF Truthful
<1>2. ASSUME NEW p \in Packet, p.kind # "RST" => p.dst = DcOf[p.conn]
      PROVE  Truthful(Append(q, p))
  <2>1. \A i \in 1 .. Len(Append(q, p)) :
          Append(q, p)[i] = p \/ (i \in 1 .. Len(q) /\ Append(q, p)[i] = q[i])
    OBVIOUS
  <2> QED BY <1>2, <2>1 DEF Truthful
<1> QED BY <1>1, <1>2

\* A socket acknowledges only what comes from its DC; anything else is refused
\* with a RST.
LEMMA TruthfulOutput ==
  ASSUME NEW nat \in NatTable, NEW c \in Conns, NEW kind, NEW q \in Seq(Packet),
         Truthful(q), netif_output(nat, c, kind, q)
  PROVE  Truthful(inq')
<1> DEFINE src == nat_lookup(nat, PortOf[c])
           k == IF Reaches(c, src) THEN "ACK" ELSE "RST"
           p == [conn |-> c, dst |-> src, kind |-> k]
<1>1. src \in Dcs \cup {NoDc}
  BY NatLookup, ConnAssumption
<1>2. CASE inq' = q
  BY <1>2
<1>3. CASE src # NoDc /\ inq' = Enqueue(q, c, src, k)
  <2>1. src \in Dcs /\ k \in Kinds /\ (k # "RST" => src = DcOf[c])
    BY <1>1, <1>3 DEF Kinds, Reaches
  <2>2. inq' = Append(q, p) \/ inq' = q
    BY <1>3 DEF Enqueue
  <2> HIDE DEF src, k
  <2>3. p \in Packet /\ (p.kind # "RST" => p.dst = DcOf[p.conn])
    BY <2>1 DEF Packet
  <2> QED BY <2>2, <2>3, TruthfulQueue
<1>4. inq' = q \/ (src # NoDc /\ inq' = Enqueue(q, c, src, k))
  BY DEF netif_output, Replies
<1> QED BY <1>2, <1>3, <1>4

\* What the device sends of itself goes to the DC of the connection.
LEMMA TruthfulClient ==
  ASSUME TypeOK, Truthful(inq), NEW c \in Conns,
         ClientConnect(c) \/ ClientSend(c) \/ ClientClose(c) \/ ClientGiveUp(c)
  PROVE  Truthful(inq')
<1>1. inq' = inq \/ \E kind \in Kinds : Send(c, kind)
  BY DEF ClientConnect, ClientSend, ClientClose, ClientGiveUp, Kinds
<1>2. ASSUME NEW kind \in Kinds, Send(c, kind) PROVE Truthful(inq')
  <2> DEFINE p == [conn |-> c, dst |-> DcOf[c], kind |-> kind]
  <2>1. p \in Packet /\ p.dst = DcOf[p.conn]
    BY ConnAssumption DEF Packet
  <2>2. inq' = Append(inq, p)
    BY <1>2 DEF Send
  <2> HIDE DEF p
  <2> QED BY <2>1, <2>2, TruthfulQueue DEF TypeOK
<1> QED BY <1>1, <1>2

\* nat_add and then nat_lookup: the address just stored, or none at all.
LEMMA AddedOrNone ==
  ASSUME NEW nat \in NatTable, NEW port \in Ports, NEW dc \in Dcs
  PROVE  nat_lookup(nat_add(nat, port, dc), port) \in {dc, NoDc}
<1> DEFINE old == Matching(nat, port)
           free == Matching(nat, NoPort)
           new == nat_add(nat, port, dc)
<1>1. CASE old # {}
  <2>1. Min(old) \in NatIdx /\ nat[Min(old)].port = port
    BY <1>1, FirstMatch
  <2>2. new = [nat EXCEPT ![Min(old)] = [port |-> port, dc |-> dc]]
    BY <1>1 DEF nat_add
  <2>3. Matching(new, port) = old
    BY <2>1, <2>2 DEF Matching, NatTable
  <2>4. nat_lookup(new, port) = new[Min(old)].dc
    BY <1>1, <2>3 DEF nat_lookup
  <2>5. new[Min(old)].dc = dc
    BY <2>1, <2>2 DEF NatTable
  <2> QED BY <2>4, <2>5
<1>2. CASE old = {} /\ free # {}
  <2>1. Min(free) \in NatIdx
    BY <1>2, FirstMatch
  <2>2. new = [nat EXCEPT ![Min(free)] = [port |-> port, dc |-> dc]]
    BY <1>2 DEF nat_add
  <2>3. \A i \in NatIdx : nat[i].port # port
    BY <1>2 DEF Matching
  <2>4. \A i \in Matching(new, port) : new[i].dc = dc
    BY <2>1, <2>2, <2>3 DEF Matching, NatTable
  <2>5. Matching(new, port) # {} => Min(Matching(new, port)) \in Matching(new, port)
    <3>1. Matching(new, port) \in SUBSET Nat
      BY SizeAssumption DEF Matching, NatIdx
    <3> QED BY <3>1, MinExists
  <2> QED BY <2>4, <2>5 DEF nat_lookup
<1>3. CASE old = {} /\ free = {}
  BY <1>3 DEF nat_add, nat_lookup
<1> QED BY <1>1, <1>2, <1>3

\* The accept callback looks up what its own packet has just stored.
LEMMA DcAccepted ==
  ASSUME DcInv, NEW c \in Conns, tcp_accept_cb(c)
  PROVE  DcNeverWrong'
<1> DEFINE slot == Min(FreeSlots)
           dc == nat_lookup(NatIn, PortOf[c])
<1> USE DEF DcInv, Safe, TypeOK
<1>1. dc \in {DcOf[c], NoDc}
  <2>1. inq # <<>> /\ Head(inq).conn = c /\ Head(inq).kind # "RST"
    BY DEF tcp_accept_cb, Arrives
  <2>2. Len(inq) > 0 /\ Head(inq) = inq[1]
    BY <2>1
  <2>3. Head(inq).dst = DcOf[c]
    BY <2>1, <2>2 DEF Truthful
  <2> QED BY <2>1, <2>3, AddedOrNone, ConnAssumption DEF NatIn, NatTable
<1>2. CASE UNCHANGED g_conns
  BY <1>2 DEF DcNeverWrong
<1>3. CASE FreeSlots # {} /\ g_conns' = [g_conns EXCEPT ![slot] = [pcb |-> c, dc |-> dc]]
  <2> HIDE DEF slot, dc
  <2> QED BY <1>1, <1>3 DEF DcNeverWrong
<1> QED BY <1>2, <1>3 DEF tcp_accept_cb

\* Every other step keeps a slot as it is or clears it.
LEMMA DcKept ==
  ASSUME DcInv, \A s \in Slots : g_conns'[s] = g_conns[s] \/ g_conns'[s] = FreeSlot
  PROVE  DcNeverWrong'
BY DEF DcInv, DcNeverWrong, FreeSlot

\* The connection id a session holds never leads it to the DC of another
\* connection: lwip_bridge_get_dst_ip answers the right address or 0.
THEOREM DcIsNeverWrong == Spec => []DcNeverWrong
<1>1. Init => DcInv
  <2> SUFFICES ASSUME Init PROVE DcInv
    OBVIOUS
  <2>1. DcNeverWrong /\ Truthful(inq)
    BY DEF Init, DcNeverWrong, FreeSlot, Truthful
  <2> QED BY <2>1, SafeInit DEF DcInv
<1>2. DcInv /\ [Next]_vars => DcInv'
  <2> SUFFICES ASSUME DcInv, [Next]_vars PROVE DcInv'
    OBVIOUS
  <2> DEFINE Kept == \A s \in Slots : g_conns'[s] = g_conns[s] \/ g_conns'[s] = FreeSlot
             Good == DcNeverWrong' /\ Truthful(inq)'
  <2>1. Safe'
    BY SafeStep DEF DcInv
  <2>2. /\ inq \in Seq(Packet) /\ Truthful(inq) /\ g_nat \in NatTable
        /\ g_conns \in [Slots -> [pcb : Conns \cup {NoConn}, dc : Dcs \cup {NoDc}]]
        /\ arg \in [Conns -> Slots]
    BY DEF DcInv, Safe, TypeOK, NatTable
  <2>3. inq # <<>> =>
          Tail(inq) \in Seq(Packet) /\ Truthful(Tail(inq)) /\ NatIn \in NatTable
    BY <2>2, TruthfulQueue, ArrivalType DEF DcInv, Safe
  <2>4. Kept => DcNeverWrong'
    BY DcKept
  <2>5. ASSUME NEW s \in Slots, NEW nat \in NatTable, NEW q \in Seq(Packet), Truthful(q),
               g_conns[s].pcb # NoConn, AbortSlot(nat, s, q)
        PROVE  Good
    <3>1. g_conns[s].pcb \in Conns /\ PortOf[g_conns[s].pcb] \in Ports
      BY <2>2, <2>5, ConnAssumption
    <3>2. nat_remove(nat, PortOf[g_conns[s].pcb]) \in NatTable
      BY <2>5, <3>1, NatRemove
    <3>3. Truthful(inq')
      BY <2>5, <3>1, <3>2, TruthfulOutput DEF AbortSlot
    <3>4. Kept
      BY <2>2, <2>5 DEF AbortSlot
    <3> QED BY <2>4, <3>3, <3>4 DEF Truthful
  <2>6. ASSUME NEW c \in Conns, tcp_accept_cb(c) PROVE Good
    <3>1. inq # <<>>
      BY <2>6 DEF tcp_accept_cb, Arrives
    <3>2. Truthful(inq')
      BY <2>2, <2>3, <2>6, <3>1, TruthfulOutput DEF tcp_accept_cb, NoOutput
    <3> QED BY <2>6, <3>2, DcAccepted DEF Truthful
  <2>7. ASSUME NEW c \in Conns,
               \/ InputSyn(c) \/ InputSynAgain(c) \/ InputNoPcb(c) \/ InputAck(c)
        PROVE  Good
    <3>1. inq # <<>> /\ Kept
      BY <2>7 DEF InputSyn, InputSynAgain, InputNoPcb, InputAck, Arrives
    <3>2. \/ inq' = Tail(inq)
          \/ \E kind : netif_output(NatIn, c, kind, Tail(inq))
      BY <2>7 DEF InputSyn, InputSynAgain, InputNoPcb, InputAck, NoOutput
    <3>3. Truthful(inq')
      BY <2>3, <3>1, <3>2, TruthfulOutput
    <3> QED BY <2>4, <3>1, <3>3 DEF Truthful
  <2>8. ASSUME NEW c \in Conns, tcp_recv_cb_data(c) \/ tcp_recv_cb_fin(c) PROVE Good
    <3>1. inq # <<>> /\ arg[c] \in Slots
      BY <2>2, <2>8 DEF tcp_recv_cb_data, tcp_recv_cb_fin, Arrives
    <3>2. CASE g_conns[arg[c]].pcb # NoConn /\ AbortSlot(NatIn, arg[c], Tail(inq))
      BY <2>3, <2>5, <3>1, <3>2
    <3>3. CASE UNCHANGED g_conns /\ (inq' = Tail(inq) \/ netif_output(NatIn, c, "ACK", Tail(inq)))
      <4>1. Truthful(inq')
        BY <2>3, <3>1, <3>3, TruthfulOutput
      <4> QED BY <2>4, <3>3, <4>1 DEF Truthful
    <3> QED BY <2>8, <3>2, <3>3 DEF tcp_recv_cb_data, tcp_recv_cb_fin, NoOutput
  <2>9. ASSUME NEW c \in Conns, InputRst(c) \/ PollGiveUp(c) PROVE Good
    <3>1. inq' = inq \/ (inq # <<>> /\ inq' = Tail(inq))
      BY <2>9 DEF InputRst, PollGiveUp, NoOutput, Arrives
    <3>2. Kept
      BY <2>2, <2>9 DEF InputRst, PollGiveUp, tcp_err_cb
    <3> QED BY <2>2, <2>3, <2>4, <3>1, <3>2 DEF Truthful
  <2>10. ASSUME NEW c \in Conns, PollResend(c) PROVE Good
    <3>1. Kept
      BY <2>10 DEF PollResend, bridge
    <3>2. Truthful(inq')
      BY <2>2, <2>10, TruthfulOutput DEF PollResend
    <3> QED BY <2>4, <3>1, <3>2 DEF Truthful
  <2>11. ASSUME InputDropped PROVE Good
    <3>1. inq # <<>> /\ inq' = Tail(inq) /\ Kept
      BY <2>11 DEF InputDropped, NoOutput
    <3> QED BY <2>3, <2>4, <3>1 DEF Truthful
  <2>12. ASSUME NEW s \in Slots, lwip_bridge_write(s) PROVE Good
    <3>1. g_conns[s].pcb \in Conns
      BY <2>2, <2>12 DEF lwip_bridge_write
    <3>2. Truthful(inq') /\ Kept
      BY <2>2, <2>12, <3>1, TruthfulOutput DEF lwip_bridge_write
    <3> QED BY <2>4, <3>2 DEF Truthful
  <2>13. ASSUME NEW s \in Slots, lwip_bridge_close(s) PROVE Good
    BY <2>2, <2>5, <2>13 DEF lwip_bridge_close
  <2>14. ASSUME NEW c \in Conns,
                ClientConnect(c) \/ ClientSend(c) \/ ClientClose(c) \/ ClientGiveUp(c)
         PROVE  Good
    <3>1. Truthful(inq')
      BY <2>2, <2>14, TruthfulClient DEF DcInv, Safe
    <3>2. Kept
      BY <2>14 DEF ClientConnect, ClientSend, ClientClose, ClientGiveUp, ClientStep, bridge
    <3> QED BY <2>4, <3>1, <3>2 DEF Truthful
  <2>15. ASSUME UNCHANGED vars PROVE Good
    BY <2>2, <2>4, <2>15 DEF vars, Truthful
  <2>16. Next => Good
    <3>1. lwip_bridge_input => Good
      BY <2>6, <2>7, <2>8, <2>9, <2>11 DEF lwip_bridge_input
    <3>2. lwip_bridge_poll => Good
      BY <2>9, <2>10 DEF lwip_bridge_poll
    <3> QED BY <2>12, <2>13, <2>14, <3>1, <3>2 DEF Next
  <2> QED BY <2>1, <2>15, <2>16 DEF DcInv
<1>3. DcInv => DcNeverWrong
  BY DEF DcInv
<1> QED BY <1>1, <1>2, <1>3, PTL DEF Spec

-----------------------------------------------------------------------------
(* Client ports used once                                                  *)
(*                                                                         *)
(* A connection whose port no other one uses always gets its DC, whatever  *)
(* the size of the NAT table and however full it is.  The mapping of such  *)
(* a port is removed only by the end of its accepted pcb.  A full table    *)
(* may refuse it when the SYN comes, but then the SYN-ACK has no source    *)
(* the device knows, and no segment that could be accepted follows.  What  *)
(* could go wrong is a late copy of the SYN: it opens a pcb again after    *)
(* the mapping is gone.  The queue keeps it in front of every segment, so  *)
(* it is handled before the first pcb is accepted.                         *)

PortsOnce == \A c, d \in Conns : PortOf[c] = PortOf[d] => c = d

Segments == {"ACK", "DATA", "FIN"}
InQ(q, c, kinds) == \E i \in 1 .. Len(q) : q[i].conn = c /\ q[i].kind \in kinds
AllTrue(q) == \A i \in 1 .. Len(q) : q[i].dst = DcOf[q[i].conn]
SynFirst(q) ==
  \A i, j \in 1 .. Len(q) :
    q[i].kind = "SYN" /\ q[j].kind \in Segments /\ q[i].conn = q[j].conn => i < j

Mapped(nat, c) == Matching(nat, PortOf[c]) # {}
NatTrue(nat) == \A i \in NatIdx, c \in Conns : nat[i].port = PortOf[c] => nat[i].dc = DcOf[c]

\* The device's socket has been answered, or has given up.
Began(c) == client[c] \notin {"idle", "syn_sent"}
Talking(c) == client[c] \in {"estab", "closing"}

\* Segments come from sockets that got the SYN-ACK; an accepted connection has no
\* SYN on its way; and whoever can still be accepted has its mapping.
Ordered(c) ==
  /\ InQ(inq, c, Segments) \/ pcb[c] = "ESTABLISHED" => Began(c)
  /\ pcb[c] = "ESTABLISHED" => ~InQ(inq, c, {"SYN"}) /\ Mapped(g_nat, c)
  /\ /\ Talking(c) \/ InQ(inq, c, Segments)
     /\ pcb[c] # "none" \/ InQ(inq, c, {"SYN"})
     => Mapped(g_nat, c)

Handshakes == NatTrue(g_nat) /\ AllTrue(inq) /\ SynFirst(inq) /\ \A c \in Conns : Ordered(c)

\* nat_add of the own DC keeps every mapping and stores no wrong address.
LEMMA AddTrue ==
  ASSUME PortsOnce, NEW nat \in NatTable, NatTrue(nat), NEW c \in Conns
  PROVE  LET new == nat_add(nat, PortOf[c], DcOf[c]) IN
         NatTrue(new) /\ \A d \in Conns : Mapped(nat, d) => Mapped(new, d)
<1> DEFINE port == PortOf[c]
           e == [port |-> port, dc |-> DcOf[c]]
           new == nat_add(nat, port, DcOf[c])
<1>1. port \in Ports /\ DcOf[c] \in Dcs /\ NoPort \notin Ports /\ e.port = port /\ e.dc = DcOf[c]
  BY ConnAssumption
<1>2. ASSUME NEW i \in NatIdx, nat[i].port \in {port, NoPort}, new = [nat EXCEPT ![i] = e]
      PROVE  NatTrue(new) /\ \A d \in Conns : Mapped(nat, d) => Mapped(new, d)
  <2> HIDE DEF e, new, port
  <2>1. new[i] = e /\ \A k \in NatIdx \ {i} : new[k] = nat[k]
    BY <1>2 DEF NatTable
  <2>2. \A d \in Conns : e.port = PortOf[d] => e.dc = DcOf[d]
    BY <1>1 DEF PortsOnce, port
  <2>3. NatTrue(new)
    BY <2>1, <2>2 DEF NatTrue
  <2>4. ASSUME NEW d \in Conns, Mapped(nat, d) PROVE Mapped(new, d)
    <3>1. PICK k \in NatIdx : nat[k].port = PortOf[d]
      BY <2>4 DEF Mapped, Matching
    <3>2. CASE k # i
      <4>1. new[k].port = PortOf[d]
        BY <2>1, <3>1, <3>2
      <4> QED BY <4>1 DEF Mapped, Matching
    <3>3. CASE k = i
      <4>1. PortOf[d] \in Ports
        BY ConnAssumption
      <4>2. PortOf[d] = port
        BY <1>1, <1>2, <3>1, <3>3, <4>1
      <4>3. new[i].port = PortOf[d]
        BY <1>1, <2>1, <4>2
      <4> QED BY <4>3 DEF Mapped, Matching
    <3> QED BY <3>2, <3>3
  <2> QED BY <2>3, <2>4
<1>3. CASE Matching(nat, port) # {}
  <2>1. Min(Matching(nat, port)) \in NatIdx /\ nat[Min(Matching(nat, port))].port = port
    BY <1>3, FirstMatch
  <2>2. new = [nat EXCEPT ![Min(Matching(nat, port))] = e]
    BY <1>3 DEF nat_add
  <2> QED BY <1>2, <2>1, <2>2
<1>4. CASE Matching(nat, port) = {} /\ Matching(nat, NoPort) # {}
  <2>1. Min(Matching(nat, NoPort)) \in NatIdx /\ nat[Min(Matching(nat, NoPort))].port = NoPort
    BY <1>4, FirstMatch
  <2>2. new = [nat EXCEPT ![Min(Matching(nat, NoPort))] = e]
    BY <1>4 DEF nat_add
  <2> QED BY <1>2, <2>1, <2>2
<1>5. CASE Matching(nat, port) = {} /\ Matching(nat, NoPort) = {}
  BY <1>5 DEF nat_add
<1> QED BY <1>3, <1>4, <1>5

\* nat_remove keeps the mappings of the other connections.
LEMMA RemoveTrue ==
  ASSUME PortsOnce, NEW nat \in NatTable, NatTrue(nat), NEW c \in Conns
  PROVE  LET new == nat_remove(nat, PortOf[c]) IN
         NatTrue(new) /\ \A d \in Conns \ {c} : Mapped(nat, d) => Mapped(new, d)
<1> DEFINE port == PortOf[c]
           new == nat_remove(nat, port)
           i == Min(Matching(nat, port))
<1>1. CASE Matching(nat, port) # {}
  <2>1. i \in NatIdx /\ nat[i].port = port
    BY <1>1, FirstMatch
  <2>2. new = [nat EXCEPT ![i] = FreeEntry]
    BY <1>1 DEF nat_remove
  <2>3. FreeEntry.port = NoPort /\ \A d \in Conns : PortOf[d] # NoPort
    BY ConnAssumption DEF FreeEntry
  <2>4. \A d \in Conns \ {c} : PortOf[d] # port
    BY DEF PortsOnce
  <2> HIDE DEF i, new, port
  <2>5. new[i] = FreeEntry /\ \A k \in NatIdx \ {i} : new[k] = nat[k]
    BY <2>1, <2>2 DEF NatTable
  <2>6. NatTrue(new)
    BY <2>3, <2>5 DEF NatTrue
  <2>7. ASSUME NEW d \in Conns \ {c}, Mapped(nat, d) PROVE Mapped(new, d)
    <3>1. PICK k \in NatIdx : nat[k].port = PortOf[d]
      BY <2>7 DEF Mapped, Matching
    <3>2. k # i
      BY <2>1, <2>4, <3>1
    <3>3. new[k].port = PortOf[d]
      BY <2>5, <3>1, <3>2
    <3> QED BY <3>3 DEF Mapped, Matching
  <2> QED BY <2>6, <2>7 DEF new, port
<1>2. CASE Matching(nat, port) = {}
  BY <1>2 DEF nat_remove
<1> QED BY <1>1, <1>2

\* What nat_lookup answers in a truthful table.
LEMMA LookupTrue ==
  ASSUME NEW nat \in NatTable, NatTrue(nat), NEW c \in Conns
  PROVE  /\ Mapped(nat, c) => nat_lookup(nat, PortOf[c]) = DcOf[c]
         /\ ~Mapped(nat, c) => nat_lookup(nat, PortOf[c]) = NoDc
<1>1. CASE Mapped(nat, c)
  <2> DEFINE i == Min(Matching(nat, PortOf[c]))
  <2>1. Matching(nat, PortOf[c]) # {}
    BY <1>1 DEF Mapped
  <2>2. i \in NatIdx /\ nat[i].port = PortOf[c]
    BY <2>1, FirstMatch
  <2>3. nat_lookup(nat, PortOf[c]) = nat[i].dc
    BY <2>1 DEF nat_lookup
  <2> QED BY <1>1, <2>2, <2>3 DEF NatTrue
<1>2. CASE ~Mapped(nat, c)
  BY <1>2 DEF Mapped, nat_lookup
<1> QED BY <1>1, <1>2

\* The first packet leaves the queue.
LEMMA QueueTail ==
  ASSUME NEW q \in Seq(Packet), q # <<>>, AllTrue(q), SynFirst(q)
  PROVE  /\ Tail(q) \in Seq(Packet) /\ AllTrue(Tail(q)) /\ SynFirst(Tail(q))
         /\ \A c, kinds : InQ(Tail(q), c, kinds) => InQ(q, c, kinds)
<1>1. /\ Tail(q) \in Seq(Packet)
      /\ Len(q) \in Nat
      /\ Len(Tail(q)) = Len(q) - 1
      /\ \A i \in 1 .. Len(Tail(q)) : i + 1 \in 1 .. Len(q) /\ Tail(q)[i] = q[i + 1]
  OBVIOUS
<1>2. AllTrue(Tail(q))
  BY <1>1 DEF AllTrue
<1>3. SynFirst(Tail(q))
  <2> SUFFICES ASSUME NEW i \in 1 .. Len(Tail(q)), NEW j \in 1 .. Len(Tail(q)),
                      Tail(q)[i].kind = "SYN", Tail(q)[j].kind \in Segments,
                      Tail(q)[i].conn = Tail(q)[j].conn
               PROVE  i < j
    BY DEF SynFirst
  <2>1. i + 1 < j + 1
    BY <1>1 DEF SynFirst
  <2> QED BY <1>1, <2>1
<1>4. \A c, kinds : InQ(Tail(q), c, kinds) => InQ(q, c, kinds)
  BY <1>1 DEF InQ
<1> QED BY <1>1, <1>2, <1>3, <1>4

\* A packet joins the queue; a SYN only if no segment of its connection is in it.
LEMMA QueueAppend ==
  ASSUME NEW q \in Seq(Packet), AllTrue(q), SynFirst(q), NEW p \in Packet,
         p.dst = DcOf[p.conn], p.kind = "SYN" => ~InQ(q, p.conn, Segments)
  PROVE  /\ AllTrue(Append(q, p)) /\ SynFirst(Append(q, p))
         /\ \A c, kinds : InQ(Append(q, p), c, kinds) =>
              InQ(q, c, kinds) \/ (p.conn = c /\ p.kind \in kinds)
<1> DEFINE r == Append(q, p)
<1>1. /\ Len(q) \in Nat /\ Len(r) = Len(q) + 1
      /\ r[Len(q) + 1] = p /\ \A i \in 1 .. Len(q) : r[i] = q[i]
  OBVIOUS
<1> HIDE DEF r
<1>2. \A i \in 1 .. Len(r) : i \in 1 .. Len(q) \/ i = Len(q) + 1
  BY <1>1
<1>3. AllTrue(r)
  BY <1>1, <1>2 DEF AllTrue
<1>4. SynFirst(r)
  <2> SUFFICES ASSUME NEW i \in 1 .. Len(r), NEW j \in 1 .. Len(r),
                      r[i].kind = "SYN", r[j].kind \in Segments, r[i].conn = r[j].conn
               PROVE  i < j
    BY DEF SynFirst
  <2>1. CASE i \in 1 .. Len(q) /\ j \in 1 .. Len(q)
    BY <1>1, <2>1 DEF SynFirst
  <2>2. CASE i = Len(q) + 1 /\ j \in 1 .. Len(q)
    BY <1>1, <2>2 DEF InQ
  <2>3. CASE i \in 1 .. Len(q) /\ j = Len(q) + 1
    BY <1>1, <2>3
  <2>4. CASE i = Len(q) + 1 /\ j = Len(q) + 1
    BY <1>1, <2>4 DEF Segments
  <2> QED BY <1>2, <2>1, <2>2, <2>3, <2>4
<1>5. \A c, kinds : InQ(r, c, kinds) => InQ(q, c, kinds) \/ (p.conn = c /\ p.kind \in kinds)
  BY <1>1, <1>2 DEF InQ
<1> QED BY <1>3, <1>4, <1>5 DEF r
-----------------------------------------------------------------------------
\* What is left of the queue when the packet of a step is out of it, or all of it.
Rest(q) ==
  /\ q \in Seq(Packet) /\ AllTrue(q) /\ SynFirst(q)
  /\ \A c, kinds : InQ(q, c, kinds) => InQ(inq, c, kinds)

\* What a step may do to the queue and to the sockets of the device: no SYN of a
\* socket that began to talk, and a socket begins to talk only when it is mapped.
Traffic ==
  /\ AllTrue(inq') /\ SynFirst(inq')
  /\ \A d \in Conns : InQ(inq', d, {"SYN"}) => InQ(inq, d, {"SYN"}) \/ ~Began(d)
  /\ \A d \in Conns : InQ(inq', d, Segments) =>
       InQ(inq, d, Segments) \/ Talking(d) \/ (Began(d)' /\ Mapped(g_nat', d))
  /\ \A d \in Conns : Talking(d)' => Talking(d) \/ Mapped(g_nat', d)
  /\ \A d \in Conns : Began(d) => Began(d)'
  /\ \/ out'.conn = NoConn
     \/ out'.conn \in Conns /\ out'.src = nat_lookup(g_nat', PortOf[out'.conn])

\* What a step may do to the tables: a mapping goes only with its accepted pcb, a
\* pcb comes from a SYN, and a segment completes the handshake.
Tables ==
  /\ NatTrue(g_nat')
  /\ \A d \in Conns : Mapped(g_nat, d) =>
       Mapped(g_nat', d) \/ (pcb[d] = "ESTABLISHED" /\ pcb'[d] = "none")
  /\ \A d \in Conns : pcb'[d] # "none" => pcb[d] # "none" \/ InQ(inq, d, {"SYN"})
  /\ \A d \in Conns : pcb'[d] = "ESTABLISHED" =>
       \/ pcb[d] = "ESTABLISHED"
       \/ /\ pcb[d] = "SYN_RCVD" /\ Len(inq) > 0
          /\ inq[1].conn = d /\ inq[1].kind \in Segments

\* With such traffic and such tables the handshakes stay in order.
LEMMA HandshakesKept ==
  ASSUME TypeOK, Handshakes, Traffic, Tables
  PROVE  Handshakes'
<1> SUFFICES ASSUME NEW c \in Conns PROVE Ordered(c)'
  BY DEF Handshakes, Traffic, Tables
<1>1. Ordered(c) /\ (Talking(c) => Began(c))
  BY DEF Handshakes, Talking, Began
<1>2. ASSUME pcb[c] = "SYN_RCVD", Len(inq) > 0, inq[1].conn = c, inq[1].kind \in Segments
      PROVE  InQ(inq, c, Segments) /\ ~InQ(inq, c, {"SYN"})
  <2>1. Len(inq) \in Nat
    BY DEF TypeOK
  <2>2. 1 \in 1 .. Len(inq)
    BY <1>2, <2>1
  <2>3. InQ(inq, c, Segments)
    BY <1>2, <2>2 DEF InQ
  <2>4. \A i \in 1 .. Len(inq) : inq[i].conn = c /\ inq[i].kind = "SYN" => i < 1
    BY <1>2, <2>2 DEF Handshakes, SynFirst
  <2> QED BY <2>1, <2>3, <2>4 DEF InQ
<1>3. InQ(inq', c, Segments) \/ pcb'[c] = "ESTABLISHED" => Began(c)'
  <2>1. InQ(inq', c, Segments) =>
          InQ(inq, c, Segments) \/ Talking(c) \/ (Began(c)' /\ Mapped(g_nat', c))
    BY DEF Traffic
  <2>2. pcb'[c] = "ESTABLISHED" => pcb[c] = "ESTABLISHED" \/ InQ(inq, c, Segments)
    BY <1>2 DEF Tables
  <2>3. Began(c) => Began(c)'
    BY DEF Traffic
  <2> QED BY <1>1, <2>1, <2>2, <2>3 DEF Ordered
<1>4. pcb'[c] = "ESTABLISHED" => ~InQ(inq', c, {"SYN"})
  <2>1. pcb'[c] = "ESTABLISHED" => ~InQ(inq, c, {"SYN"}) /\ Began(c)
    BY <1>1, <1>2 DEF Tables, Ordered
  <2>2. InQ(inq', c, {"SYN"}) => InQ(inq, c, {"SYN"}) \/ ~Began(c)
    BY DEF Traffic
  <2> QED BY <2>1, <2>2
<1>5. Mapped(g_nat, c) => Mapped(g_nat', c) \/ (pcb[c] = "ESTABLISHED" /\ pcb'[c] = "none")
  BY DEF Tables
<1>6. pcb'[c] = "ESTABLISHED" => Mapped(g_nat', c)
  <2>1. pcb'[c] = "ESTABLISHED" => Mapped(g_nat, c)
    BY <1>1, <1>2 DEF Tables, Ordered
  <2> QED BY <1>5, <2>1
<1>7. ASSUME Talking(c)' \/ InQ(inq', c, Segments), pcb'[c] # "none" \/ InQ(inq', c, {"SYN"})
      PROVE  Mapped(g_nat', c)
  <2>1. Mapped(g_nat', c) \/ Talking(c) \/ InQ(inq, c, Segments)
    BY <1>7 DEF Traffic
  <2>2. Talking(c) \/ InQ(inq, c, Segments) => Began(c)
    BY <1>1 DEF Ordered
  <2>3. CASE Talking(c) \/ InQ(inq, c, Segments)
    <3>1. InQ(inq', c, {"SYN"}) => InQ(inq, c, {"SYN"})
      BY <2>2, <2>3 DEF Traffic
    <3>2. pcb'[c] # "none" => pcb[c] # "none" \/ InQ(inq, c, {"SYN"})
      BY DEF Tables
    <3>3. pcb[c] # "none" \/ InQ(inq, c, {"SYN"})
      BY <1>7, <3>1, <3>2
    <3>4. Mapped(g_nat, c)
      BY <1>1, <2>3, <3>3 DEF Ordered
    <3>5. ~(pcb[c] = "ESTABLISHED" /\ pcb'[c] = "none")
      BY <1>1, <1>7, <3>1 DEF Ordered
    <3> QED BY <1>5, <3>4, <3>5
  <2> QED BY <2>1, <2>3
<1> QED BY <1>3, <1>4, <1>6, <1>7 DEF Ordered

\* netif_output: the SYN-ACK reaches the socket only through its mapping, and so
\* does everything the socket acknowledges.
LEMMA OutputTraffic ==
  ASSUME TypeOK, NEW c \in Conns, NEW kind \in {"SYNACK", "ACK", "DATA", "RST"}, NEW q, Rest(q),
         g_nat' \in NatTable, NatTrue(g_nat'), netif_output(g_nat', c, kind, q),
         kind \in {"SYNACK", "RST"} \/ Began(c)
  PROVE  Traffic
<1> DEFINE src == nat_lookup(g_nat', PortOf[c])
           p(k) == [conn |-> c, dst |-> src, kind |-> k]
<1>1. src = IF Mapped(g_nat', c) THEN DcOf[c] ELSE NoDc
  BY LookupTrue
<1>2. client \in [Conns -> ClientStates] /\ DcOf[c] \in Dcs /\ NoDc \notin Dcs /\ q \in Seq(Packet)
  BY ConnAssumption DEF TypeOK, Rest
<1>3. CASE /\ out' = [conn |-> c, kind |-> kind, src |-> src]
           /\ client' = IF Reaches(c, src)
                        THEN [client EXCEPT ![c] = ClientAfter(c, kind)] ELSE client
           /\ inq' = Replies(q, c, kind, src)
  <2> HIDE DEF src
  <2>1. \A d \in Conns \ {c} : client'[d] = client[d]
    BY <1>2, <1>3
  <2>2. \/ client'[c] = client[c]
        \/ client'[c] = "closed"
        \/ client'[c] = "estab" /\ kind = "SYNACK" /\ client[c] = "syn_sent" /\ Mapped(g_nat', c)
    BY <1>1, <1>2, <1>3 DEF ClientAfter, Reaches
  <2>3. \A d \in Conns : Talking(d)' => Talking(d) \/ Mapped(g_nat', d)
    BY <2>1, <2>2 DEF Talking
  <2>4. \A d \in Conns : Began(d) => Began(d)'
    BY <2>1, <2>2 DEF Began
  <2>5. \/ inq' = q
        \/ inq' = Append(q, p("RST")) /\ Mapped(g_nat', c)
        \/ inq' = Append(q, p("ACK")) /\ Mapped(g_nat', c) /\ Began(c)'
    <3>1. CASE kind = "RST" \/ src = NoDc
      BY <1>3, <3>1 DEF Replies
    <3>2. CASE ~(kind = "RST" \/ src = NoDc) /\ Reaches(c, src)
      <4>1. Mapped(g_nat', c)
        BY <1>1, <3>2
      <4>2. inq' = q \/ inq' = Append(q, p("ACK"))
        BY <1>3, <3>2 DEF Replies, Enqueue
      <4>3. Began(c)'
        <5>1. CASE Began(c)
          BY <2>4, <5>1
        <5>2. CASE ~Began(c)
          <6>1. kind = "SYNACK" /\ client[c] = "syn_sent"
            BY <3>2, <5>2 DEF Began, Reaches, Open
          <6>2. client'[c] = "estab"
            BY <1>2, <1>3, <3>2, <6>1 DEF ClientAfter
          <6> QED BY <6>2 DEF Began
        <5> QED BY <5>1, <5>2
      <4> QED BY <4>1, <4>2, <4>3
    <3>3. CASE ~(kind = "RST" \/ src = NoDc) /\ ~Reaches(c, src)
      <4>1. Mapped(g_nat', c)
        BY <1>1, <3>3
      <4> QED BY <1>3, <3>3, <4>1 DEF Replies, Enqueue
    <3> QED BY <3>1, <3>2, <3>3
  <2>6. ASSUME NEW k \in {"ACK", "RST"}, Mapped(g_nat', c), inq' = Append(q, p(k))
        PROVE  /\ AllTrue(inq') /\ SynFirst(inq')
               /\ \A d, kinds : InQ(inq', d, kinds) => InQ(q, d, kinds) \/ (c = d /\ k \in kinds)
    <3>1. p(k) \in Packet /\ p(k).conn = c /\ p(k).kind = k /\ p(k).dst = DcOf[c] /\ k # "SYN"
      BY <1>1, <1>2, <2>6 DEF Packet, Kinds
    <3> HIDE DEF p
    <3> QED BY <1>2, <2>6, <3>1, QueueAppend DEF Rest
  <2>7. AllTrue(inq') /\ SynFirst(inq')
    BY <2>5, <2>6 DEF Rest
  <2>8. \A d \in Conns : InQ(inq', d, {"SYN"}) => InQ(inq, d, {"SYN"}) \/ ~Began(d)
    <3>1. \A d \in Conns : InQ(inq', d, {"SYN"}) => InQ(q, d, {"SYN"})
      BY <2>5, <2>6
    <3> QED BY <3>1 DEF Rest
  <2>9. \A d \in Conns : InQ(inq', d, Segments) =>
          InQ(inq, d, Segments) \/ Talking(d) \/ (Began(d)' /\ Mapped(g_nat', d))
    <3>1. \A d \in Conns : InQ(inq', d, Segments) =>
            InQ(q, d, Segments) \/ (Began(d)' /\ Mapped(g_nat', d))
      <4>1. "RST" \notin Segments
        BY DEF Segments
      <4> QED BY <2>5, <2>6, <4>1
    <3> QED BY <3>1 DEF Rest
  <2>10. out'.conn \in Conns /\ out'.src = nat_lookup(g_nat', PortOf[out'.conn])
    BY <1>3 DEF src
  <2> QED BY <2>3, <2>4, <2>7, <2>8, <2>9, <2>10 DEF Traffic
<1>4. CASE out' = NoOut /\ client' = client /\ inq' = q
  BY <1>4 DEF Traffic, Rest, NoOut, Began, Talking
<1> QED BY <1>3, <1>4 DEF netif_output

\* Nothing goes out.
LEMMA SilentTraffic ==
  ASSUME NEW q, Rest(q), NoOutput(q)
  PROVE  Traffic
BY DEF NoOutput, Traffic, Rest, NoOut, Began, Talking
\* The device sends a SYN only before it talks, and segments only while it talks.
LEMMA ClientTraffic ==
  ASSUME TypeOK, Handshakes, NEW c \in Conns,
         ClientConnect(c) \/ ClientSend(c) \/ ClientClose(c) \/ ClientGiveUp(c)
  PROVE  Traffic
<1> DEFINE p(k) == [conn |-> c, dst |-> DcOf[c], kind |-> k]
<1>1. inq \in Seq(Packet) /\ AllTrue(inq) /\ SynFirst(inq) /\ client \in [Conns -> ClientStates]
  BY DEF TypeOK, Handshakes
<1>2. out' = NoOut
  BY DEF ClientConnect, ClientSend, ClientClose, ClientGiveUp, ClientStep
<1>3. \A d \in Conns \ {c} : client'[d] = client[d]
  BY <1>1 DEF ClientConnect, ClientSend, ClientClose, ClientGiveUp
<1>4. /\ Talking(c)' => Talking(c)
      /\ Began(c) => Began(c)'
  BY <1>1 DEF ClientConnect, ClientSend, ClientClose, ClientGiveUp, Talking, Began
<1>5. \/ inq' = inq
      \/ \E k \in Kinds : /\ inq' = Append(inq, p(k))
                          /\ k = "SYN" => ~Began(c)
                          /\ k \in Segments => Talking(c)
  BY DEF ClientConnect, ClientSend, ClientClose, ClientGiveUp, Send, Kinds, Segments, Talking, Began
<1>6. CASE inq' = inq
  BY <1>1, <1>2, <1>3, <1>4, <1>6 DEF Traffic, NoOut, Talking, Began
<1>7. ASSUME NEW k \in Kinds, inq' = Append(inq, p(k)),
             k = "SYN" => ~Began(c), k \in Segments => Talking(c)
      PROVE  Traffic
  <2>1. p(k) \in Packet /\ p(k).conn = c /\ p(k).kind = k /\ p(k).dst = DcOf[c]
    BY ConnAssumption DEF Packet
  <2>2. k = "SYN" => ~InQ(inq, c, Segments)
    BY <1>7 DEF Handshakes, Ordered
  <2> HIDE DEF p
  <2>3. /\ AllTrue(inq') /\ SynFirst(inq')
        /\ \A d, kinds : InQ(inq', d, kinds) => InQ(inq, d, kinds) \/ (c = d /\ k \in kinds)
    BY <1>1, <1>7, <2>1, <2>2, QueueAppend
  <2>4. \A d \in Conns : InQ(inq', d, {"SYN"}) => InQ(inq, d, {"SYN"}) \/ ~Began(d)
    BY <1>7, <2>3
  <2>5. \A d \in Conns : InQ(inq', d, Segments) => InQ(inq, d, Segments) \/ Talking(d)
    BY <1>7, <2>3
  <2>6. \A d \in Conns : (Talking(d)' => Talking(d)) /\ (Began(d) => Began(d)')
    BY <1>3, <1>4 DEF Talking, Began
  <2> QED BY <1>2, <2>3, <2>4, <2>5, <2>6 DEF Traffic, NoOut
<1> QED BY <1>5, <1>6, <1>7

\* A packet leaves the queue, and nat_add stores what it says.
LEMMA Arrived ==
  ASSUME TypeOK, PortsOnce, Handshakes, inq # <<>>
  PROVE  /\ Rest(Tail(inq))
         /\ NatIn \in NatTable /\ NatTrue(NatIn)
         /\ \A d \in Conns : Mapped(g_nat, d) => Mapped(NatIn, d)
         /\ Len(inq) > 0 /\ inq[1] = Head(inq)
         /\ \A kinds : Head(inq).kind \in kinds => InQ(inq, Head(inq).conn, kinds)
<1>1. inq \in Seq(Packet) /\ g_nat \in NatTable /\ NatTrue(g_nat) /\ AllTrue(inq) /\ SynFirst(inq)
  BY DEF TypeOK, Handshakes, NatTable
<1>2. /\ Len(inq) \in Nat /\ Len(inq) > 0 /\ inq[1] = Head(inq) /\ 1 \in 1 .. Len(inq)
      /\ Head(inq) \in Packet
  BY <1>1
<1>3. Head(inq).conn \in Conns /\ Head(inq).dst = DcOf[Head(inq).conn]
  BY <1>1, <1>2 DEF Packet, AllTrue
<1>4. NatTrue(NatIn) /\ \A d \in Conns : Mapped(g_nat, d) => Mapped(NatIn, d)
  BY <1>1, <1>3, AddTrue DEF NatIn
<1>5. NatIn \in NatTable
  BY <1>1, <1>3, NatAdd, ConnAssumption DEF NatIn
<1>6. Rest(Tail(inq))
  BY <1>1, QueueTail DEF Rest
<1>7. \A kinds : Head(inq).kind \in kinds => InQ(inq, Head(inq).conn, kinds)
  BY <1>2 DEF InQ
<1> QED BY <1>2, <1>4, <1>5, <1>6, <1>7

KnownInv == Safe /\ Handshakes /\ DcKnown /\ EstablishedRewritten

\* The slots that a step fills get the DC of their connection.
SlotsKnown ==
  \A s \in Slots : \/ g_conns'[s] = g_conns[s]
                   \/ g_conns'[s] = FreeSlot
                   \/ g_conns'[s].dc = DcOf[g_conns'[s].pcb]

\* All that a step has to show.
KnownStep == Traffic /\ Tables /\ SlotsKnown

\* Handshakes and the two properties follow from what the step did.
LEMMA KnownKept ==
  ASSUME KnownInv, Safe', KnownStep
  PROVE  KnownInv'
<1>1. Handshakes'
  BY HandshakesKept DEF KnownInv, KnownStep, Safe
<1>2. DcKnown'
  BY DEF KnownInv, KnownStep, SlotsKnown, DcKnown, FreeSlot
<1>3. EstablishedRewritten'
  <2> SUFFICES ASSUME out'.conn # NoConn, pcb'[out'.conn] = "ESTABLISHED"
               PROVE  out'.src = DcOf[out'.conn]
    BY DEF EstablishedRewritten
  <2>1. out'.conn \in Conns /\ out'.src = nat_lookup(g_nat', PortOf[out'.conn])
    BY DEF KnownStep, Traffic
  <2>2. Mapped(g_nat', out'.conn) /\ NatTrue(g_nat') /\ g_nat' \in NatTable
    BY <1>1, <2>1 DEF Handshakes, Ordered, Safe, TypeOK, NatTable
  <2> QED BY <2>1, <2>2, LookupTrue
<1> QED BY <1>1, <1>2, <1>3 DEF KnownInv

\* The abort of the pcb in a slot: the mapping goes with it.
LEMMA AbortKnown ==
  ASSUME KnownInv, PortsOnce, NEW s \in Slots, g_conns[s].pcb # NoConn,
         NEW nat \in NatTable, NatTrue(nat), \A d \in Conns : Mapped(g_nat, d) => Mapped(nat, d),
         NEW q, Rest(q), AbortSlot(nat, s, q)
  PROVE  KnownStep
<1> DEFINE c == g_conns[s].pcb
<1>1. /\ TypeOK /\ c \in Conns /\ pcb \in [Conns -> {"none", "SYN_RCVD", "ESTABLISHED"}]
      /\ g_conns \in [Slots -> [pcb : Conns \cup {NoConn}, dc : Dcs \cup {NoDc}]]
      /\ pcb[c] = "ESTABLISHED"
  BY DEF KnownInv, Safe, TypeOK, SlotsSound
<1>2. /\ g_nat' = nat_remove(nat, PortOf[c]) /\ g_conns' = [g_conns EXCEPT ![s] = FreeSlot]
      /\ pcb' = [pcb EXCEPT ![c] = "none"] /\ netif_output(g_nat', c, "RST", q)
  BY DEF AbortSlot, Free
<1> HIDE DEF c
<1>3. g_nat' \in NatTable /\ NatTrue(g_nat') /\ \A d \in Conns \ {c} : Mapped(nat, d) => Mapped(g_nat', d)
  BY <1>1, <1>2, RemoveTrue, NatRemove, ConnAssumption
<1>4. Traffic
  BY <1>1, <1>2, <1>3, OutputTraffic
<1>5. pcb'[c] = "none" /\ \A d \in Conns \ {c} : pcb'[d] = pcb[d]
  BY <1>1, <1>2
<1>6. Tables
  BY <1>1, <1>3, <1>5 DEF Tables
<1>7. SlotsKnown
  BY <1>1, <1>2 DEF SlotsKnown
<1> QED BY <1>4, <1>6, <1>7 DEF KnownStep

\* An error callback, with the mapping as an abort does it.
LEMMA ErrKnown ==
  ASSUME KnownInv, PortsOnce, NEW c \in Conns, pcb[c] = "ESTABLISHED",
         NEW nat \in NatTable, NatTrue(nat), \A d \in Conns : Mapped(g_nat, d) => Mapped(nat, d),
         NEW q, Rest(q), tcp_err_cb(nat, c), NoOutput(q)
  PROVE  KnownStep
<1>1. /\ arg[c] \in Slots /\ pcb \in [Conns -> {"none", "SYN_RCVD", "ESTABLISHED"}]
      /\ g_conns \in [Slots -> [pcb : Conns \cup {NoConn}, dc : Dcs \cup {NoDc}]]
      /\ g_conns[arg[c]].pcb = c /\ c # NoConn
  BY ConnAssumption DEF KnownInv, Safe, TypeOK, SlotsSound
<1>2. /\ g_nat' = nat_remove(nat, PortOf[c]) /\ g_conns' = [g_conns EXCEPT ![arg[c]] = FreeSlot]
      /\ pcb' = [pcb EXCEPT ![c] = "none"]
  BY <1>1 DEF tcp_err_cb, Free
<1>3. NatTrue(g_nat') /\ \A d \in Conns \ {c} : Mapped(nat, d) => Mapped(g_nat', d)
  BY <1>2, RemoveTrue
<1>4. Traffic
  BY SilentTraffic
<1>5. pcb'[c] = "none" /\ \A d \in Conns \ {c} : pcb'[d] = pcb[d]
  BY <1>1, <1>2
<1>6. Tables
  BY <1>3, <1>5 DEF Tables
<1>7. SlotsKnown
  BY <1>1, <1>2 DEF SlotsKnown
<1> QED BY <1>4, <1>6, <1>7 DEF KnownStep
\* The packets of the device, handler by handler.
LEMMA InputKnown ==
  ASSUME KnownInv, PortsOnce, lwip_bridge_input
  PROVE  KnownStep
<1>1. /\ TypeOK /\ Handshakes /\ SlotsSound
      /\ pcb \in [Conns -> {"none", "SYN_RCVD", "ESTABLISHED"}] /\ arg \in [Conns -> Slots]
      /\ g_conns \in [Slots -> [pcb : Conns \cup {NoConn}, dc : Dcs \cup {NoDc}]]
  BY DEF KnownInv, Safe, TypeOK
<1>2. inq # <<>>
  BY DEF lwip_bridge_input, InputDropped, InputSyn, InputSynAgain, InputNoPcb, tcp_accept_cb,
         tcp_recv_cb_data, tcp_recv_cb_fin, InputAck, InputRst, Arrives
<1>3. /\ Rest(Tail(inq))
      /\ NatIn \in NatTable /\ NatTrue(NatIn)
      /\ \A d \in Conns : Mapped(g_nat, d) => Mapped(NatIn, d)
      /\ Len(inq) > 0 /\ inq[1] = Head(inq)
      /\ \A kinds : Head(inq).kind \in kinds => InQ(inq, Head(inq).conn, kinds)
  BY <1>1, <1>2, Arrived DEF KnownInv
<1>4. \A c \in Conns : pcb[c] = "ESTABLISHED" => Began(c)
  BY <1>1 DEF Handshakes, Ordered
<1>5. ASSUME g_nat' = NatIn, UNCHANGED pcb PROVE Tables
  BY <1>3, <1>5 DEF Tables
<1>6. UNCHANGED g_conns => SlotsKnown
  BY DEF SlotsKnown
<1>7. CASE InputDropped
  <2>1. Traffic
    BY <1>3, <1>7, SilentTraffic DEF InputDropped
  <2> QED BY <1>5, <1>6, <1>7, <2>1 DEF InputDropped, KnownStep
<1>8. ASSUME NEW c \in Conns, InputSyn(c) PROVE KnownStep
  <2>1. InQ(inq, c, {"SYN"}) /\ g_nat' = NatIn
    BY <1>3, <1>8 DEF InputSyn, Arrives
  <2>2. Traffic
    BY <1>1, <1>3, <1>8, <2>1, OutputTraffic, SilentTraffic DEF InputSyn
  <2>3. pcb' = pcb \/ pcb' = [pcb EXCEPT ![c] = "SYN_RCVD"]
    BY <1>8 DEF InputSyn
  <2>4. Tables
    BY <1>1, <1>3, <2>1, <2>3 DEF Tables
  <2> QED BY <1>6, <1>8, <2>2, <2>4 DEF InputSyn, KnownStep
<1>9. ASSUME NEW c \in Conns, InputSynAgain(c) \/ InputNoPcb(c) PROVE KnownStep
  <2>1. g_nat' = NatIn /\ UNCHANGED <<pcb, g_conns>>
    BY <1>9 DEF InputSynAgain, InputNoPcb
  <2>2. Traffic
    BY <1>1, <1>3, <1>9, <2>1, OutputTraffic, SilentTraffic DEF InputSynAgain, InputNoPcb
  <2> QED BY <1>5, <1>6, <2>1, <2>2 DEF KnownStep
<1>10. ASSUME NEW c \in Conns, InputAck(c) PROVE KnownStep
  <2>1. g_nat' = NatIn /\ UNCHANGED <<pcb, g_conns>> /\ Began(c)
    BY <1>4, <1>10 DEF InputAck
  <2>2. Traffic
    BY <1>1, <1>3, <1>10, <2>1, OutputTraffic, SilentTraffic DEF InputAck
  <2> QED BY <1>5, <1>6, <2>1, <2>2 DEF KnownStep
<1>11. ASSUME NEW c \in Conns, tcp_accept_cb(c) PROVE KnownStep
  <2> DEFINE q == IF Head(inq).kind = "ACK" THEN Tail(inq) ELSE inq
             slot == Min(FreeSlots)
             entry == [pcb |-> c, dc |-> nat_lookup(NatIn, PortOf[c])]
  <2>1. /\ Head(inq).conn = c /\ Head(inq).kind \in Segments /\ pcb[c] = "SYN_RCVD"
        /\ g_nat' = NatIn
    BY <1>11 DEF tcp_accept_cb, Arrives, Segments
  <2>2. Rest(q)
    BY <1>1, <1>3 DEF Rest, TypeOK, Handshakes
  <2>3. InQ(inq, c, Segments)
    BY <1>3, <2>1
  <2>4. Mapped(NatIn, c)
    BY <1>1, <1>3, <2>1, <2>3 DEF Handshakes, Ordered
  <2>5. entry.dc = DcOf[entry.pcb]
    BY <1>3, <2>4, LookupTrue
  <2>6. CASE /\ g_conns' = [g_conns EXCEPT ![slot] = entry]
             /\ pcb' = [pcb EXCEPT ![c] = "ESTABLISHED"]
             /\ NoOutput(q)
    <3> HIDE DEF q, slot, entry
    <3>1. Traffic
      BY <2>2, <2>6, SilentTraffic
    <3>2. SlotsKnown
      BY <1>1, <2>5, <2>6 DEF SlotsKnown
    <3>3. pcb'[c] = "ESTABLISHED" /\ \A d \in Conns \ {c} : pcb'[d] = pcb[d]
      BY <1>1, <2>6
    <3>4. Tables
      BY <1>3, <2>1, <3>3 DEF Tables
    <3> QED BY <3>1, <3>2, <3>4 DEF KnownStep
  <2>7. CASE Free(c) /\ netif_output(NatIn, c, "RST", q) /\ UNCHANGED g_conns
    <3> HIDE DEF q
    <3>1. Traffic
      BY <1>1, <1>3, <2>1, <2>2, <2>7, OutputTraffic
    <3>2. pcb'[c] = "none" /\ \A d \in Conns \ {c} : pcb'[d] = pcb[d]
      BY <1>1, <2>7 DEF Free
    <3>3. Tables
      BY <1>3, <2>1, <3>2 DEF Tables
    <3> QED BY <1>6, <2>7, <3>1, <3>3 DEF KnownStep
  <2> QED BY <1>11, <2>6, <2>7 DEF tcp_accept_cb
<1>12. ASSUME NEW c \in Conns, tcp_recv_cb_data(c) \/ tcp_recv_cb_fin(c) PROVE KnownStep
  <2>1. pcb[c] = "ESTABLISHED" /\ arg[c] \in Slots /\ g_conns[arg[c]].pcb # NoConn
    BY <1>1, <1>12, ConnAssumption DEF tcp_recv_cb_data, tcp_recv_cb_fin, SlotsSound
  <2>2. CASE AbortSlot(NatIn, arg[c], Tail(inq))
    BY <1>3, <2>1, <2>2, AbortKnown
  <2>3. CASE g_nat' = NatIn /\ netif_output(NatIn, c, "ACK", Tail(inq)) /\ UNCHANGED <<pcb, g_conns>>
    <3>1. Began(c)
      BY <1>4, <2>1
    <3>2. Traffic
      BY <1>1, <1>3, <2>3, <3>1, OutputTraffic
    <3> QED BY <1>5, <1>6, <2>3, <3>2 DEF KnownStep
  <2> QED BY <1>12, <2>1, <2>2, <2>3 DEF tcp_recv_cb_data, tcp_recv_cb_fin
<1>13. ASSUME NEW c \in Conns, InputRst(c) PROVE KnownStep
  <2>1. CASE pcb[c] = "SYN_RCVD" /\ g_nat' = NatIn /\ Free(c) /\ UNCHANGED g_conns
    <3>1. Traffic
      BY <1>3, <1>13, SilentTraffic DEF InputRst
    <3>2. pcb'[c] = "none" /\ \A d \in Conns \ {c} : pcb'[d] = pcb[d]
      BY <1>1, <2>1 DEF Free
    <3>3. Tables
      BY <1>3, <2>1, <3>2 DEF Tables
    <3> QED BY <1>6, <2>1, <3>1, <3>3 DEF KnownStep
  <2>2. CASE pcb[c] = "ESTABLISHED" /\ tcp_err_cb(NatIn, c)
    BY <1>3, <1>13, <2>2, ErrKnown DEF InputRst
  <2> QED BY <1>13, <2>1, <2>2 DEF InputRst
<1> QED BY <1>7, <1>8, <1>9, <1>10, <1>11, <1>12, <1>13 DEF lwip_bridge_input

\* Every other step: the poll timer, the sessions, the device.
LEMMA OthersKnown ==
  ASSUME KnownInv, PortsOnce, Next, ~lwip_bridge_input
  PROVE  KnownStep
<1>1. /\ TypeOK /\ Handshakes /\ SlotsSound /\ Rest(inq)
      /\ g_nat \in NatTable /\ NatTrue(g_nat)
      /\ pcb \in [Conns -> {"none", "SYN_RCVD", "ESTABLISHED"}]
      /\ g_conns \in [Slots -> [pcb : Conns \cup {NoConn}, dc : Dcs \cup {NoDc}]]
  BY DEF KnownInv, Safe, TypeOK, Handshakes, Rest, NatTable
<1>2. \A c \in Conns : pcb[c] = "ESTABLISHED" => Began(c)
  BY <1>1 DEF Handshakes, Ordered
<1>3. ASSUME UNCHANGED <<g_nat, pcb, g_conns>> PROVE Tables /\ SlotsKnown
  BY <1>1, <1>3 DEF Tables, SlotsKnown
<1>4. ASSUME NEW c \in Conns, PollResend(c) PROVE KnownStep
  <2>1. UNCHANGED <<g_nat, pcb, g_conns>>
    BY <1>4 DEF PollResend, bridge
  <2>2. Traffic
    BY <1>1, <1>2, <1>4, <2>1, OutputTraffic DEF PollResend
  <2> QED BY <1>3, <2>1, <2>2 DEF KnownStep
<1>5. ASSUME NEW c \in Conns, PollGiveUp(c) PROVE KnownStep
  <2>1. CASE pcb[c] = "SYN_RCVD" /\ Free(c) /\ UNCHANGED <<g_nat, g_conns>>
    <3>1. Traffic
      BY <1>1, <1>5, SilentTraffic DEF PollGiveUp
    <3>2. pcb'[c] = "none" /\ \A d \in Conns \ {c} : pcb'[d] = pcb[d]
      BY <1>1, <2>1 DEF Free
    <3>3. Tables
      BY <1>1, <2>1, <3>2 DEF Tables
    <3>4. SlotsKnown
      BY <2>1 DEF SlotsKnown
    <3> QED BY <3>1, <3>3, <3>4 DEF KnownStep
  <2>2. CASE pcb[c] = "ESTABLISHED" /\ tcp_err_cb(g_nat, c)
    BY <1>1, <1>5, <2>2, ErrKnown DEF PollGiveUp
  <2> QED BY <1>5, <2>1, <2>2 DEF PollGiveUp
<1>6. ASSUME NEW s \in Slots, lwip_bridge_write(s) PROVE KnownStep
  <2>1. g_conns[s].pcb \in Conns /\ Began(g_conns[s].pcb)
    BY <1>1, <1>2, <1>6 DEF lwip_bridge_write, SlotsSound
  <2>2. UNCHANGED <<g_nat, pcb, g_conns>> /\ netif_output(g_nat', g_conns[s].pcb, "DATA", inq)
    BY <1>6 DEF lwip_bridge_write
  <2>3. Traffic
    BY <1>1, <2>1, <2>2, OutputTraffic
  <2> QED BY <1>3, <2>2, <2>3 DEF KnownStep
<1>7. ASSUME NEW s \in Slots, lwip_bridge_close(s) PROVE KnownStep
  BY <1>1, <1>7, AbortKnown DEF lwip_bridge_close
<1>8. ASSUME NEW c \in Conns,
             ClientConnect(c) \/ ClientSend(c) \/ ClientClose(c) \/ ClientGiveUp(c)
      PROVE  KnownStep
  <2>1. UNCHANGED <<g_nat, pcb, g_conns>>
    BY <1>8 DEF ClientConnect, ClientSend, ClientClose, ClientGiveUp, ClientStep, bridge
  <2> QED BY <1>1, <1>3, <1>8, <2>1, ClientTraffic DEF KnownStep
<1> QED BY <1>4, <1>5, <1>6, <1>7, <1>8 DEF Next, lwip_bridge_poll

\* No packet, no pcb, an empty table.
LEMMA KnownInit == Init => KnownInv
<1> SUFFICES ASSUME Init PROVE KnownInv
  OBVIOUS
<1>1. Safe
  BY SafeInit
<1>2. DcKnown /\ EstablishedRewritten
  BY DEF Init, DcKnown, EstablishedRewritten, FreeSlot, NoOut
<1>3. NatTrue(g_nat)
  BY ConnAssumption DEF Init, NatTrue, FreeEntry
<1>4. inq = <<>> /\ Len(inq) = 0
  BY DEF Init
<1>5. AllTrue(inq) /\ SynFirst(inq) /\ \A c, kinds : ~InQ(inq, c, kinds)
  BY <1>4 DEF AllTrue, SynFirst, InQ
<1>6. \A c \in Conns : Ordered(c)
  BY <1>5 DEF Init, Ordered
<1> QED BY <1>1, <1>2, <1>3, <1>5, <1>6 DEF KnownInv, Handshakes

\* Every step keeps KnownInv when no two connections share a port.
LEMMA KnownNext == PortsOnce /\ KnownInv /\ [Next]_vars => KnownInv'
<1> SUFFICES ASSUME PortsOnce, KnownInv, [Next]_vars PROVE KnownInv'
  OBVIOUS
<1>1. Safe'
  BY SafeStep DEF KnownInv
<1>2. CASE Next
  BY <1>1, <1>2, InputKnown, OthersKnown, KnownKept
<1>3. CASE UNCHANGED vars
  BY <1>1, <1>3 DEF vars, KnownInv, Handshakes, Ordered, Began, Talking, DcKnown,
     EstablishedRewritten
<1> QED BY <1>2, <1>3

\* lwip_bridge_get_dst_ip answers the DC of every accepted connection, however
\* small the NAT table is, as long as the device does not use a client port again.
THEOREM DcIsKnown ==
  ASSUME PortsOnce
  PROVE  Spec => []DcKnown
<1>1. KnownInv => DcKnown
  BY DEF KnownInv
<1>2. KnownInv /\ [Next]_vars => KnownInv'
  BY KnownNext
<1> QED BY <1>1, <1>2, KnownInit, PTL DEF Spec

\* Under the same condition what the bridge sends on an accepted connection never
\* goes out with the address of the tunnel or of another DC.
THEOREM EstablishedIsRewritten ==
  ASSUME PortsOnce
  PROVE  Spec => []EstablishedRewritten
<1>1. KnownInv => EstablishedRewritten
  BY DEF KnownInv
<1>2. KnownInv /\ [Next]_vars => KnownInv'
  BY KnownNext
<1> QED BY <1>1, <1>2, KnownInit, PTL DEF Spec
=============================================================================
