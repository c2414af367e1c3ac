--------------------------- MODULE TunnelSession ---------------------------
(***************************************************************************)
(* Tunnel/TunnelSession.swift and the session table of                     *)
(* Tunnel/PacketTunnelProvider.swift: sessions that hold a connection id,  *)
(* WebSocket callbacks that arrive on another thread and queue a job on    *)
(* lwipQueue, and the way of bytes from the WebSocket into the send buffer *)
(* of lwIP.  Ids are reused: a job may run when its id already belongs to  *)
(* another connection.                                                     *)
(*                                                                         *)
(* A session is named by the connection it was created for.  Below it      *)
(* stands the connection table of the bridge (module LwipBridge, whose     *)
(* SlotsSound is what g_conns assumes here) and tcp_write, which takes a   *)
(* chunk whole or not at all: it needs room in the send buffer of the      *)
(* connection and in the segment pool and heap all connections share.      *)
(***************************************************************************)
EXTENDS Integers, Sequences, FiniteSetsExt

CONSTANTS
  Conns,     \* connections the device opens, each accepted once
  NoConn,    \* empty slot, no session
  MAX_CONNS, \* slots of g_conns
  MaxBytes,  \* bytes the gateway sends on one connection
  MaxFrame,  \* bytes of its longest frame
  MaxCloses, \* calls of onClose on one connection
  Chunk,     \* longest write to the bridge (65535)
  SndBuf,    \* TCP_SND_BUF (65535)
  Shared     \* what the segment pool and the heap can hold

ASSUME SessionAssumption ==
  /\ NoConn \notin Conns
  /\ MAX_CONNS \in Nat \ {0}
  /\ MaxBytes \in Nat /\ MaxFrame \in Nat /\ MaxCloses \in Nat
  /\ Chunk \in Nat \ {0} /\ SndBuf \in Nat /\ Shared \in Nat
  /\ Chunk <= SndBuf \* an empty send buffer takes a chunk

VARIABLES
  workerDomain, \* one is configured (pipe and relay modes), for all sessions of the tunnel
  g_conns,  \* connection in each slot of the bridge
  opened,   \* connections accepted so far
  sessions, \* session table of the provider, by connection id
  connId,   \* id each session was created with
  dead,     \* the session's flag
  ws,       \* its WSClient: "none", "open", "cancelled"
  closes,   \* calls of onClose so far
  pending,  \* bytes that wait for room; empty stands for nil
  queue,    \* jobs of WebSocket callbacks on lwipQueue
  received, \* bytes the gateway has sent
  wrote,    \* bytes tcp_write has taken on each connection
  acked     \* how many of them the device has acknowledged

vars == <<workerDomain, g_conns, opened, sessions, connId, dead, ws, closes, pending,
          queue, received, wrote, acked>>

Slots == 0 .. MAX_CONNS - 1

\* The n-th byte of the gateway's stream for connection c.
Byte(c, n) == <<c, n>>
Stream(c, n) == [i \in 1 .. n |-> Byte(c, i)]
Bytes == Conns \X (1 .. MaxBytes)
Job == [kind : {"data", "close"}, conn : Conns, data : Seq(Bytes)]

TypeOK ==
  /\ workerDomain \in BOOLEAN
  /\ g_conns \in [Slots -> Conns \cup {NoConn}]
  /\ opened \subseteq Conns
  /\ sessions \in [Slots -> Conns \cup {NoConn}]
  /\ connId \in [Conns -> Slots]
  /\ dead \in [Conns -> BOOLEAN]
  /\ ws \in [Conns -> {"none", "open", "cancelled"}]
  /\ closes \in [Conns -> 0 .. MaxCloses]
  /\ pending \in [Conns -> Seq(Bytes)]
  /\ queue \in Seq(Job)
  /\ received \in [Conns -> 0 .. MaxBytes]
  /\ wrote \in [Conns -> Seq(Bytes)]
  /\ acked \in [Conns -> Nat]
  /\ \A c \in Conns : Len(wrote[c]) - acked[c] \in 0 .. SndBuf

-----------------------------------------------------------------------------
(* Writing *)

Unacked(ack, c) == Len(wrote[c]) - ack[c]

\* The sum of v[0], ..., v[n - 1].
Total(v, n) ==
  LET sum[i \in 0 .. n] == IF i = 0 THEN 0 ELSE sum[i - 1] + v[i - 1]
  IN  sum[n]

Held(ack) == [s \in Slots |-> IF g_conns[s] = NoConn THEN 0 ELSE Unacked(ack, g_conns[s])]
InUse(ack) == Total(Held(ack), MAX_CONNS)

\* Mutant of Room: the send buffer of the connection is not looked at.
Room_SharedOnly(ack, d) == IF d = NoConn THEN 0 ELSE Shared - InUse(ack)

\* lwip_bridge_write refuses an id without a pcb.
Room(ack, d) ==
  IF d = NoConn THEN 0 ELSE Min({SndBuf - Unacked(ack, d), Shared - InUse(ack)})

\* Mutant of Taken: the frame is written whole or not at all.
Taken_Whole(ack, d, data) == IF Len(data) <= Room(ack, d) THEN Len(data) ELSE 0

\* The loop of writeOrQueue stops at the first chunk that does not fit.
Taken(ack, d, data) ==
  Max({n \in {Min({i * Chunk, Len(data)}) : i \in 0 .. Len(data)} : n <= Room(ack, d)})

\* Mutant of writeOrQueue: what does not fit is dropped, as it once was.
writeOrQueue_Drops(c, ack, held, data) ==
  LET d == g_conns[connId[c]]
      off == Taken(ack, d, data)
  IN  /\ UNCHANGED pending
      /\ wrote' = IF off = 0 THEN wrote ELSE [wrote EXCEPT ![d] = @ \o SubSeq(data, 1, off)]

\* writeOrQueue of session c: everything waits behind bytes that wait already
\* (held); otherwise chunks go to whatever connection has the id now.
writeOrQueue(c, ack, held, data) ==
  LET d == g_conns[connId[c]]
      off == Taken(ack, d, data)
  IN  IF held # <<>>
      THEN /\ pending' = [pending EXCEPT ![c] = held \o data]
           /\ UNCHANGED wrote
      ELSE /\ pending' = [pending EXCEPT ![c] = SubSeq(data, off + 1, Len(data))]
           /\ wrote' = IF off = 0 THEN wrote
                       ELSE [wrote EXCEPT ![d] = @ \o SubSeq(data, 1, off)]

\* bridge.close: aborts whatever connection has the id now, without a callback.
BridgeClose(s) == g_conns' = [g_conns EXCEPT ![s] = NoConn]

-----------------------------------------------------------------------------
(* Callbacks of the bridge, on lwipQueue *)

\* The accept callback puts a new session under the id, over whatever is there.
handleAccept(c) ==
  LET free == {s \in Slots : g_conns[s] = NoConn}
      s == Min(free)
  IN  /\ c \notin opened
      /\ free # {}
      /\ opened' = opened \cup {c}
      /\ g_conns' = [g_conns EXCEPT ![s] = c]
      /\ sessions' = [sessions EXCEPT ![s] = c]
      /\ connId' = [connId EXCEPT ![c] = s]
      /\ UNCHANGED <<workerDomain, dead, ws, closes, pending, queue, received, wrote, acked>>

\* onClose: it only queues a job, on whatever thread it is called.
QueueClose(c) ==
  /\ closes[c] < MaxCloses
  /\ closes' = [closes EXCEPT ![c] = @ + 1]
  /\ queue' = Append(queue, [kind |-> "close", conn |-> c, data |-> <<>>])

\* The first data that matters to the session in slot s: it starts the WebSocket,
\* which may find at once that it cannot (onClose), or, without a worker, rejects
\* the init and closes the connection.  Later data goes to the WebSocket.
handleData(s) ==
  LET c == sessions[s] IN
  /\ g_conns[s] # NoConn
  /\ c # NoConn
  /\ ws[c] = "none"
  /\ \/ /\ ws' = [ws EXCEPT ![c] = "open"]
        /\ \/ UNCHANGED <<closes, queue>>
           \/ workerDomain /\ QueueClose(c)
        /\ UNCHANGED g_conns
     \/ /\ ~workerDomain
        /\ BridgeClose(connId[c])
        /\ UNCHANGED <<ws, closes, queue>>
  /\ UNCHANGED <<workerDomain, opened, sessions, connId, dead, pending, received, wrote, acked>>

\* The device acknowledges n bytes: lwIP calls back, and handleSent writes what
\* waits, as if nothing did.
handleSent(s, n) ==
  LET c == g_conns[s]
      x == sessions[s]
      ack == [acked EXCEPT ![c] = @ + n]
  IN  /\ c # NoConn
      /\ n \in 1 .. Unacked(acked, c)
      /\ acked' = ack
      /\ IF x = NoConn \/ pending[x] = <<>> THEN UNCHANGED <<pending, wrote>>
         ELSE writeOrQueue(x, ack, <<>>, pending[x])
      /\ UNCHANGED <<workerDomain, g_conns, opened, sessions, connId, dead, ws, closes, queue,
                     received>>

\* Mutant of CloseSessions: the flag "dead" is not set.
CloseSessions_NotDead(S) ==
  LET closed == {c \in Conns : \E s \in S : sessions[s] = c} IN
  /\ UNCHANGED dead
  /\ ws' = [c \in Conns |-> IF c \in closed /\ ws[c] = "open" THEN "cancelled" ELSE ws[c]]
  /\ sessions' = [s \in Slots |-> IF s \in S THEN NoConn ELSE sessions[s]]

\* What handleClose does to the sessions in the slots S.
CloseSessions(S) ==
  LET closed == {c \in Conns : \E s \in S : sessions[s] = c} IN
  /\ dead' = [c \in Conns |-> dead[c] \/ c \in closed]
  /\ ws' = [c \in Conns |-> IF c \in closed /\ ws[c] = "open" THEN "cancelled" ELSE ws[c]]
  /\ sessions' = [s \in Slots |-> IF s \in S THEN NoConn ELSE sessions[s]]

\* FIN, RST or timeout: g_close, then the bridge clears the slot.
handleClose(s) ==
  /\ g_conns[s] # NoConn
  /\ CloseSessions({s})
  /\ BridgeClose(s)
  /\ UNCHANGED <<workerDomain, opened, connId, closes, pending, queue, received, wrote, acked>>

\* All sessions at once; the connections of the bridge stay as they are.
stopTunnel ==
  /\ \E s \in Slots : sessions[s] # NoConn
  /\ CloseSessions(Slots)
  /\ UNCHANGED <<workerDomain, g_conns, opened, connId, closes, pending, queue, received, wrote, acked>>

-----------------------------------------------------------------------------
(* Callbacks of the WebSocket, on its own thread: they only queue a job.   *)
(* Its receive loop, its timers and the cancellation by close() may call   *)
(* them in any order, data after the close included.                       *)

\* A frame of k bytes.
handleWSData(c, k) ==
  /\ ws[c] # "none"
  /\ received[c] + k <= MaxBytes
  /\ received' = [received EXCEPT ![c] = @ + k]
  /\ queue' = Append(queue, [kind |-> "data", conn |-> c,
                             data |-> [i \in 1 .. k |-> Byte(c, received[c] + i)]])
  /\ UNCHANGED <<workerDomain, g_conns, opened, sessions, connId, dead, ws, closes, pending, wrote,
                 acked>>

handleWSClose(c) ==
  /\ ws[c] # "none"
  /\ QueueClose(c)
  /\ UNCHANGED <<workerDomain, g_conns, opened, sessions, connId, dead, ws, pending, received, wrote,
                 acked>>

-----------------------------------------------------------------------------
(* Their jobs, on lwipQueue: nothing happens for a dead session *)

\* Mutant of RunDataJob: "dead" is not looked at.
RunDataJob_EvenDead ==
  /\ queue # <<>>
  /\ Head(queue).kind = "data"
  /\ queue' = Tail(queue)
  /\ writeOrQueue(Head(queue).conn, acked, pending[Head(queue).conn], Head(queue).data)
  /\ UNCHANGED <<workerDomain, g_conns, opened, sessions, connId, dead, ws, closes, received,
                 acked>>

RunDataJob ==
  /\ queue # <<>>
  /\ Head(queue).kind = "data"
  /\ queue' = Tail(queue)
  /\ LET c == Head(queue).conn IN
     IF dead[c] THEN UNCHANGED <<pending, wrote>>
     ELSE writeOrQueue(c, acked, pending[c], Head(queue).data)
  /\ UNCHANGED <<workerDomain, g_conns, opened, sessions, connId, dead, ws, closes, received,
                 acked>>

\* Mutant of RunCloseJob: "dead" is not looked at.
RunCloseJob_EvenDead ==
  /\ queue # <<>>
  /\ Head(queue).kind = "close"
  /\ queue' = Tail(queue)
  /\ LET c == Head(queue).conn IN
     /\ dead' = [dead EXCEPT ![c] = TRUE]
     /\ BridgeClose(connId[c])
  /\ UNCHANGED <<workerDomain, opened, sessions, connId, ws, closes, pending, received, wrote, acked>>

RunCloseJob ==
  /\ queue # <<>>
  /\ Head(queue).kind = "close"
  /\ queue' = Tail(queue)
  /\ LET c == Head(queue).conn IN
     IF dead[c] THEN UNCHANGED <<dead, g_conns>>
     ELSE /\ dead' = [dead EXCEPT ![c] = TRUE]
          /\ BridgeClose(connId[c])
  /\ UNCHANGED <<workerDomain, opened, sessions, connId, ws, closes, pending, received, wrote, acked>>

-----------------------------------------------------------------------------
Init ==
  /\ workerDomain \in BOOLEAN
  /\ g_conns = [s \in Slots |-> NoConn]
  /\ opened = {}
  /\ sessions = [s \in Slots |-> NoConn]
  /\ connId = [c \in Conns |-> 0]
  /\ dead = [c \in Conns |-> FALSE]
  /\ ws = [c \in Conns |-> "none"]
  /\ closes = [c \in Conns |-> 0]
  /\ pending = [c \in Conns |-> <<>>]
  /\ queue = <<>>
  /\ received = [c \in Conns |-> 0]
  /\ wrote = [c \in Conns |-> <<>>]
  /\ acked = [c \in Conns |-> 0]

Next ==
  \/ \E c \in Conns :
       \/ handleAccept(c) \/ handleWSClose(c)
       \/ \E k \in 1 .. MaxFrame : handleWSData(c, k)
  \/ \E s \in Slots :
       \/ handleData(s) \/ handleClose(s)
       \/ \E n \in 1 .. SndBuf : handleSent(s, n)
  \/ stopTunnel
  \/ RunDataJob
  \/ RunCloseJob

Spec == Init /\ [][Next]_vars

\* The device acknowledges what it is sent as long as the connection stands.
AcksCome == \A s \in Slots : WF_vars(\E n \in 1 .. SndBuf : handleSent(s, n))

FairSpec == Spec /\ AcksCome

\* And lwipQueue runs its jobs.
FairJobsSpec == FairSpec /\ WF_vars(RunDataJob \/ RunCloseJob)

-----------------------------------------------------------------------------
(* Safety *)

\* A session that may still write or close (it is not dead and its WebSocket was
\* started) has its own connection under its id: the flag "dead" is set before
\* the id can go to another connection, on every way a connection can end.
OwnsItsId == \A c \in Conns : ws[c] # "none" /\ ~dead[c] => g_conns[connId[c]] = c

\* The bytes for c that the jobs of q carry.
DataOf(q, c) ==
  LET cat[i \in 0 .. Len(q)] ==
        IF i = 0 THEN <<>> ELSE cat[i - 1] \o (IF q[i].conn = c THEN q[i].data ELSE <<>>)
  IN  cat[Len(q)]

Queued(c) == DataOf(queue, c)

\* What a connection has been given is a prefix of the gateway's stream for that
\* very connection: no late byte of an earlier session under the same id, no
\* hole, no repetition, nothing out of order.
StreamPrefix == \A c \in Conns : wrote[c] = Stream(c, Len(wrote[c]))

\* While the session lives, no byte is lost either: what was written, what waits
\* and what is queued make up everything the gateway sent.
NothingLost ==
  \A c \in Conns :
    ws[c] # "none" /\ ~dead[c] =>
      wrote[c] \o pending[c] \o Queued(c) = Stream(c, received[c])

\* TunnelSession.swift:217: a late close of the WebSocket closes the connection of
\* its own session or none, whoever has been given the id since.
ClosesOnlyItsOwn ==
  [][RunCloseJob => \A s \in Slots : g_conns'[s] # g_conns[s] => g_conns[s] = Head(queue).conn]_vars

\* Bytes of a living session wait though nothing of its connection is unacknowledged.
Stuck(c) == ~dead[c] /\ pending[c] # <<>> /\ Unacked(acked, c) = 0

\* The acknowledgement of their own connection is the only thing that wakes bytes
\* that wait.  They come to wait without one only in a step in which the memory all
\* connections share has no room for what would be written next.
PendingHasWakeup ==
  [][\A c \in Conns :
       Stuck(c)' => Stuck(c) \/ Shared - InUse(acked)' < Min({Chunk, Len(pending'[c])})]_vars

-----------------------------------------------------------------------------
(* Liveness *)

\* TunnelSession.swift:169: bytes that found no room are written later, unless
\* the session ends.
PendingWritten == \A c \in Conns : pending[c] # <<>> ~> (pending[c] = <<>> \/ dead[c])
=============================================================================
