------------------------ MODULE TunnelSessionProofs ------------------------
(***************************************************************************)
(* For every number of connections and slots, and whatever the bridge can  *)
(* buffer.  First the control state: a session that is not dead still owns *)
(* its connection id, so a late job of the WebSocket never writes to or    *)
(* closes the connection that was given the id next.  Then the bytes: the  *)
(* invariant StreamInv says which part of the gateway's stream is in what  *)
(* was written, in what waits and in the queue, and with it that nothing   *)
(* is lost, repeated or misplaced, and when bytes that wait are woken.       *)
(***************************************************************************)
EXTENDS TunnelSession, Induction, SequenceTheorems, TLAPS

\* The part of TypeOK that ownership rests on: everything but the byte streams
\* that writeOrQueue moves.
ControlType ==
  /\ g_conns \in [Slots -> Conns \cup {NoConn}]
  /\ opened \subseteq Conns
  /\ sessions \in [Slots -> Conns \cup {NoConn}]
  /\ connId \in [Conns -> Slots]
  /\ dead \in [Conns -> BOOLEAN]
  /\ ws \in [Conns -> {"none", "open", "cancelled"}]
  /\ queue \in Seq(Job)
  /\ received \in [Conns -> 0 .. MaxBytes]

\* Connections and sessions sit in the slot of their id, and only once accepted.
InTheirSlots ==
  \A s \in Slots, c \in Conns :
    g_conns[s] = c \/ sessions[s] = c => connId[c] = s /\ c \in opened

\* The session of an active slot is in the table, or has been told to stop.
HasSession ==
  \A s \in Slots : g_conns[s] # NoConn =>
    \/ sessions[s] = g_conns[s]
    \/ sessions[s] = NoConn /\ dead[g_conns[s]]

\* Only a session that was accepted starts a WebSocket, and only a session that
\* started one has jobs.
Started ==
  /\ \A c \in Conns \ opened : ws[c] = "none"
  /\ \A i \in 1 .. Len(queue) : ws[queue[i].conn] # "none"

\* OwnsItsId alone is not inductive: RunCloseJob and handleData also close slots,
\* and the slot is the session's own only by the parts above.
Ownership == ControlType /\ InTheirSlots /\ HasSession /\ Started /\ OwnsItsId

control == <<g_conns, opened, sessions, connId, dead, ws, queue, received>>

\* Nothing is accepted at the start, so nothing can be owned by the wrong session.
LEMMA OwnershipInit == Init => Ownership
<1> SUFFICES ASSUME Init PROVE Ownership
  OBVIOUS
<1> USE SessionAssumption DEF Init, Slots
<1>1. ControlType
  BY DEF ControlType
<1>2. InTheirSlots /\ HasSession /\ Started /\ OwnsItsId
  BY DEF InTheirSlots, HasSession, Started, OwnsItsId
<1> QED BY <1>1, <1>2 DEF Ownership

\* A job is about one of the connections, and appending one keeps the others.
LEMMA QueueElements ==
  ASSUME NEW q \in Seq(Job)
  PROVE  /\ \A i \in 1 .. Len(q) : q[i].conn \in Conns
         /\ \A j \in Job : \A i \in 1 .. Len(Append(q, j)) :
              Append(q, j)[i] = j \/ (i \in 1 .. Len(q) /\ Append(q, j)[i] = q[i])
<1>1. \A i \in 1 .. Len(q) : q[i] \in Job
  OBVIOUS
<1>2. \A j \in Job : j.conn \in Conns
  BY DEF Job
<1>3. \A j \in Job : \A i \in 1 .. Len(Append(q, j)) :
        Append(q, j)[i] = j \/ (i \in 1 .. Len(q) /\ Append(q, j)[i] = q[i])
  OBVIOUS
<1> QED BY <1>1, <1>2, <1>3

\* What the queue holds after a WebSocket callback or after a job has run.
LEMMA QueueStep ==
  ASSUME Ownership
  PROVE  /\ \A j \in Job : ws[j.conn] # "none" =>
              /\ Append(queue, j) \in Seq(Job)
              /\ \A i \in 1 .. Len(Append(queue, j)) : ws[Append(queue, j)[i].conn] # "none"
         /\ queue # <<>> =>
              /\ Head(queue) \in Job
              /\ ws[Head(queue).conn] # "none"
              /\ Tail(queue) \in Seq(Job)
              /\ \A i \in 1 .. Len(Tail(queue)) : ws[Tail(queue)[i].conn] # "none"
<1> USE DEF Ownership, ControlType, Started
<1>1. ASSUME NEW j \in Job, ws[j.conn] # "none"
      PROVE  /\ Append(queue, j) \in Seq(Job)
             /\ \A i \in 1 .. Len(Append(queue, j)) : ws[Append(queue, j)[i].conn] # "none"
  BY <1>1
<1>2. ASSUME queue # <<>>
      PROVE  /\ Head(queue) \in Job
             /\ ws[Head(queue).conn] # "none"
             /\ Tail(queue) \in Seq(Job)
             /\ \A i \in 1 .. Len(Tail(queue)) : ws[Tail(queue)[i].conn] # "none"
  <2>1. Len(queue) > 0 /\ Head(queue) = queue[1]
    BY <1>2
  <2> QED BY <1>2, <2>1
<1> QED BY <1>1, <1>2

\* handleAccept: the slot was free, so no live session loses its id.
LEMMA AcceptStep ==
  ASSUME Ownership, NEW c \in Conns, handleAccept(c)
  PROVE  Ownership'
<1> DEFINE free == {s \in Slots : g_conns[s] = NoConn}
           s == Min(free)
<1>1. s \in Slots /\ g_conns[s] = NoConn
  <2>1. free \in SUBSET Nat /\ free # {}
    BY SessionAssumption DEF handleAccept, Slots
  <2>2. s \in free
    BY <2>1, MinExists
  <2> QED BY <2>2
<1>2. /\ c \notin opened
      /\ opened' = opened \cup {c}
      /\ g_conns' = [g_conns EXCEPT ![s] = c]
      /\ sessions' = [sessions EXCEPT ![s] = c]
      /\ connId' = [connId EXCEPT ![c] = s]
      /\ UNCHANGED <<dead, ws, queue, received>>
  BY DEF handleAccept
<1> HIDE DEF s
<1> USE SessionAssumption DEF Ownership
<1>3. ControlType'
  BY <1>1, <1>2 DEF ControlType
<1>4. InTheirSlots'
  BY <1>1, <1>2 DEF ControlType, InTheirSlots
<1>5. HasSession'
  BY <1>1, <1>2 DEF ControlType, HasSession
<1>6. Started'
  BY <1>1, <1>2 DEF ControlType, Started
<1>7. OwnsItsId'
  BY <1>1, <1>2 DEF ControlType, Started, OwnsItsId
<1> QED BY <1>3, <1>4, <1>5, <1>6, <1>7

\* handleData: the session that starts is the owner of the slot, and the slot an
\* invalid init closes belongs to a session without a WebSocket.
LEMMA DataStep ==
  ASSUME Ownership, NEW s \in Slots, handleData(s)
  PROVE  Ownership'
<1> DEFINE c == sessions[s]
           job == [kind |-> "close", conn |-> c, data |-> <<>>]
<1> USE SessionAssumption DEF Ownership
<1>1. /\ c \in Conns /\ g_conns[s] = c /\ connId[c] = s /\ c \in opened /\ ws[c] = "none"
      /\ UNCHANGED <<opened, sessions, connId, dead, received>>
  BY DEF handleData, ControlType, HasSession, InTheirSlots
<1>2. CASE ws' = [ws EXCEPT ![c] = "open"] /\ UNCHANGED <<queue, g_conns>>
  <2> HIDE DEF c
  <2>1. ControlType' /\ InTheirSlots' /\ HasSession'
    BY <1>1, <1>2 DEF ControlType, InTheirSlots, HasSession
  <2>2. Started'
    BY <1>1, <1>2 DEF ControlType, Started
  <2>3. OwnsItsId'
    BY <1>1, <1>2 DEF ControlType, OwnsItsId
  <2> QED BY <2>1, <2>2, <2>3
<1>3. CASE /\ ws' = [ws EXCEPT ![c] = "open"]
           /\ queue' = Append(queue, job)
           /\ UNCHANGED g_conns
  <2>1. job \in Job /\ job.conn = c
    BY <1>1 DEF Job
  <2> HIDE DEF c, job
  <2>2. ControlType' /\ InTheirSlots' /\ HasSession'
    BY <1>1, <1>3, <2>1 DEF ControlType, InTheirSlots, HasSession
  <2>3. Started'
    <3>1. \A d \in Conns : ws'[d] = "none" => ws[d] = "none" /\ d # c
      BY <1>1, <1>3 DEF ControlType
    <3>2. \A i \in 1 .. Len(queue') : queue'[i] = job \/ (i \in 1 .. Len(queue) /\ queue'[i] = queue[i])
      <4>1. queue \in Seq(Job) /\ queue' = Append(queue, job)
        BY <1>3 DEF ControlType
      <4> QED BY <2>1, <4>1, QueueElements
    <3>3. \A i \in 1 .. Len(queue) : queue[i].conn \in Conns
      BY QueueElements DEF ControlType
    <3>4. \A i \in 1 .. Len(queue') : ws'[queue'[i].conn] # "none"
      BY <1>1, <2>1, <3>1, <3>2, <3>3 DEF Started
    <3>5. \A d \in Conns \ opened' : ws'[d] = "none"
      BY <1>1, <1>3 DEF ControlType, Started
    <3> QED BY <3>4, <3>5 DEF Started
  <2>4. OwnsItsId'
    BY <1>1, <1>3 DEF ControlType, OwnsItsId
  <2> QED BY <2>2, <2>3, <2>4
<1>4. CASE BridgeClose(connId[c]) /\ UNCHANGED <<ws, queue>>
  <2>1. g_conns' = [g_conns EXCEPT ![s] = NoConn]
    BY <1>1, <1>4 DEF BridgeClose
  <2> HIDE DEF c
  <2>2. ControlType' /\ InTheirSlots' /\ HasSession'
    BY <1>1, <1>4, <2>1 DEF ControlType, InTheirSlots, HasSession
  <2>3. Started'
    BY <1>1, <1>4 DEF ControlType, Started
  <2>4. OwnsItsId'
    BY <1>1, <1>4, <2>1 DEF ControlType, OwnsItsId
  <2> QED BY <2>2, <2>3, <2>4
<1> QED BY <1>2, <1>3, <1>4 DEF handleData, QueueClose

\* handleClose and stopTunnel: every session of the slots S is told to stop, and
\* the slots that are cleared are among them.
LEMMA CloseStep ==
  ASSUME Ownership, NEW S \in SUBSET Slots, CloseSessions(S),
         g_conns' \in [Slots -> Conns \cup {NoConn}],
         \A s \in Slots : g_conns'[s] = g_conns[s] \/ (s \in S /\ g_conns'[s] = NoConn),
         UNCHANGED <<opened, connId, queue, received>>
  PROVE  Ownership'
<1> DEFINE closed == {c \in Conns : \E s \in S : sessions[s] = c}
<1> USE SessionAssumption DEF Ownership
<1>1. /\ dead' = [c \in Conns |-> dead[c] \/ c \in closed]
      /\ ws' = [c \in Conns |-> IF c \in closed /\ ws[c] = "open" THEN "cancelled" ELSE ws[c]]
      /\ sessions' = [s \in Slots |-> IF s \in S THEN NoConn ELSE sessions[s]]
  BY DEF CloseSessions
<1>2. ControlType'
  <2>1. dead' \in [Conns -> BOOLEAN]
    BY <1>1, Zenon DEF ControlType
  <2> QED BY <1>1, <2>1 DEF ControlType
<1>3. \A c \in Conns : (ws'[c] = "none") <=> (ws[c] = "none")
  BY <1>1 DEF ControlType
<1>4. \A c \in Conns : dead'[c] <=> (dead[c] \/ c \in closed)
  BY <1>1, Zenon
<1>5. \A s \in Slots : g_conns[s] # NoConn /\ s \in S => dead'[g_conns[s]]
  BY <1>4 DEF ControlType, HasSession
<1>6. InTheirSlots'
  BY <1>1 DEF ControlType, InTheirSlots
<1>7. HasSession'
  <2> SUFFICES ASSUME NEW s \in Slots, g_conns'[s] # NoConn
               PROVE  \/ sessions'[s] = g_conns'[s]
                      \/ sessions'[s] = NoConn /\ dead'[g_conns'[s]]
    BY DEF HasSession
  <2>1. g_conns'[s] = g_conns[s] /\ g_conns[s] \in Conns
    BY DEF ControlType
  <2>2. CASE s \in S
    BY <1>1, <1>5, <2>1, <2>2
  <2>3. CASE s \notin S
    BY <1>1, <1>4, <2>1, <2>3 DEF HasSession
  <2> QED BY <2>2, <2>3
<1>8. Started'
  <2>1. \A i \in 1 .. Len(queue) : queue[i].conn \in Conns
    BY QueueElements DEF ControlType
  <2> QED BY <1>3, <2>1 DEF Started
<1>9. OwnsItsId'
  <2> SUFFICES ASSUME NEW c \in Conns, ws'[c] # "none", ~dead'[c]
               PROVE  g_conns'[connId[c]] = c
    BY DEF OwnsItsId
  <2>1. connId[c] \in Slots /\ g_conns[connId[c]] = c
    BY <1>3, <1>4 DEF ControlType, OwnsItsId
  <2>2. connId[c] \notin S
    BY <1>5, <2>1
  <2> QED BY <2>1, <2>2
<1> QED BY <1>2, <1>6, <1>7, <1>8, <1>9

\* handleWSData and handleWSClose: a callback of a WebSocket only queues a job.
LEMMA CallbackStep ==
  ASSUME Ownership, NEW c \in Conns,
         handleWSClose(c) \/ \E k \in 1 .. MaxFrame : handleWSData(c, k)
  PROVE  Ownership'
<1> USE SessionAssumption DEF Ownership
<1>1. PICK j \in Job : j.conn = c /\ queue' = Append(queue, j)
  <2>1. CASE handleWSClose(c)
    <3>1. [kind |-> "close", conn |-> c, data |-> <<>>] \in Job
      BY DEF Job
    <3> QED BY <2>1, <3>1 DEF handleWSClose, QueueClose
  <2>2. ASSUME NEW k \in 1 .. MaxFrame, handleWSData(c, k)
        PROVE  \E j \in Job : j.conn = c /\ queue' = Append(queue, j)
    <3> DEFINE data == [i \in 1 .. k |-> Byte(c, received[c] + i)]
    <3>1. \A i \in 1 .. k : Byte(c, received[c] + i) \in Bytes
      BY <2>2 DEF handleWSData, Bytes, Byte, ControlType
    <3>2. k \in Nat /\ data \in [1 .. k -> Bytes]
      BY <3>1
    <3>3. data \in Seq(Bytes)
      BY <3>2
    <3>4. [kind |-> "data", conn |-> c, data |-> data] \in Job
      BY <3>3 DEF Job
    <3> QED BY <2>2, <3>4 DEF handleWSData
  <2> QED BY <2>1, <2>2
<1>2. /\ ws[c] # "none"
      /\ ws' \in [Conns -> {"none", "open", "cancelled"}]
      /\ \A d \in Conns : (ws'[d] = "none") <=> (ws[d] = "none")
      /\ received' \in [Conns -> 0 .. MaxBytes]
      /\ UNCHANGED <<g_conns, opened, sessions, connId, dead>>
  <2>1. CASE handleWSClose(c)
    BY <2>1 DEF handleWSClose, ControlType
  <2>2. ASSUME NEW k \in 1 .. MaxFrame, handleWSData(c, k)
        PROVE  /\ ws[c] # "none" /\ ws' = ws
               /\ received' \in [Conns -> 0 .. MaxBytes]
               /\ UNCHANGED <<g_conns, opened, sessions, connId, dead>>
    BY <2>2 DEF handleWSData, ControlType
  <2> QED BY <2>1, <2>2 DEF ControlType
<1>3. ControlType'
  BY <1>1, <1>2 DEF ControlType
<1>4. InTheirSlots' /\ HasSession' /\ OwnsItsId'
  BY <1>2 DEF ControlType, InTheirSlots, HasSession, OwnsItsId
<1>5. Started'
  <2>1. queue' \in Seq(Job)
    BY <1>1 DEF ControlType
  <2>2. \A i \in 1 .. Len(queue') : queue'[i].conn \in Conns
    BY <2>1, QueueElements
  <2>3. \A i \in 1 .. Len(queue') : ws[queue'[i].conn] # "none"
    BY <1>1, <1>2, QueueStep
  <2> QED BY <1>2, <2>2, <2>3 DEF Started
<1> QED BY <1>3, <1>4, <1>5

\* RunDataJob and RunCloseJob: the slot a job closes is the session's own.
LEMMA JobStep ==
  ASSUME Ownership, RunDataJob \/ RunCloseJob
  PROVE  Ownership'
<1> DEFINE c == Head(queue).conn
<1> USE SessionAssumption DEF Ownership
<1>1. /\ queue # <<>> /\ queue' = Tail(queue)
      /\ UNCHANGED <<opened, sessions, connId, ws, received>>
  BY DEF RunDataJob, RunCloseJob
<1>2. /\ c \in Conns /\ ws[c] # "none"
      /\ Tail(queue) \in Seq(Job)
      /\ \A i \in 1 .. Len(Tail(queue)) : ws[Tail(queue)[i].conn] # "none"
  BY <1>1, QueueStep DEF Job
<1>3. Started'
  BY <1>1, <1>2 DEF Started
<1>4. \/ UNCHANGED <<dead, g_conns>>
      \/ /\ ~dead[c]
         /\ dead' = [dead EXCEPT ![c] = TRUE]
         /\ g_conns' = [g_conns EXCEPT ![connId[c]] = NoConn]
  BY DEF RunDataJob, RunCloseJob, BridgeClose
<1> HIDE DEF c
<1>5. CASE UNCHANGED <<dead, g_conns>>
  BY <1>1, <1>2, <1>3, <1>5 DEF ControlType, InTheirSlots, HasSession, OwnsItsId
<1>6. CASE /\ ~dead[c]
           /\ dead' = [dead EXCEPT ![c] = TRUE]
           /\ g_conns' = [g_conns EXCEPT ![connId[c]] = NoConn]
  <2>1. connId[c] \in Slots /\ g_conns[connId[c]] = c
    BY <1>2, <1>6 DEF ControlType, OwnsItsId
  <2>2. ControlType'
    BY <1>1, <1>2, <1>6, <2>1 DEF ControlType
  <2>3. InTheirSlots'
    BY <1>1, <1>6, <2>1 DEF ControlType, InTheirSlots
  <2>4. HasSession'
    BY <1>1, <1>2, <1>6, <2>1 DEF ControlType, HasSession
  <2>5. OwnsItsId'
    BY <1>1, <1>2, <1>6, <2>1 DEF ControlType, OwnsItsId
  <2> QED BY <1>3, <2>2, <2>3, <2>4, <2>5
<1> QED BY <1>4, <1>5, <1>6

\* A step that leaves the control state alone: handleSent and stuttering.
LEMMA SameControl ==
  ASSUME Ownership, UNCHANGED control
  PROVE  Ownership'
BY DEF Ownership, control, ControlType, InTheirSlots, HasSession, Started, OwnsItsId

\* Every step keeps ownership, also one that leaves the control state alone.
LEMMA OwnershipStep == Ownership /\ [Next]_vars => Ownership'
<1> SUFFICES ASSUME Ownership, [Next]_vars PROVE Ownership'
  OBVIOUS
<1>1. CASE UNCHANGED vars
  BY <1>1, SameControl DEF vars, control
<1>2. ASSUME NEW c \in Conns, handleAccept(c) PROVE Ownership'
  BY <1>2, AcceptStep
<1>3. ASSUME NEW c \in Conns,
             handleWSClose(c) \/ \E k \in 1 .. MaxFrame : handleWSData(c, k)
      PROVE  Ownership'
  BY <1>3, CallbackStep
<1>4. ASSUME NEW s \in Slots, handleData(s) PROVE Ownership'
  BY <1>4, DataStep
<1>5. ASSUME NEW s \in Slots, handleClose(s) PROVE Ownership'
  <2>1. {s} \in SUBSET Slots /\ CloseSessions({s})
    BY <1>5 DEF handleClose
  <2>2. /\ g_conns' \in [Slots -> Conns \cup {NoConn}]
        /\ \A t \in Slots : g_conns'[t] = g_conns[t] \/ (t \in {s} /\ g_conns'[t] = NoConn)
        /\ UNCHANGED <<opened, connId, queue, received>>
    BY <1>5 DEF handleClose, BridgeClose, Ownership, ControlType
  <2> QED BY <2>1, <2>2, CloseStep
<1>6. ASSUME NEW s \in Slots, \E n \in 1 .. SndBuf : handleSent(s, n) PROVE Ownership'
  BY <1>6, SameControl DEF handleSent, control
<1>7. CASE stopTunnel
  <2>1. /\ Slots \in SUBSET Slots /\ CloseSessions(Slots)
        /\ g_conns' \in [Slots -> Conns \cup {NoConn}]
        /\ \A t \in Slots : g_conns'[t] = g_conns[t] \/ (t \in Slots /\ g_conns'[t] = NoConn)
        /\ UNCHANGED <<opened, connId, queue, received>>
    BY <1>7 DEF stopTunnel, Ownership, ControlType
  <2> QED BY <2>1, CloseStep
<1>8. CASE RunDataJob \/ RunCloseJob
  BY <1>8, JobStep
<1> QED BY <1>1, <1>2, <1>3, <1>4, <1>5, <1>6, <1>7, <1>8 DEF Next

\* A session that is not dead owns the id it writes to and closes, through every
\* interleaving of accepts, closes, late WebSocket callbacks and stopTunnel: the
\* flag "dead" of TunnelSession.swift is enough against the reuse of ids.
THEOREM SessionsOwnTheirIds == Spec => []OwnsItsId
<1>1. Ownership => OwnsItsId
  BY DEF Ownership
<1> QED BY <1>1, OwnershipInit, OwnershipStep, PTL DEF Spec

\* RunCloseJob: the only slot a late job of a WebSocket clears is the one its own
\* connection is in, because a job of a session that has lost its id does nothing.
THEOREM JobsCloseTheirOwn == Spec => ClosesOnlyItsOwn
<1> DEFINE OwnSlot == RunCloseJob => \A s \in Slots : g_conns'[s] # g_conns[s] => g_conns[s] = Head(queue).conn
<1>1. Ownership /\ [Next]_vars => [OwnSlot]_vars
  <2> SUFFICES ASSUME Ownership, RunCloseJob, NEW s \in Slots, g_conns'[s] # g_conns[s]
               PROVE  g_conns[s] = Head(queue).conn
    OBVIOUS
  <2> DEFINE c == Head(queue).conn
  <2>1. c \in Conns /\ ws[c] # "none"
    BY QueueStep DEF RunCloseJob, Job
  <2>2. ~dead[c] /\ g_conns' = [g_conns EXCEPT ![connId[c]] = NoConn]
    BY DEF RunCloseJob, BridgeClose
  <2>3. g_conns[connId[c]] = c
    BY <2>1, <2>2 DEF Ownership, OwnsItsId
  <2>4. s = connId[c]
    BY <2>2 DEF Ownership, ControlType
  <2> QED BY <2>3, <2>4
<1> HIDE DEF OwnSlot
<1>2. Spec => [][OwnSlot]_vars
  BY <1>1, OwnershipInit, OwnershipStep, PTL DEF Spec
<1> QED BY <1>2 DEF ClosesOnlyItsOwn, OwnSlot

-----------------------------------------------------------------------------
(* The bytes *)

\* The n bytes of the gateway's stream for c that follow the first a.
Part(c, a, n) == [i \in 1 .. n |-> Byte(c, a + i)]

\* How many bytes of the stream have left the queue.
Given(c) == Len(wrote[c]) + Len(pending[c])

\* The part of TypeOK about bytes, and that nothing comes from nowhere.
DataType ==
  /\ workerDomain \in BOOLEAN
  /\ pending \in [Conns -> Seq(Bytes)]
  /\ wrote \in [Conns -> Seq(Bytes)]
  /\ acked \in [Conns -> Nat]
  /\ \A c \in Conns : Given(c) <= received[c]
  /\ \A c \in Conns : ws[c] = "none" => received[c] = 0

\* What a connection was given and what waits are consecutive parts of its stream,
\* also when its session is dead; for one that is not, the queue holds the rest.
Placed ==
  \A c \in Conns :
    /\ wrote[c] = Part(c, 0, Len(wrote[c]))
    /\ pending[c] = Part(c, Len(wrote[c]), Len(pending[c]))
    /\ ~dead[c] => Queued(c) = Part(c, Given(c), received[c] - Given(c))

\* No send buffer holds more than it may, nor all together more than there is.
Buffered ==
  /\ \A c \in Conns : Unacked(acked, c) \in 0 .. SndBuf
  /\ InUse(acked) <= Shared

StreamInv == Ownership /\ DataType /\ Placed /\ Buffered

-----------------------------------------------------------------------------
(* Sums *)

\* A sum, with what it is after each of its terms.
Sums(f, v, n) ==
  /\ f \in [0 .. n -> Int]
  /\ f[0] = 0
  /\ \A i \in 1 .. n : f[i] = f[i - 1] + v[i - 1]

\* The loop of Total has a result.
LEMMA TotalIs ==
  ASSUME NEW n \in Nat, NEW v \in [0 .. n - 1 -> Int]
  PROVE  \E f : Sums(f, v, n) /\ Total(v, n) = f[n]
<1> DEFINE step == [i \in 1 .. n |-> [x \in Int |-> x + v[i - 1]]]
           Is(g) == g = [i \in 0 .. n |-> IF i = 0 THEN 0 ELSE g[i - 1] + v[i - 1]]
           f == CHOOSE g : Is(g)
<1>1. \A i \in 1 .. n : i - 1 \in 0 .. n - 1 /\ v[i - 1] \in Int
  OBVIOUS
<1>2. step \in [1 .. n -> [Int -> Int]] /\ 0 \in Int
  BY <1>1
<1>3. \A i \in 1 .. n : \A x \in Int : step[i][x] = x + v[i - 1]
  OBVIOUS
<1> HIDE DEF step
<1>4. PICK g \in [0 .. n -> Int] : IsLoop(g, n, 0, step)
  BY <1>2, LoopExists
<1>5. \A i \in 1 .. n : i - 1 \in 0 .. n /\ g[i - 1] \in Int
  OBVIOUS
<1>6. \A i \in 0 .. n : g[i] = IF i = 0 THEN 0 ELSE g[i - 1] + v[i - 1]
  <2>1. g[0] = 0
    BY <1>4 DEF IsLoop
  <2>2. ASSUME NEW i \in 1 .. n PROVE g[i] = g[i - 1] + v[i - 1]
    BY <1>3, <1>4, <1>5 DEF IsLoop
  <2> QED BY <2>1, <2>2
<1>7. Is(g)
  BY <1>6
<1>8. Is(f)
  <2> HIDE DEF Is
  <2> QED BY <1>7, Zenon
<1>9. Total(v, n) = f[n]
  BY Zenon DEF Total
<1> HIDE DEF f
<1>10. f[0] = 0 /\ \A i \in 1 .. n : f[i] = f[i - 1] + v[i - 1]
  BY <1>8
<1> DEFINE P == {i \in 0 .. n : f[i] \in Int}
<1>11. \A i \in 0 .. n : i \in P
  <2>1. 0 \in P
    BY <1>10
  <2>2. ASSUME NEW i \in 0 .. n - 1, i \in P PROVE i + 1 \in P
    <3>1. i + 1 \in 1 .. n /\ i + 1 - 1 = i /\ f[i] \in Int
      BY <2>2
    <3>2. f[i + 1] = f[i] + v[i] /\ v[i] \in Int
      BY <1>1, <1>10, <3>1
    <3> QED BY <3>1, <3>2
  <2> HIDE DEF P
  <2> QED BY <2>1, <2>2, InductionUpTo
<1>12. f = [i \in 0 .. n |-> f[i]]
  BY <1>8
<1>13. Sums(f, v, n)
  BY <1>10, <1>11, <1>12 DEF Sums
<1> QED BY <1>9, <1>13

\* What changes one term by some amount changes the sum by as much.
LEMMA TotalChange ==
  ASSUME NEW n \in Nat, NEW v \in [0 .. n - 1 -> Int], NEW w \in [0 .. n - 1 -> Int],
         NEW k \in 0 .. n - 1, \A i \in 0 .. n - 1 : i # k => w[i] = v[i]
  PROVE  /\ Total(v, n) \in Int /\ Total(w, n) \in Int
         /\ Total(w, n) - Total(v, n) = w[k] - v[k]
<1>1. PICK f : Sums(f, v, n) /\ Total(v, n) = f[n]
  BY TotalIs
<1>2. PICK g : Sums(g, w, n) /\ Total(w, n) = g[n]
  BY TotalIs
<1> DEFINE P == {i \in 0 .. n : g[i] - f[i] = IF i <= k THEN 0 ELSE w[k] - v[k]}
<1>3. 0 \in P
  BY <1>1, <1>2 DEF Sums
<1>4. ASSUME NEW i \in 0 .. n - 1, i \in P PROVE i + 1 \in P
  <2>1. i + 1 \in 1 .. n /\ i + 1 - 1 = i /\ i \in 0 .. n /\ f[i] \in Int /\ g[i] \in Int
    BY <1>1, <1>2 DEF Sums
  <2>2. f[i + 1] = f[i] + v[i] /\ g[i + 1] = g[i] + w[i]
    BY <1>1, <1>2, <2>1, SMTT(20) DEF Sums
  <2>3. v[i] \in Int /\ w[i] \in Int /\ v[k] \in Int /\ w[k] \in Int
    OBVIOUS
  <2>4. g[i] - f[i] = IF i <= k THEN 0 ELSE w[k] - v[k]
    BY <1>4
  <2>5. CASE i < k
    <3>1. g[i] - f[i] = 0 /\ w[i] = v[i]
      BY <2>4, <2>5
    <3> QED BY <2>1, <2>2, <2>3, <2>5, <3>1, SMTT(20)
  <2>6. CASE i = k
    <3>1. g[i] - f[i] = 0
      BY <2>4, <2>6
    <3> QED BY <2>1, <2>2, <2>3, <2>6, <3>1, SMTT(20)
  <2>7. CASE i > k
    <3>1. g[i] - f[i] = w[k] - v[k] /\ w[i] = v[i]
      BY <2>4, <2>7
    <3> QED BY <2>1, <2>2, <2>3, <2>7, <3>1, SMTT(20)
  <2> QED BY <2>5, <2>6, <2>7
<1>5. \A i \in 0 .. n : i \in P
  <2> HIDE DEF P
  <2> QED BY <1>3, <1>4, InductionUpTo
<1>6. n \in P /\ f[n] \in Int /\ g[n] \in Int /\ ~(n <= k)
  BY <1>1, <1>2, <1>5 DEF Sums
<1> QED BY <1>1, <1>2, <1>6

\* A sum of terms that are all within a bound.
LEMMA TotalBound ==
  ASSUME NEW n \in Nat, NEW b \in Nat, NEW v \in [0 .. n - 1 -> 0 .. b]
  PROVE  Total(v, n) \in Int /\ 0 <= Total(v, n) /\ Total(v, n) <= n * b
<1>1. v \in [0 .. n - 1 -> Int]
  OBVIOUS
<1>2. PICK f : Sums(f, v, n) /\ Total(v, n) = f[n]
  BY <1>1, TotalIs
<1> DEFINE P == {i \in 0 .. n : 0 <= f[i] /\ f[i] <= i * b}
<1>3. 0 \in P
  BY <1>2 DEF Sums
<1>4. ASSUME NEW i \in 0 .. n - 1, i \in P PROVE i + 1 \in P
  <2>1. i + 1 \in 1 .. n /\ i + 1 - 1 = i /\ i \in 0 .. n /\ f[i] \in Int
    BY <1>2 DEF Sums
  <2>2. f[i + 1] = f[i] + v[i] /\ v[i] \in 0 .. b
    BY <1>2, <2>1 DEF Sums
  <2>3. (i + 1) * b = i * b + b /\ i * b \in Int
    OBVIOUS
  <2>4. 0 <= f[i + 1] /\ f[i + 1] <= (i + 1) * b
    BY <1>4, <2>1, <2>2, <2>3
  <2> QED BY <2>1, <2>4
<1>5. \A i \in 0 .. n : i \in P
  <2> HIDE DEF P
  <2> QED BY <1>3, <1>4, InductionUpTo
<1>6. n \in P /\ f[n] \in Int
  BY <1>2, <1>5 DEF Sums
<1> QED BY <1>2, <1>6

-----------------------------------------------------------------------------
(* The bytes in the queue *)

\* What job j carries for c.
Own(j, c) == IF j.conn = c THEN j.data ELSE <<>>

\* The bytes for c in the jobs of q, with what they are after each of the jobs.
Cats(f, q, c) ==
  /\ f \in [0 .. Len(q) -> Seq(Bytes)]
  /\ f[0] = <<>>
  /\ \A i \in 1 .. Len(q) : f[i] = f[i - 1] \o Own(q[i], c)

\* What one job carries.
LEMMA OwnType ==
  ASSUME NEW j \in Job, NEW c
  PROVE  Own(j, c) \in Seq(Bytes)
<1>1. j.data \in Seq(Bytes)
  BY DEF Job
<1>2. <<>> \in Seq(Bytes)
  OBVIOUS
<1> QED BY <1>1, <1>2, Zenon DEF Own

\* Appending to a sequence is a function on sequences.
LEMMA ConcatFun ==
  ASSUME NEW S, NEW t \in Seq(S)
  PROVE  [x \in Seq(S) |-> x \o t] \in [Seq(S) -> Seq(S)]
<1>1. \A x \in Seq(S) : x \o t \in Seq(S)
  BY ConcatProperties
<1> QED BY <1>1, Zenon

\* The loop of DataOf has a result.
LEMMA DataOfIs ==
  ASSUME NEW q \in Seq(Job), NEW c
  PROVE  \E f : Cats(f, q, c) /\ DataOf(q, c) = f[Len(q)]
<1> DEFINE n == Len(q)
           S == Seq(Bytes)
           step == [i \in 1 .. n |-> [x \in S |-> x \o Own(q[i], c)]]
           Is(g) == g = [i \in 0 .. n |->
                          IF i = 0 THEN <<>> ELSE g[i - 1] \o (IF q[i].conn = c THEN q[i].data ELSE <<>>)]
           f == CHOOSE g : Is(g)
<1>1. n \in Nat /\ <<>> \in S
  OBVIOUS
<1>2. step \in [1 .. n -> [S -> S]]
  <2>1. ASSUME NEW i \in 1 .. n PROVE [x \in S |-> x \o Own(q[i], c)] \in [S -> S]
    <3>1. q[i] \in Job
      OBVIOUS
    <3> QED BY <3>1, OwnType, ConcatFun
  <2> HIDE DEF S
  <2> QED BY <2>1, Zenon
<1>3. \A i \in 1 .. n : \A x \in S : step[i][x] = x \o Own(q[i], c)
  BY Zenon
<1> HIDE DEF step, S
<1>4. PICK g \in [0 .. n -> S] : IsLoop(g, n, <<>>, step)
  <2> HIDE DEF n
  <2> QED BY <1>1, <1>2, LoopExists, Zenon
<1>5. g[0] = <<>> /\ \A i \in 1 .. n : g[i] = step[i][g[i - 1]]
  BY <1>4, Zenon DEF IsLoop
<1>6. ASSUME NEW i \in 1 .. n PROVE g[i] = g[i - 1] \o Own(q[i], c)
  <2>1. i - 1 \in 0 .. n
    BY <1>1
  <2>2. g[i - 1] \in S
    BY <1>4, <2>1, Zenon
  <2> QED BY <1>3, <1>5, <2>2, Zenon
<1>7. Is(g)
  <2>1. ASSUME NEW i \in 0 .. n
        PROVE  g[i] = IF i = 0 THEN <<>> ELSE g[i - 1] \o (IF q[i].conn = c THEN q[i].data ELSE <<>>)
    <3>1. CASE i = 0
      BY <1>5, <3>1, Zenon
    <3>2. CASE i # 0
      <4>1. i \in 1 .. n
        BY <1>1, <3>2
      <4> QED BY <1>6, <3>2, <4>1, Zenon DEF Own
    <3> QED BY <3>1, <3>2
  <2> QED BY <1>4, <2>1, Zenon
<1>8. Is(f)
  <2> HIDE DEF Is
  <2> QED BY <1>7, Zenon
<1>9. DataOf(q, c) = f[n]
  BY Zenon DEF DataOf
<1> HIDE DEF f
<1>10. f = g
  <2>1. f = [i \in 0 .. n |-> f[i]] /\ g = [i \in 0 .. n |-> g[i]]
    BY <1>4, <1>8, Zenon
  <2> DEFINE P == {i \in 0 .. n : f[i] = g[i]}
  <2>2. 0 \in 0 .. n
    BY <1>1
  <2>3. 0 \in P
    BY <1>5, <1>8, <2>2, Zenon
  <2>4. ASSUME NEW i \in 0 .. n - 1, i \in P PROVE i + 1 \in P
    <3>1. i + 1 \in 1 .. n /\ i + 1 \in 0 .. n /\ (i + 1) - 1 = i /\ i + 1 # 0
      BY <1>1
    <3>2. f[i + 1] = f[i] \o Own(q[i + 1], c)
      BY <1>8, <3>1, Zenon DEF Own
    <3>3. g[i + 1] = g[i] \o Own(q[i + 1], c)
      BY <1>6, <3>1, Zenon
    <3>4. f[i] = g[i]
      BY <2>4, Zenon
    <3> QED BY <3>1, <3>2, <3>3, <3>4, Zenon
  <2>5. \A i \in 0 .. n : i \in P
    <3> HIDE DEF P, n
    <3> QED BY <1>1, <2>3, <2>4, InductionUpTo
  <2>6. \A i \in 0 .. n : f[i] = g[i]
    BY <2>5
  <2> QED BY <2>1, <2>6, Zenon
<1>11. Cats(g, q, c)
  BY <1>4, <1>5, <1>6, Zenon DEF Cats, S
<1> QED BY <1>9, <1>10, <1>11

\* A job that is appended adds what it carries.
LEMMA DataOfAppend ==
  ASSUME NEW q \in Seq(Job), NEW j \in Job, NEW c
  PROVE  /\ DataOf(q, c) \in Seq(Bytes)
         /\ DataOf(Append(q, j), c) = DataOf(q, c) \o Own(j, c)
<1> DEFINE n == Len(q)
           r == Append(q, j)
<1>1. /\ n \in Nat /\ r \in Seq(Job) /\ Len(r) = n + 1
      /\ r[n + 1] = j /\ \A i \in 1 .. n : r[i] = q[i]
  OBVIOUS
<1>2. PICK f : Cats(f, q, c) /\ DataOf(q, c) = f[n]
  BY DataOfIs
<1>3. PICK g : Cats(g, r, c) /\ DataOf(r, c) = g[Len(r)]
  BY <1>1, DataOfIs
<1> HIDE DEF r, n
<1> DEFINE P == {i \in 0 .. n : g[i] = f[i]}
<1>4. 0 \in P
  BY <1>1, <1>2, <1>3 DEF Cats, n
<1>5. ASSUME NEW i \in 0 .. n - 1, i \in P PROVE i + 1 \in P
  <2>1. i + 1 \in 1 .. n /\ i + 1 \in 1 .. n + 1 /\ i + 1 \in 0 .. n /\ (i + 1) - 1 = i
    BY <1>1
  <2>2. f[i + 1] = f[i] \o Own(q[i + 1], c)
    BY <1>2, <2>1, Zenon DEF Cats, n
  <2>3. g[i + 1] = g[i] \o Own(r[i + 1], c)
    BY <1>1, <1>3, <2>1, Zenon DEF Cats
  <2>4. g[i] = f[i] /\ r[i + 1] = q[i + 1]
    BY <1>1, <1>5, <2>1, Zenon
  <2> QED BY <2>1, <2>2, <2>3, <2>4, Zenon
<1>6. n \in P
  <2> HIDE DEF P
  <2>1. \A i \in 0 .. n : i \in P
    BY <1>1, <1>4, <1>5, InductionUpTo
  <2> QED BY <1>1, <2>1
<1>7. g[n + 1] = g[n] \o Own(j, c)
  <2>1. n + 1 \in 1 .. n + 1 /\ (n + 1) - 1 = n
    BY <1>1
  <2> QED BY <1>1, <1>3, <2>1, Zenon DEF Cats
<1>8. f[n] \in Seq(Bytes)
  <2>1. n \in 0 .. n
    BY <1>1
  <2> QED BY <1>2, <2>1, Zenon DEF Cats, n
<1>9. g[n] = f[n] /\ Len(r) = n + 1
  BY <1>1, <1>6, Zenon
<1> QED BY <1>2, <1>3, <1>7, <1>8, <1>9, Zenon DEF r

\* The first job carries the first bytes.
LEMMA DataOfTail ==
  ASSUME NEW q \in Seq(Job), q # <<>>, NEW c
  PROVE  /\ Head(q) \in Job /\ Tail(q) \in Seq(Job)
         /\ DataOf(Tail(q), c) \in Seq(Bytes)
         /\ DataOf(q, c) = Own(Head(q), c) \o DataOf(Tail(q), c)
<1> DEFINE n == Len(q) - 1
           r == Tail(q)
           h == Own(q[1], c)
<1>1. /\ n \in Nat /\ Len(q) = n + 1 /\ r \in Seq(Job) /\ Len(r) = n
      /\ Head(q) = q[1] /\ q[1] \in Job
      /\ \A i \in 1 .. n : r[i] = q[i + 1] /\ r[i] \in Job
  OBVIOUS
<1>2. PICK f : Cats(f, q, c) /\ DataOf(q, c) = f[Len(q)]
  BY DataOfIs
<1>3. PICK g : Cats(g, r, c) /\ DataOf(r, c) = g[Len(r)]
  BY <1>1, DataOfIs
<1>4. h \in Seq(Bytes)
  BY <1>1, OwnType
<1>5. \A i \in 0 .. n : g[i] \in Seq(Bytes)
  BY <1>1, <1>3, Zenon DEF Cats
<1> HIDE DEF r, n, h
<1> DEFINE P == {i \in 0 .. n : f[i + 1] = h \o g[i]}
<1>6. 0 \in P
  <2>1. 1 \in 1 .. n + 1 /\ 1 - 1 = 0 /\ 0 + 1 = 1 /\ 0 \in 0 .. n
    BY <1>1
  <2>2. f[1] = <<>> \o h
    BY <1>1, <1>2, <2>1, Zenon DEF Cats, h
  <2>3. g[0] = <<>>
    BY <1>3, Zenon DEF Cats
  <2>4. <<>> \o h = h /\ h \o <<>> = h
    BY <1>4, ConcatEmptySeq
  <2> QED BY <2>1, <2>2, <2>3, <2>4, Zenon
<1>7. ASSUME NEW i \in 0 .. n - 1, i \in P PROVE i + 1 \in P
  <2>1. /\ (i + 1) + 1 \in 1 .. n + 1 /\ ((i + 1) + 1) - 1 = i + 1
        /\ i + 1 \in 1 .. n /\ i + 1 \in 0 .. n /\ i \in 0 .. n /\ (i + 1) - 1 = i
    BY <1>1
  <2> DEFINE x == Own(r[i + 1], c)
  <2>2. x \in Seq(Bytes) /\ g[i] \in Seq(Bytes)
    BY <1>1, <1>5, <2>1, OwnType
  <2>3. r[i + 1] = q[(i + 1) + 1]
    BY <1>1, <2>1, Zenon
  <2>4. f[(i + 1) + 1] = f[i + 1] \o x
    BY <1>1, <1>2, <2>1, <2>3, Zenon DEF Cats
  <2>5. g[i + 1] = g[i] \o x
    BY <1>1, <1>3, <2>1, Zenon DEF Cats
  <2>6. f[i + 1] = h \o g[i]
    BY <1>7, Zenon
  <2> HIDE DEF x
  <2>7. (h \o g[i]) \o x = h \o (g[i] \o x)
    <3>1. \A s, t, u \in Seq(Bytes) : (s \o t) \o u = s \o (t \o u)
      BY ConcatAssociative
    <3> QED BY <1>4, <2>2, <3>1, Zenon
  <2> QED BY <2>1, <2>4, <2>5, <2>6, <2>7, Zenon
<1>8. n \in P
  <2> HIDE DEF P
  <2>1. \A i \in 0 .. n : i \in P
    BY <1>1, <1>6, <1>7, InductionUpTo
  <2> QED BY <1>1, <2>1
<1>9. f[n + 1] = h \o g[n] /\ g[n] \in Seq(Bytes)
  BY <1>5, <1>8, Zenon
<1> QED BY <1>1, <1>2, <1>3, <1>9, Zenon DEF r, h

-----------------------------------------------------------------------------
(* Parts of a stream *)

\* A part within the stream is a sequence of its bytes.
LEMMA PartType ==
  ASSUME NEW c \in Conns, NEW a \in Nat, NEW n \in Nat, a + n <= MaxBytes
  PROVE  /\ Part(c, a, n) \in Seq(Bytes) /\ Len(Part(c, a, n)) = n
         /\ \A i \in 1 .. n : Part(c, a, n)[i] = Byte(c, a + i)
<1>1. \A i \in 1 .. n : Byte(c, a + i) \in Bytes
  <2> TAKE i \in 1 .. n
  <2>1. a + i \in 1 .. MaxBytes
    BY SessionAssumption
  <2> QED BY <2>1 DEF Byte, Bytes
<1> DEFINE p == Part(c, a, n)
<1>2. p \in [1 .. n -> Bytes] /\ \A i \in 1 .. n : p[i] = Byte(c, a + i)
  BY <1>1, Zenon DEF Part
<1> HIDE DEF p
<1>3. p \in Seq(Bytes) /\ Len(p) = n
  BY <1>2
<1> QED BY <1>2, <1>3 DEF p

\* Where the bytes of two sequences are when they are joined.
LEMMA Joined ==
  ASSUME NEW x \in Seq(Bytes), NEW y \in Seq(Bytes)
  PROVE  /\ x \o y \in Seq(Bytes) /\ Len(x \o y) = Len(x) + Len(y)
         /\ Len(x) \in Nat /\ Len(y) \in Nat
         /\ \A i \in 1 .. Len(x) : (x \o y)[i] = x[i]
         /\ \A i \in 1 .. Len(y) : (x \o y)[Len(x) + i] = y[i]
<1> DEFINE k == Len(x)
           m == Len(y)
           z == x \o y
<1>1. k \in Nat /\ m \in Nat
  OBVIOUS
<1>2. /\ z \in Seq(Bytes) /\ Len(z) = k + m
      /\ \A i \in 1 .. k + m : z[i] = IF i <= k THEN x[i] ELSE y[i - k]
  BY ConcatProperties, Zenon
<1> HIDE DEF z, k, m
<1>3. ASSUME NEW i \in 1 .. k PROVE z[i] = x[i]
  <2>1. i \in 1 .. k + m /\ i <= k
    BY <1>1
  <2> QED BY <1>2, <2>1, Zenon
<1>4. ASSUME NEW i \in 1 .. m PROVE z[k + i] = y[i]
  <2>1. k + i \in 1 .. k + m /\ ~(k + i <= k) /\ (k + i) - k = i
    BY <1>1
  <2> QED BY <1>2, <2>1, Zenon
<1> QED BY <1>1, <1>2, <1>3, <1>4, Zenon DEF z, k, m

\* If two sequences in a row are a part of the stream, each is its share of it.
LEMMA PartSplit ==
  ASSUME NEW c \in Conns, NEW a \in Nat, NEW n \in Nat, a + n <= MaxBytes,
         NEW x \in Seq(Bytes), NEW y \in Seq(Bytes), x \o y = Part(c, a, n)
  PROVE  /\ Len(x) + Len(y) = n
         /\ x = Part(c, a, Len(x))
         /\ y = Part(c, a + Len(x), Len(y))
<1> DEFINE k == Len(x)
           m == Len(y)
<1>1. /\ k \in Nat /\ m \in Nat /\ MaxBytes \in Nat /\ Len(x \o y) = k + m
      /\ \A i \in 1 .. k : (x \o y)[i] = x[i]
      /\ \A i \in 1 .. m : (x \o y)[k + i] = y[i]
  BY Joined, SessionAssumption
<1>2. k + m = n
  BY <1>1, PartType
<1>3. \A i \in 1 .. n : (x \o y)[i] = Byte(c, a + i)
  BY PartType
<1> HIDE DEF k, m
<1>4. a + k \in Nat /\ a + k <= MaxBytes /\ (a + k) + m <= MaxBytes
  BY <1>1, <1>2
<1>5. /\ Part(c, a, k) \in Seq(Bytes) /\ Len(Part(c, a, k)) = k
      /\ \A i \in 1 .. k : Part(c, a, k)[i] = Byte(c, a + i)
  BY <1>1, <1>4, PartType
<1>6. /\ Part(c, a + k, m) \in Seq(Bytes) /\ Len(Part(c, a + k, m)) = m
      /\ \A i \in 1 .. m : Part(c, a + k, m)[i] = Byte(c, (a + k) + i)
  BY <1>1, <1>4, PartType
<1>7. \A i \in 1 .. k : x[i] = Part(c, a, k)[i]
  <2> TAKE i \in 1 .. k
  <2>1. i \in 1 .. n
    BY <1>1, <1>2
  <2> QED BY <1>1, <1>3, <1>5, <2>1, Zenon
<1>8. \A i \in 1 .. m : y[i] = Part(c, a + k, m)[i]
  <2> TAKE i \in 1 .. m
  <2>1. k + i \in 1 .. n /\ a + (k + i) = (a + k) + i
    BY <1>1, <1>2
  <2> QED BY <1>1, <1>3, <1>6, <2>1, Zenon
<1>9. x = Part(c, a, k)
  BY <1>5, <1>7, SeqEqual, Zenon DEF k
<1>10. y = Part(c, a + k, m)
  BY <1>6, <1>8, SeqEqual, Zenon DEF m
<1> QED BY <1>2, <1>9, <1>10 DEF k, m

\* Two parts in a row.
LEMMA PartJoin ==
  ASSUME NEW c \in Conns, NEW a \in Nat, NEW n \in Nat, NEW k \in Nat, a + (n + k) <= MaxBytes
  PROVE  Part(c, a, n) \o Part(c, a + n, k) = Part(c, a, n + k)
<1> DEFINE x == Part(c, a, n)
           y == Part(c, a + n, k)
           p == Part(c, a, n + k)
<1>1. a + n \in Nat /\ n + k \in Nat /\ a + n <= MaxBytes /\ (a + n) + k <= MaxBytes
  BY SessionAssumption
<1>2. x \in Seq(Bytes) /\ Len(x) = n /\ \A i \in 1 .. n : x[i] = Byte(c, a + i)
  BY <1>1, PartType
<1>3. y \in Seq(Bytes) /\ Len(y) = k /\ \A i \in 1 .. k : y[i] = Byte(c, (a + n) + i)
  BY <1>1, PartType
<1>4. p \in Seq(Bytes) /\ Len(p) = n + k /\ \A i \in 1 .. n + k : p[i] = Byte(c, a + i)
  BY <1>1, PartType
<1> HIDE DEF x, y, p
<1>5. /\ x \o y \in Seq(Bytes) /\ Len(x \o y) = n + k
      /\ \A i \in 1 .. n : (x \o y)[i] = x[i]
      /\ \A i \in 1 .. k : (x \o y)[n + i] = y[i]
  <2>1. /\ x \o y \in Seq(Bytes) /\ Len(x \o y) = Len(x) + Len(y)
        /\ \A i \in 1 .. Len(x) : (x \o y)[i] = x[i]
        /\ \A i \in 1 .. Len(y) : (x \o y)[Len(x) + i] = y[i]
    BY <1>2, <1>3, Joined
  <2> QED BY <1>2, <1>3, <2>1, Zenon
<1>6. ASSUME NEW i \in 1 .. n + k PROVE (x \o y)[i] = p[i]
  <2>1. CASE i <= n
    <3>1. i \in 1 .. n
      BY <2>1
    <3> QED BY <1>2, <1>4, <1>5, <3>1, Zenon
  <2>2. CASE i > n
    <3> DEFINE j == i - n
    <3>1. j \in 1 .. k /\ n + j = i /\ (a + n) + j = a + i
      BY <2>2
    <3> HIDE DEF j
    <3>2. (x \o y)[n + j] = y[j] /\ y[j] = Byte(c, (a + n) + j)
      BY <1>3, <1>5, <3>1, Zenon
    <3>3. p[i] = Byte(c, a + i)
      BY <1>4, Zenon
    <3> QED BY <3>1, <3>2, <3>3, Zenon
  <2>3. i <= n \/ i > n
    OBVIOUS
  <2> QED BY <2>1, <2>2, <2>3, Zenon
<1> QED BY <1>4, <1>5, <1>6, SeqEqual, Zenon DEF x, y, p

\* A part cut in two.
LEMMA PartCut ==
  ASSUME NEW c \in Conns, NEW a \in Nat, NEW n \in Nat, a + n <= MaxBytes, NEW k \in 0 .. n
  PROVE  /\ SubSeq(Part(c, a, n), 1, k) = Part(c, a, k)
         /\ SubSeq(Part(c, a, n), k + 1, n) = Part(c, a + k, n - k)
<1>0. PICK p, m : p = Part(c, a, n) /\ m = n - k
  BY Zenon
<1>1. p \in Seq(Bytes) /\ Len(p) = n /\ \A i \in 1 .. n : p[i] = Byte(c, a + i)
  BY <1>0, PartType
<1>2. PICK x, y : x = SubSeq(p, 1, k) /\ y = SubSeq(p, k + 1, n)
  BY Zenon
<1>3. /\ k \in Nat /\ m \in Nat /\ k + m = n /\ a + k \in Nat /\ MaxBytes \in Nat
      /\ a + k <= MaxBytes /\ (a + k) + m <= MaxBytes
  BY <1>0, SessionAssumption
<1>4. x \in Seq(Bytes) /\ Len(x) = k /\ \A i \in 1 .. k : x[i] = p[i]
  BY <1>1, <1>2
<1>5. y \in Seq(Bytes) /\ Len(y) = m /\ \A i \in 1 .. m : y[i] = p[k + i]
  BY <1>0, <1>1, <1>2
<1>6. /\ Part(c, a, k) \in Seq(Bytes) /\ Len(Part(c, a, k)) = k
      /\ \A i \in 1 .. k : Part(c, a, k)[i] = Byte(c, a + i)
  BY <1>3, PartType
<1>7. /\ Part(c, a + k, m) \in Seq(Bytes) /\ Len(Part(c, a + k, m)) = m
      /\ \A i \in 1 .. m : Part(c, a + k, m)[i] = Byte(c, (a + k) + i)
  BY <1>3, PartType
<1>8. \A i \in 1 .. k : x[i] = Part(c, a, k)[i]
  <2> TAKE i \in 1 .. k
  <2>1. i \in 1 .. n
    BY <1>3
  <2> QED BY <1>1, <1>4, <1>6, <2>1, Zenon
<1>9. \A i \in 1 .. m : y[i] = Part(c, a + k, m)[i]
  <2> TAKE i \in 1 .. m
  <2>1. k + i \in 1 .. n /\ a + (k + i) = (a + k) + i
    BY <1>3
  <2> QED BY <1>1, <1>5, <1>7, <2>1, Zenon
<1>10. x = Part(c, a, k)
  BY <1>4, <1>6, <1>8, SeqEqual, Zenon
<1>11. y = Part(c, a + k, m)
  BY <1>5, <1>7, <1>9, SeqEqual, Zenon
<1> QED BY <1>0, <1>2, <1>10, <1>11, Zenon

-----------------------------------------------------------------------------
(* Writing *)

\* What would be written next: a chunk, or the rest if that is shorter.
FirstPiece(data) == Min({Chunk, Len(data)})

\* What fits: no more than there is and than there is room for, and something if
\* there is room for the first piece.
LEMMA TakenFacts ==
  ASSUME NEW ack, NEW d, NEW data \in Seq(Bytes),
         Room(ack, d) \in Int, 0 <= Room(ack, d)
  PROVE  /\ Taken(ack, d, data) \in 0 .. Len(data)
         /\ Taken(ack, d, data) <= Room(ack, d)
         /\ data # <<>> /\ FirstPiece(data) <= Room(ack, d) => Taken(ack, d, data) > 0
<1> DEFINE n == Len(data)
           r == Room(ack, d)
           cut(i) == Min({i * Chunk, n})
           S == {k \in {cut(i) : i \in 0 .. n} : k <= r}
<1>1. n \in Nat /\ Chunk \in Nat \ {0} /\ r \in Int /\ 0 <= r /\ (data # <<>> => n > 0)
  BY SessionAssumption
<1>2. Taken(ack, d, data) = Max(S)
  BY DEF Taken
<1> HIDE DEF r, n
<1>3. ASSUME NEW i \in 0 .. n PROVE cut(i) \in 0 .. n
  <2>1. i * Chunk \in Nat
    BY <1>1
  <2> DEFINE x == i * Chunk
  <2> HIDE DEF x
  <2>2. x \in Nat /\ Min({x, n}) \in 0 .. n
    BY <1>1, <2>1, MinOfTwo DEF x
  <2> QED BY <2>2 DEF x
<1>4. cut(0) = 0
  <2>1. 0 * Chunk = 0 /\ 0 \in Int /\ n \in Int /\ 0 <= n
    BY <1>1
  <2>2. Min({0, n}) = 0
    BY <2>1, MinOfTwo
  <2> QED BY <2>1, <2>2, Zenon
<1>5. data # <<>> /\ FirstPiece(data) <= r => cut(1) \in S /\ cut(1) > 0
  <2> SUFFICES ASSUME data # <<>>, FirstPiece(data) <= r PROVE cut(1) \in S /\ cut(1) > 0
    OBVIOUS
  <2>1. 1 * Chunk = Chunk /\ Chunk \in Int /\ n \in Int /\ n > 0 /\ 1 \in 0 .. n
    BY <1>1
  <2>2. Min({Chunk, n}) = IF Chunk <= n THEN Chunk ELSE n
    BY <2>1, MinOfTwo
  <2>3. cut(1) = Min({Chunk, n}) /\ Min({Chunk, n}) <= r
    BY <2>1, Zenon DEF FirstPiece, n
  <2>4. cut(1) <= r /\ cut(1) > 0
    BY <1>1, <2>1, <2>2, <2>3
  <2> QED BY <2>1, <2>4
<1>6. 0 \in S
  <2>1. 0 \in 0 .. n /\ 0 <= r
    BY <1>1
  <2> QED BY <1>4, <2>1
<1>7. S \in SUBSET (0 .. n)
  BY <1>3
<1> HIDE DEF S, cut
<1>8. Max(S) \in S /\ \A x \in S : x <= Max(S)
  BY <1>1, <1>6, <1>7, MaxExists
<1>9. Max(S) <= r
  BY <1>8 DEF S
<1>10. data # <<>> /\ FirstPiece(data) <= r => Max(S) > 0
  <2> SUFFICES ASSUME data # <<>>, FirstPiece(data) <= r PROVE Max(S) > 0
    OBVIOUS
  <2>1. cut(1) \in S /\ cut(1) > 0
    BY <1>5
  <2>2. cut(1) <= Max(S)
    BY <1>8, <2>1
  <2>3. cut(1) \in 0 .. n /\ Max(S) \in 0 .. n
    BY <1>7, <1>8, <2>1
  <2> QED BY <2>1, <2>2, <2>3
<1> QED BY <1>2, <1>7, <1>8, <1>9, <1>10 DEF n, r

\* What a write to c with that much room does: n bytes that follow what c was
\* given are given to it or wait.
Moved(c, n, room) ==
  /\ wrote' \in [Conns -> Seq(Bytes)] /\ pending' \in [Conns -> Seq(Bytes)]
  /\ \A d \in Conns \ {c} : wrote'[d] = wrote[d] /\ pending'[d] = pending[d]
  /\ wrote'[c] = Part(c, 0, Len(wrote'[c]))
  /\ pending'[c] = Part(c, Len(wrote'[c]), Len(pending'[c]))
  /\ Len(wrote'[c]) + Len(pending'[c]) = Len(wrote[c]) + n
  /\ Len(wrote[c]) <= Len(wrote'[c])
  /\ Len(wrote'[c]) - Len(wrote[c]) <= room

\* Types of what is written and what waits.
LEMMA ByteTypes ==
  ASSUME DataType, NEW c \in Conns
  PROVE  /\ wrote[c] \in Seq(Bytes) /\ pending[c] \in Seq(Bytes)
         /\ Len(wrote[c]) \in Nat /\ Len(pending[c]) \in Nat /\ acked[c] \in Nat
BY DEF DataType

\* writeOrQueue of a session that owns its id, with h held and n bytes in all.
LEMMA WriteMoves ==
  ASSUME DataType, NEW c \in Conns, g_conns[connId[c]] = c,
         NEW ack, Room(ack, c) \in Int, 0 <= Room(ack, c),
         NEW h \in Seq(Bytes), NEW data \in Seq(Bytes), NEW n \in Nat,
         Len(wrote[c]) + n <= MaxBytes, wrote[c] = Part(c, 0, Len(wrote[c])),
         h \o data = Part(c, Len(wrote[c]), n),
         writeOrQueue(c, ack, h, data)
  PROVE  /\ Moved(c, n, Room(ack, c))
         /\ h = <<>> /\ pending'[c] # <<>> /\ FirstPiece(pending'[c]) <= Room(ack, c) =>
              Len(wrote'[c]) > Len(wrote[c])
<1> DEFINE W == Len(wrote[c])
           k == Taken(ack, c, data)
           m == Len(data)
<1>1. /\ wrote[c] \in Seq(Bytes) /\ W \in Nat /\ m \in Nat /\ MaxBytes \in Nat
      /\ wrote \in [Conns -> Seq(Bytes)] /\ pending \in [Conns -> Seq(Bytes)]
  BY ByteTypes, SessionAssumption DEF DataType
<1>2. k \in 0 .. m /\ k <= Room(ack, c) /\ (data # <<>> /\ FirstPiece(data) <= Room(ack, c) => k > 0)
  BY TakenFacts
<1>3. CASE h # <<>>
  <2>1. pending' = [pending EXCEPT ![c] = h \o data] /\ wrote' = wrote
    BY <1>3 DEF writeOrQueue
  <2>2. h \o data \in Seq(Bytes)
    BY ConcatProperties, Zenon
  <2>3. Len(h \o data) = n
    BY <1>1, PartType
  <2> DEFINE x == h \o data
  <2> HIDE DEF x
  <2>4. /\ pending' = [pending EXCEPT ![c] = x] /\ x \in Seq(Bytes) /\ Len(x) = n
        /\ x = Part(c, W, n)
    BY <2>1, <2>2, <2>3 DEF x
  <2>5. pending'[c] = x /\ \A d \in Conns \ {c} : pending'[d] = pending[d]
    BY <1>1, <2>4, Zenon
  <2>6. pending' \in [Conns -> Seq(Bytes)]
    BY <1>1, <2>4, Zenon
  <2>7. W - W = 0 /\ W <= W
    BY <1>1
  <2>8. Moved(c, n, Room(ack, c))
    BY <1>1, <2>1, <2>4, <2>5, <2>6, <2>7 DEF Moved
  <2> QED BY <1>3, <2>8
<1>4. CASE h = <<>>
  <2> DEFINE a == SubSeq(data, 1, k)
             b == SubSeq(data, k + 1, m)
             all == wrote[c] \o a
  <2>1. data = Part(c, W, n)
    <3>1. <<>> \o data = data
      BY ConcatEmptySeq
    <3> QED BY <1>4, <3>1
  <2>2. m = n
    <3>1. Len(Part(c, W, n)) = n
      BY <1>1, PartType
    <3> QED BY <2>1, <3>1
  <2>3. a = Part(c, W, k) /\ b = Part(c, W + k, n - k)
    <3>1. k \in 0 .. n
      BY <1>2, <2>2
    <3> HIDE DEF k
    <3>2. /\ SubSeq(Part(c, W, n), 1, k) = Part(c, W, k)
          /\ SubSeq(Part(c, W, n), k + 1, n) = Part(c, W + k, n - k)
      BY <1>1, <3>1, PartCut
    <3> QED BY <2>1, <2>2, <3>2, Zenon
  <2>4. /\ W + k \in Nat /\ n - k \in Nat /\ k \in Nat
        /\ 0 + (W + k) <= MaxBytes /\ (W + k) + (n - k) <= MaxBytes /\ W + k <= MaxBytes
        /\ (W + k) + (n - k) = W + n /\ 0 + W = W
    BY <1>1, <1>2, <2>2
  <2> HIDE DEF a, b, k
  <2>5. a \in Seq(Bytes) /\ Len(a) = k
    <3>1. Part(c, W, k) \in Seq(Bytes) /\ Len(Part(c, W, k)) = k
      BY <1>1, <2>4, PartType, SMTT(20)
    <3> QED BY <2>3, <3>1, Zenon
  <2>6. b \in Seq(Bytes) /\ Len(b) = n - k
    <3>1. /\ Part(c, W + k, n - k) \in Seq(Bytes)
          /\ Len(Part(c, W + k, n - k)) = n - k
      BY <2>4, PartType
    <3> QED BY <2>3, <3>1, Zenon
  <2>7. all = Part(c, 0, W + k)
    <3>1. \A z \in Nat :
            z + (W + k) <= MaxBytes => Part(c, z, W) \o Part(c, z + W, k) = Part(c, z, W + k)
      <4> HIDE DEF W
      <4> TAKE z \in Nat
      <4> HAVE z + (W + k) <= MaxBytes
      <4>1. c \in Conns /\ W \in Nat /\ k \in Nat /\ z \in Nat /\ z + (W + k) <= MaxBytes
        BY <1>1, <2>4
      <4> QED BY <4>1, PartJoin
    <3>2. 0 \in Nat /\ 0 + (W + k) <= MaxBytes
      BY <2>4
    <3>3. Part(c, 0, W) \o Part(c, 0 + W, k) = Part(c, 0, W + k)
      BY <3>1, <3>2, Zenon
    <3> QED BY <2>3, <2>4, <3>3, Zenon
  <2>8. all \in Seq(Bytes) /\ Len(all) = W + k
    <3>1. Part(c, 0, W + k) \in Seq(Bytes) /\ Len(Part(c, 0, W + k)) = W + k
      BY <2>4, PartType
    <3> QED BY <2>7, <3>1, Zenon
  <2>9. wrote' = [wrote EXCEPT ![c] = all] /\ pending' = [pending EXCEPT ![c] = b]
    <3>1. /\ pending' = [pending EXCEPT ![c] = b]
          /\ wrote' = IF k = 0 THEN wrote ELSE [wrote EXCEPT ![c] = all]
      BY <1>4, Zenon DEF writeOrQueue, a, b, k
    <3>2. k = 0 => all = wrote[c]
      <4>1. k = 0 => W + k = W
        BY <2>4
      <4> QED BY <2>7, <4>1, Zenon
    <3>3. all = wrote[c] => [wrote EXCEPT ![c] = all] = wrote
      BY <1>1, Zenon
    <3> QED BY <3>1, <3>2, <3>3, Zenon
  <2> HIDE DEF all
  <2>10. /\ wrote'[c] = all /\ pending'[c] = b
         /\ \A d \in Conns \ {c} : wrote'[d] = wrote[d] /\ pending'[d] = pending[d]
    BY <1>1, <2>9, Zenon
  <2>11. wrote' \in [Conns -> Seq(Bytes)] /\ pending' \in [Conns -> Seq(Bytes)]
    BY <1>1, <2>6, <2>8, <2>9, Zenon
  <2>12. Moved(c, n, Room(ack, c))
    <3>1. /\ Len(wrote'[c]) = W + k /\ Len(pending'[c]) = n - k
          /\ W <= W + k /\ (W + k) - W = k
      BY <1>1, <2>4, <2>6, <2>8, <2>10
    <3>2. wrote'[c] = Part(c, 0, Len(wrote'[c])) /\ pending'[c] = Part(c, Len(wrote'[c]), Len(pending'[c]))
      BY <2>3, <2>7, <2>10, <3>1, Zenon
    <3>3. Len(wrote'[c]) - Len(wrote[c]) <= Room(ack, c)
      BY <1>2, <3>1, Zenon DEF k
    <3> QED BY <2>4, <2>10, <2>11, <3>1, <3>2, <3>3, Zenon DEF Moved
  <2>13. ASSUME pending'[c] # <<>>, FirstPiece(pending'[c]) <= Room(ack, c)
         PROVE  Len(wrote'[c]) > W
    <3>1. m # 0
      <4>1. n = 0 => Len(b) = 0
        BY <2>4, <2>6
      <4>2. b # <<>>
        BY <2>10, <2>13, Zenon
      <4> QED BY <2>2, <2>6, <4>1, <4>2
    <3>2. k = 0 => b = data
      <4>1. W + 0 = W /\ n - 0 = n
        BY <1>1
      <4> QED BY <2>1, <2>3, <4>1, Zenon
    <3>3. k # 0
      <4>1. k = 0 => FirstPiece(data) <= Room(ack, c)
        BY <2>10, <2>13, <3>2, Zenon
      <4>2. data # <<>> /\ FirstPiece(data) <= Room(ack, c) => k > 0
        BY <1>2 DEF k
      <4> QED BY <3>1, <4>1, <4>2
    <3> QED BY <1>1, <2>4, <2>8, <2>10, <3>3, SMTT(20)
  <2> QED BY <2>12, <2>13
<1> QED BY <1>3, <1>4

-----------------------------------------------------------------------------
(* What is held *)

\* What each slot holds, and all together, are numbers.
LEMMA HeldType ==
  ASSUME ControlType, DataType, NEW ack \in [Conns -> Nat]
  PROVE  Held(ack) \in [0 .. MAX_CONNS - 1 -> Int] /\ InUse(ack) \in Int
<1>1. \A s \in Slots : (IF g_conns[s] = NoConn THEN 0 ELSE Unacked(ack, g_conns[s])) \in Int
  <2> TAKE s \in Slots
  <2>1. CASE g_conns[s] # NoConn
    <3>1. g_conns[s] \in Conns
      BY <2>1 DEF ControlType
    <3>2. Len(wrote[g_conns[s]]) \in Nat /\ ack[g_conns[s]] \in Nat
      BY <3>1, ByteTypes
    <3> QED BY <2>1, <3>2 DEF Unacked
  <2> QED BY <2>1
<1>2. Held(ack) \in [0 .. MAX_CONNS - 1 -> Int]
  BY <1>1, Zenon DEF Held, Slots
<1>3. MAX_CONNS \in Nat /\ 0 \in 0 .. MAX_CONNS - 1
  BY SessionAssumption
<1> HIDE DEF Held
<1>4. Total(Held(ack), MAX_CONNS) \in Int
  BY <1>2, <1>3, TotalChange
<1> QED BY <1>2, <1>4 DEF InUse

\* A slot whose connection changes, or has less to acknowledge, changes the sum.
LEMMA UseChange ==
  ASSUME NEW v \in [0 .. MAX_CONNS - 1 -> Int], NEW w \in [0 .. MAX_CONNS - 1 -> Int],
         NEW k \in Slots, \A s \in Slots : s # k => w[s] = v[s]
  PROVE  /\ Total(v, MAX_CONNS) \in Int /\ Total(w, MAX_CONNS) \in Int
         /\ v[k] \in Int /\ w[k] \in Int
         /\ Total(w, MAX_CONNS) = Total(v, MAX_CONNS) + (w[k] - v[k])
<1>1. MAX_CONNS \in Nat /\ k \in 0 .. MAX_CONNS - 1 /\ \A s \in 0 .. MAX_CONNS - 1 : s # k => w[s] = v[s]
  BY SessionAssumption DEF Slots
<1>2. /\ Total(v, MAX_CONNS) \in Int /\ Total(w, MAX_CONNS) \in Int
      /\ Total(w, MAX_CONNS) - Total(v, MAX_CONNS) = w[k] - v[k]
  BY <1>1, TotalChange
<1>3. v[k] \in Int /\ w[k] \in Int
  BY <1>1
<1> QED BY <1>2, <1>3

\* A table that changes in one slot, which is freed or given to a connection that
\* has not been written to, holds no more than before.
LEMMA SlotBuffered ==
  ASSUME ControlType, DataType, Buffered, ControlType', UNCHANGED <<wrote, acked>>,
         NEW k \in Slots, \A s \in Slots : s # k => g_conns'[s] = g_conns[s],
         \/ g_conns'[k] = g_conns[k]
         \/ g_conns'[k] = NoConn
         \/ g_conns'[k] \in Conns /\ g_conns[k] = NoConn /\ Unacked(acked, g_conns'[k]) = 0
  PROVE  Buffered'
<1> DEFINE v == Held(acked)
           w == Held(acked)'
<1>1. \A c \in Conns : Unacked(acked, c)' = Unacked(acked, c)
  BY DEF Unacked
<1>2. DataType => acked \in [Conns -> Nat]
  BY DEF DataType
<1>3. v \in [0 .. MAX_CONNS - 1 -> Int] /\ InUse(acked) \in Int
  BY <1>2, HeldType
<1>4. \A s \in Slots : w[s] = IF g_conns'[s] = NoConn THEN 0 ELSE Unacked(acked, g_conns'[s])
  BY DEF Held, Unacked
<1>5. \A s \in Slots : v[s] = IF g_conns[s] = NoConn THEN 0 ELSE Unacked(acked, g_conns[s])
  BY DEF Held
<1>6. \A c \in Conns : Unacked(acked, c) \in Nat
  BY SessionAssumption DEF Buffered
<1>7. w \in [0 .. MAX_CONNS - 1 -> Int]
  <2>1. \A s \in Slots : w[s] \in Int
    BY <1>4, <1>6 DEF ControlType
  <2>2. w = [s \in 0 .. MAX_CONNS - 1 |-> w[s]]
    BY DEF Held, Slots
  <2> HIDE DEF w
  <2> QED BY <2>1, <2>2, Zenon DEF Slots
<1>8. \A s \in Slots : s # k => w[s] = v[s]
  BY <1>4, <1>5
<1>9. w[k] <= v[k]
  <2>1. g_conns[k] # NoConn => Unacked(acked, g_conns[k]) \in Nat
    BY <1>6 DEF ControlType
  <2>2. NoConn \notin Conns
    BY SessionAssumption
  <2> HIDE DEF v, w
  <2>3. CASE g_conns'[k] = g_conns[k]
    BY <1>4, <1>5, <2>1, <2>3
  <2>4. CASE g_conns'[k] = NoConn
    BY <1>4, <1>5, <2>1, <2>4
  <2>5. CASE g_conns'[k] \in Conns /\ g_conns[k] = NoConn /\ Unacked(acked, g_conns'[k]) = 0
    BY <1>4, <1>5, <2>2, <2>5
  <2> QED BY <2>3, <2>4, <2>5
<1>10. InUse(acked)' = Total(w, MAX_CONNS) /\ InUse(acked) = Total(v, MAX_CONNS)
  BY DEF InUse
<1> HIDE DEF v, w
<1>11. InUse(acked)' = InUse(acked) + (w[k] - v[k]) /\ w[k] \in Int /\ v[k] \in Int
  BY <1>3, <1>7, <1>8, <1>10, UseChange
<1>12. InUse(acked)' <= Shared
  BY <1>3, <1>9, <1>11, SessionAssumption DEF Buffered
<1>13. \A c \in Conns : Unacked(acked, c)' \in 0 .. SndBuf
  BY <1>1 DEF Buffered
<1> QED BY <1>12, <1>13 DEF Buffered

\* No other slot has the connection of this one.
LEMMA OtherSlots ==
  ASSUME InTheirSlots, NEW s \in Slots, NEW c \in Conns, g_conns[s] = c
  PROVE  connId[c] = s /\ \A t \in Slots : t # s => g_conns[t] # c
BY DEF InTheirSlots

\* An acknowledgement frees what it is about, of the send buffer and of the rest.
LEMMA AckFrees ==
  ASSUME ControlType, InTheirSlots, DataType, Buffered,
         NEW s \in Slots, NEW c \in Conns, g_conns[s] = c, NEW n \in 1 .. Unacked(acked, c),
         NEW ack, ack = [acked EXCEPT ![c] = @ + n]
  PROVE  /\ ack \in [Conns -> Nat]
         /\ \A d \in Conns : Unacked(ack, d) \in 0 .. SndBuf
         /\ Unacked(ack, c) = Unacked(acked, c) - n
         /\ InUse(ack) \in Int /\ InUse(ack) = InUse(acked) - n
<1> DEFINE v == Held(acked)
           w == Held(ack)
<1>1. acked \in [Conns -> Nat] /\ acked[c] \in Nat /\ Len(wrote[c]) \in Nat
  BY ByteTypes DEF DataType
<1>2. Unacked(acked, c) \in 0 .. SndBuf /\ n \in Nat
  BY SessionAssumption DEF Buffered
<1>3. acked[c] + n \in Nat
  BY <1>1, <1>2
<1>4. ack \in [Conns -> Nat] /\ ack[c] = acked[c] + n /\ \A d \in Conns : d # c => ack[d] = acked[d]
  BY <1>1, <1>3
<1>5. Unacked(ack, c) = Unacked(acked, c) - n
  BY <1>1, <1>2, <1>4 DEF Unacked
<1>6. ASSUME NEW d \in Conns PROVE Unacked(ack, d) \in 0 .. SndBuf /\ (d # c => Unacked(ack, d) = Unacked(acked, d))
  <2>1. CASE d = c
    BY <1>2, <1>5, <2>1, SessionAssumption
  <2>2. CASE d # c
    BY <1>4, <2>2 DEF Buffered, Unacked
  <2> QED BY <2>1, <2>2
<1>7. v \in [0 .. MAX_CONNS - 1 -> Int] /\ w \in [0 .. MAX_CONNS - 1 -> Int] /\ InUse(ack) \in Int
  BY <1>1, <1>4, HeldType
<1>8. \A t \in Slots : /\ w[t] = IF g_conns[t] = NoConn THEN 0 ELSE Unacked(ack, g_conns[t])
                       /\ v[t] = IF g_conns[t] = NoConn THEN 0 ELSE Unacked(acked, g_conns[t])
  BY DEF Held
<1>9. InUse(ack) = Total(w, MAX_CONNS) /\ InUse(acked) = Total(v, MAX_CONNS)
  BY DEF InUse
<1> HIDE DEF v, w
<1>10. \A t \in Slots : t # s => w[t] = v[t]
  <2>1. \A t \in Slots : t # s => g_conns[t] # c
    BY OtherSlots
  <2>2. \A d \in Conns : d # c => Unacked(ack, d) = Unacked(acked, d)
    BY <1>6
  <2>3. \A t \in Slots : g_conns[t] # NoConn => g_conns[t] \in Conns
    BY DEF ControlType
  <2> QED BY <1>8, <2>1, <2>2, <2>3, Zenon
<1>11. c # NoConn
  BY SessionAssumption
<1>12. w[s] = Unacked(ack, c) /\ v[s] = Unacked(acked, c)
  BY <1>8, <1>11
<1>13. /\ Total(w, MAX_CONNS) = Total(v, MAX_CONNS) + (w[s] - v[s])
       /\ Total(v, MAX_CONNS) \in Int
  BY <1>7, <1>10, UseChange
<1>14. InUse(ack) = InUse(acked) - n
  BY <1>2, <1>5, <1>9, <1>12, <1>13
<1> QED BY <1>4, <1>5, <1>6, <1>7, <1>14

\* There is never less room than none.
LEMMA RoomFacts ==
  ASSUME NEW ack, NEW c \in Conns, Unacked(ack, c) \in 0 .. SndBuf,
         InUse(ack) \in Int, InUse(ack) <= Shared
  PROVE  /\ Room(ack, c) \in Int /\ 0 <= Room(ack, c)
         /\ Room(ack, c) <= SndBuf - Unacked(ack, c)
         /\ Room(ack, c) <= Shared - InUse(ack)
         /\ \/ Room(ack, c) = SndBuf - Unacked(ack, c)
            \/ Room(ack, c) = Shared - InUse(ack)
<1> DEFINE a == SndBuf - Unacked(ack, c)
           b == Shared - InUse(ack)
<1>1. a \in Int /\ b \in Int /\ 0 <= a /\ 0 <= b
  BY SessionAssumption
<1>2. Room(ack, c) = Min({a, b})
  BY SessionAssumption DEF Room
<1> HIDE DEF a, b
<1>3. Min({a, b}) = IF a <= b THEN a ELSE b
  BY <1>1, MinOfTwo
<1>4. /\ Room(ack, c) \in Int /\ 0 <= Room(ack, c) /\ Room(ack, c) <= a /\ Room(ack, c) <= b
      /\ Room(ack, c) = a \/ Room(ack, c) = b
  BY <1>1, <1>2, <1>3
<1> QED BY <1>4 DEF a, b

\* What is written fits.
LEMMA WriteBuffered ==
  ASSUME ControlType, InTheirSlots, DataType, NEW c \in Conns, g_conns[connId[c]] = c,
         NEW ack \in [Conns -> Nat], \A d \in Conns : Unacked(ack, d) \in 0 .. SndBuf,
         InUse(ack) \in Int, InUse(ack) <= Shared,
         UNCHANGED g_conns, acked' = ack, NEW n, Moved(c, n, Room(ack, c))
  PROVE  /\ Buffered'
         /\ Unacked(acked, c)' = Unacked(ack, c) + (Len(wrote'[c]) - Len(wrote[c]))
         /\ Len(wrote'[c]) = Len(wrote[c]) => InUse(acked)' = InUse(ack)
<1> DEFINE v == Held(ack)
           w == Held(acked)'
           k == Len(wrote'[c]) - Len(wrote[c])
           s == connId[c]
<1>1. s \in Slots /\ g_conns[s] = c /\ c # NoConn
  BY SessionAssumption DEF ControlType
<1>2. wrote'[c] \in Seq(Bytes) /\ Len(wrote'[c]) \in Nat /\ Len(wrote[c]) \in Nat /\ ack[c] \in Nat
  BY ByteTypes DEF Moved
<1>3. k \in Nat /\ k <= Room(ack, c)
  BY <1>2 DEF Moved
<1>4. /\ Room(ack, c) \in Int
      /\ Room(ack, c) <= SndBuf - Unacked(ack, c)
      /\ Room(ack, c) <= Shared - InUse(ack)
  BY RoomFacts
<1>5. Unacked(acked, c)' = Unacked(ack, c) + k /\ Unacked(ack, c) \in Int
  <2> DEFINE x == Len(wrote'[c])
             y == Len(wrote[c])
             z == ack[c]
  <2>1. x \in Nat /\ y \in Nat /\ z \in Nat
    BY <1>2
  <2>2. Unacked(acked, c)' = x - z /\ Unacked(ack, c) = y - z /\ k = x - y
    BY Zenon DEF Unacked
  <2> HIDE DEF x, y, z, k
  <2> QED BY <2>1, <2>2
<1>6. \A d \in Conns : d # c => Unacked(acked, d)' = Unacked(ack, d)
  BY DEF Unacked, Moved
<1>7. v \in [0 .. MAX_CONNS - 1 -> Int]
  BY HeldType
<1>8. \A t \in Slots : /\ w[t] = IF g_conns[t] = NoConn THEN 0 ELSE Unacked(acked, g_conns[t])'
                       /\ v[t] = IF g_conns[t] = NoConn THEN 0 ELSE Unacked(ack, g_conns[t])
  BY DEF Held, Unacked
<1> HIDE DEF k
<1>9. ASSUME NEW d \in Conns PROVE Unacked(acked, d)' \in 0 .. SndBuf
  <2>1. CASE d = c
    BY <1>3, <1>4, <1>5, <2>1, SessionAssumption
  <2>2. CASE d # c
    BY <1>6, <2>2
  <2> QED BY <2>1, <2>2
<1>10. w \in [0 .. MAX_CONNS - 1 -> Int]
  <2>1. \A t \in Slots : w[t] \in Int
    <3> HIDE DEF w, v
    <3> QED BY <1>8, <1>9 DEF ControlType
  <2>2. w = [t \in 0 .. MAX_CONNS - 1 |-> w[t]]
    BY DEF Held, Slots
  <2> HIDE DEF w
  <2> QED BY <2>1, <2>2, Zenon DEF Slots
<1>11. InUse(acked)' = Total(w, MAX_CONNS) /\ InUse(ack) = Total(v, MAX_CONNS)
  BY DEF InUse
<1> HIDE DEF v, w, s
<1>12. \A t \in Slots : t # s => g_conns[t] # c
  BY <1>1, OtherSlots
<1>13. \A t \in Slots : t # s => w[t] = v[t]
  BY <1>6, <1>8, <1>12 DEF ControlType
<1>14. w[s] = Unacked(ack, c) + k /\ v[s] = Unacked(ack, c)
  BY <1>1, <1>5, <1>8
<1>15. Total(w, MAX_CONNS) = Total(v, MAX_CONNS) + (w[s] - v[s])
  BY <1>1, <1>7, <1>10, <1>13, UseChange
<1>16. InUse(acked)' <= Shared
  BY <1>3, <1>4, <1>5, <1>11, <1>14, <1>15, SessionAssumption
<1>17. k = 0 => InUse(acked)' = InUse(ack)
  BY <1>4, <1>5, <1>11, <1>14, <1>15
<1>18. Len(wrote'[c]) = Len(wrote[c]) => k = 0
  BY <1>2 DEF k
<1> QED BY <1>5, <1>9, <1>16, <1>17, <1>18 DEF Buffered, k

-----------------------------------------------------------------------------
(* Steps that write nothing *)

\* A table that changes in one slot at most, as SlotBuffered wants it.
OneSlot ==
  \E k \in Slots :
    /\ \A s \in Slots : s # k => g_conns'[s] = g_conns[s]
    /\ \/ g_conns'[k] = g_conns[k]
       \/ g_conns'[k] = NoConn
       \/ g_conns'[k] \in Conns /\ g_conns[k] = NoConn /\ Unacked(acked, g_conns'[k]) = 0

\* A step that writes nothing, and takes no byte out of the queue that a living
\* session still waits for.
Quiet ==
  /\ UNCHANGED <<workerDomain, pending, wrote, acked, received>>
  /\ \A c \in Conns : (dead[c] => dead'[c]) /\ (ws'[c] = "none" => ws[c] = "none")
  /\ \A c \in Conns : ~dead'[c] => Queued(c)' = Queued(c)
  /\ OneSlot

\* Such a step keeps every byte where it is.
LEMMA QuietStep ==
  ASSUME StreamInv, Ownership', Quiet
  PROVE  StreamInv'
<1>1. DataType'
  BY DEF StreamInv, Quiet, DataType, Given
<1>2. Placed'
  <2> SUFFICES ASSUME NEW c \in Conns
               PROVE  /\ wrote'[c] = Part(c, 0, Len(wrote'[c]))
                      /\ pending'[c] = Part(c, Len(wrote'[c]), Len(pending'[c]))
                      /\ ~dead'[c] => Queued(c)' = Part(c, Given(c)', received'[c] - Given(c)')
    BY DEF Placed
  <2>1. wrote' = wrote /\ pending' = pending /\ received' = received
    BY DEF Quiet
  <2>2. Given(c)' = Given(c)
    BY <2>1 DEF Given
  <2>3. ~dead'[c] => ~dead[c] /\ Queued(c)' = Queued(c)
    BY DEF Quiet
  <2>4. /\ wrote[c] = Part(c, 0, Len(wrote[c]))
        /\ pending[c] = Part(c, Len(wrote[c]), Len(pending[c]))
        /\ ~dead[c] => Queued(c) = Part(c, Given(c), received[c] - Given(c))
    BY DEF StreamInv, Placed
  <2> QED BY <2>1, <2>2, <2>3, <2>4, Zenon
<1>3. Buffered'
  <2>1. PICK k \in Slots :
          /\ \A s \in Slots : s # k => g_conns'[s] = g_conns[s]
          /\ \/ g_conns'[k] = g_conns[k]
             \/ g_conns'[k] = NoConn
             \/ g_conns'[k] \in Conns /\ g_conns[k] = NoConn /\ Unacked(acked, g_conns'[k]) = 0
    BY DEF Quiet, OneSlot
  <2>2. ControlType /\ ControlType' /\ DataType /\ Buffered /\ UNCHANGED <<wrote, acked>>
    BY DEF StreamInv, Ownership, Quiet
  <2> QED BY <2>1, <2>2, SlotBuffered
<1> QED BY <1>1, <1>2, <1>3 DEF StreamInv

\* A table that stays as it is, or loses one connection.
LEMMA TableOneSlot ==
  ASSUME ControlType,
         UNCHANGED g_conns \/ \E s \in Slots : g_conns' = [g_conns EXCEPT ![s] = NoConn]
  PROVE  OneSlot
<1>1. CASE UNCHANGED g_conns
  <2>1. 0 \in Slots
    BY SessionAssumption DEF Slots
  <2> QED BY <1>1, <2>1 DEF OneSlot
<1>2. ASSUME NEW s \in Slots, g_conns' = [g_conns EXCEPT ![s] = NoConn] PROVE OneSlot
  <2>1. g_conns'[s] = NoConn /\ \A t \in Slots : t # s => g_conns'[t] = g_conns[t]
    BY <1>2 DEF ControlType
  <2> QED BY <2>1 DEF OneSlot
<1> QED BY <1>1, <1>2

\* A close job adds no bytes, and takes none away from others.
LEMMA CloseJobData ==
  ASSUME ControlType, NEW c \in Conns
  PROVE  /\ \A d \in Conns :
              queue' = Append(queue, [kind |-> "close", conn |-> c, data |-> <<>>]) =>
                Queued(d)' = Queued(d)
         /\ \A d \in Conns :
              queue # <<>> /\ queue' = Tail(queue) /\ Head(queue).conn # d => Queued(d)' = Queued(d)
<1> DEFINE j == [kind |-> "close", conn |-> c, data |-> <<>>]
<1>1. j \in Job /\ j.data = <<>>
  BY DEF Job
<1>2. queue \in Seq(Job)
  BY DEF ControlType
<1>3. ASSUME NEW d \in Conns, queue' = Append(queue, j) PROVE Queued(d)' = Queued(d)
  <2>1. Own(j, d) = <<>>
    BY <1>1, Zenon DEF Own
  <2> HIDE DEF j
  <2>2. DataOf(queue, d) \in Seq(Bytes) /\ DataOf(Append(queue, j), d) = DataOf(queue, d) \o Own(j, d)
    BY <1>1, <1>2, DataOfAppend
  <2>3. DataOf(queue, d) \o <<>> = DataOf(queue, d)
    BY <2>2, ConcatEmptySeq
  <2>4. Queued(d)' = DataOf(queue', d) /\ Queued(d) = DataOf(queue, d)
    BY Zenon DEF Queued, DataOf
  <2> QED BY <1>3, <2>1, <2>2, <2>3, <2>4, Zenon
<1>4. ASSUME NEW d \in Conns, queue # <<>>, queue' = Tail(queue), Head(queue).conn # d
      PROVE  Queued(d)' = Queued(d)
  <2>1. /\ DataOf(Tail(queue), d) \in Seq(Bytes)
        /\ DataOf(queue, d) = Own(Head(queue), d) \o DataOf(Tail(queue), d)
    BY <1>2, <1>4, DataOfTail
  <2>2. Own(Head(queue), d) = <<>>
    BY <1>4, Zenon DEF Own
  <2>3. <<>> \o DataOf(Tail(queue), d) = DataOf(Tail(queue), d)
    BY <2>1, ConcatEmptySeq
  <2>4. Queued(d)' = DataOf(queue', d) /\ Queued(d) = DataOf(queue, d)
    BY Zenon DEF Queued, DataOf
  <2> QED BY <1>4, <2>1, <2>2, <2>3, <2>4, Zenon
<1> QED BY <1>3, <1>4

\* The queue stays as it is.
LEMMA SameQueue ==
  ASSUME UNCHANGED queue, NEW c
  PROVE  Queued(c)' = Queued(c)
BY Zenon DEF Queued, DataOf

\* handleAccept: the new connection has not been written to.
LEMMA AcceptQuiet ==
  ASSUME StreamInv, NEW c \in Conns, handleAccept(c)
  PROVE  Quiet
<1> DEFINE free == {s \in Slots : g_conns[s] = NoConn}
           k == Min(free)
<1>1. k \in Slots /\ g_conns[k] = NoConn
  <2>1. free \in SUBSET Nat /\ free # {}
    BY SessionAssumption DEF handleAccept, Slots
  <2>2. k \in free
    BY <2>1, MinExists
  <2> QED BY <2>2
<1>2. /\ c \notin opened /\ g_conns' = [g_conns EXCEPT ![k] = c]
      /\ UNCHANGED <<workerDomain, dead, ws, pending, queue, received, wrote, acked>>
  BY DEF handleAccept
<1> HIDE DEF k
<1>3. g_conns'[k] = c /\ \A s \in Slots : s # k => g_conns'[s] = g_conns[s]
  BY <1>1, <1>2 DEF StreamInv, Ownership, ControlType
<1>4. Unacked(acked, c) = 0
  <2>1. received[c] = 0
    BY <1>2 DEF StreamInv, DataType, Ownership, Started
  <2>2. Len(wrote[c]) \in Nat /\ Len(pending[c]) \in Nat /\ acked[c] \in Nat
    BY ByteTypes DEF StreamInv
  <2>3. Len(wrote[c]) + Len(pending[c]) <= received[c]
    BY DEF StreamInv, DataType, Given
  <2>4. Unacked(acked, c) \in Nat
    BY SessionAssumption DEF StreamInv, Buffered
  <2>5. Unacked(acked, c) = Len(wrote[c]) - acked[c]
    BY Zenon DEF Unacked
  <2> DEFINE x == Len(wrote[c])
             y == Len(pending[c])
             z == acked[c]
             u == Unacked(acked, c)
  <2>6. x \in Nat /\ y \in Nat /\ z \in Nat /\ u \in Nat /\ x + y <= 0 /\ u = x - z
    BY <2>1, <2>2, <2>3, <2>4, <2>5
  <2> HIDE DEF x, y, z, u
  <2>7. u = 0
    BY <2>6
  <2> QED BY <2>7 DEF u
<1>5. OneSlot
  <2>1. Unacked(acked, g_conns'[k]) = 0
    BY <1>3, <1>4, Zenon
  <2> QED BY <1>1, <1>3, <2>1 DEF OneSlot
<1>6. \A d \in Conns : Queued(d)' = Queued(d)
  BY <1>2, SameQueue
<1> QED BY <1>2, <1>5, <1>6 DEF Quiet

\* handleData: a job that carries nothing, or a slot less.
LEMMA DataQuiet ==
  ASSUME StreamInv, NEW s \in Slots, handleData(s)
  PROVE  Quiet
<1> DEFINE c == sessions[s]
<1>1. /\ c \in Conns /\ connId[c] \in Slots /\ ws[c] = "none"
      /\ UNCHANGED <<workerDomain, opened, dead, pending, received, wrote, acked>>
  BY DEF handleData, StreamInv, Ownership, ControlType
<1>2. \/ /\ ws' = [ws EXCEPT ![c] = "open"]
         /\ UNCHANGED <<queue, g_conns>>
      \/ /\ ws' = [ws EXCEPT ![c] = "open"]
         /\ queue' = Append(queue, [kind |-> "close", conn |-> c, data |-> <<>>])
         /\ UNCHANGED g_conns
      \/ g_conns' = [g_conns EXCEPT ![connId[c]] = NoConn] /\ UNCHANGED <<ws, queue>>
  BY DEF handleData, BridgeClose, QueueClose
<1> HIDE DEF c
<1>3. OneSlot
  BY <1>1, <1>2, TableOneSlot DEF StreamInv, Ownership
<1>4. \A d \in Conns : Queued(d)' = Queued(d)
  <2>1. CASE UNCHANGED queue
    BY <2>1, SameQueue
  <2>2. CASE queue' = Append(queue, [kind |-> "close", conn |-> c, data |-> <<>>])
    BY <1>1, <2>2, CloseJobData DEF StreamInv, Ownership
  <2> QED BY <1>2, <2>1, <2>2
<1>5. \A d \in Conns : ws'[d] = "none" => ws[d] = "none"
  <2>1. ws \in [Conns -> {"none", "open", "cancelled"}]
    BY DEF StreamInv, Ownership, ControlType
  <2> QED BY <1>1, <1>2, <2>1
<1> QED BY <1>1, <1>3, <1>4, <1>5 DEF Quiet

\* handleClose and stopTunnel: sessions end, and at most a slot is cleared.
LEMMA CloseQuiet ==
  ASSUME StreamInv, stopTunnel \/ \E s \in Slots : handleClose(s)
  PROVE  Quiet
<1>1. /\ UNCHANGED <<workerDomain, pending, queue, received, wrote, acked>>
      /\ \E S : CloseSessions(S)
      /\ UNCHANGED g_conns \/ \E s \in Slots : g_conns' = [g_conns EXCEPT ![s] = NoConn]
  BY DEF stopTunnel, handleClose, BridgeClose
<1>2. \A c \in Conns : (dead[c] => dead'[c]) /\ (ws'[c] = "none" => ws[c] = "none")
  <2>1. PICK S : CloseSessions(S)
    BY <1>1
  <2> DEFINE closed == {c \in Conns : \E s \in S : sessions[s] = c}
  <2>2. /\ dead' = [c \in Conns |-> dead[c] \/ c \in closed]
        /\ ws' = [c \in Conns |-> IF c \in closed /\ ws[c] = "open" THEN "cancelled" ELSE ws[c]]
    BY <2>1, Zenon DEF CloseSessions
  <2> HIDE DEF closed
  <2>3. \A c \in Conns : dead[c] => dead'[c]
    BY <2>2, Zenon
  <2>4. \A c \in Conns : ws'[c] = "none" => ws[c] = "none"
    BY <2>2
  <2> QED BY <2>3, <2>4
<1>3. OneSlot
  BY <1>1, TableOneSlot DEF StreamInv, Ownership
<1>4. \A d \in Conns : Queued(d)' = Queued(d)
  BY <1>1, SameQueue
<1> QED BY <1>1, <1>2, <1>3, <1>4 DEF Quiet

\* handleWSClose: a job that carries nothing.
LEMMA WSCloseQuiet ==
  ASSUME StreamInv, NEW c \in Conns, handleWSClose(c)
  PROVE  Quiet
<1>1. /\ queue' = Append(queue, [kind |-> "close", conn |-> c, data |-> <<>>])
      /\ UNCHANGED <<workerDomain, g_conns, dead, ws, pending, received, wrote, acked>>
  BY DEF handleWSClose, QueueClose
<1>2. OneSlot
  BY <1>1, TableOneSlot DEF StreamInv, Ownership
<1>3. \A d \in Conns : Queued(d)' = Queued(d)
  BY <1>1, CloseJobData DEF StreamInv, Ownership
<1> QED BY <1>1, <1>2, <1>3 DEF Quiet

\* RunCloseJob, and RunDataJob of a dead session: the job was of a session that is
\* dead now.
LEMMA DeadJobQuiet ==
  ASSUME StreamInv, RunCloseJob \/ (RunDataJob /\ dead[Head(queue).conn])
  PROVE  Quiet
<1> DEFINE c == Head(queue).conn
<1>1. /\ queue # <<>> /\ queue' = Tail(queue)
      /\ UNCHANGED <<workerDomain, ws, pending, received, wrote, acked>>
      /\ \/ dead[c] /\ UNCHANGED <<dead, g_conns>>
         \/ dead' = [dead EXCEPT ![c] = TRUE] /\ g_conns' = [g_conns EXCEPT ![connId[c]] = NoConn]
  BY DEF RunCloseJob, RunDataJob, BridgeClose
<1>2. c \in Conns /\ connId[c] \in Slots
  <2>1. Head(queue) \in Job
    BY <1>1, QueueStep DEF StreamInv
  <2> QED BY <2>1 DEF Job, StreamInv, Ownership, ControlType
<1> HIDE DEF c
<1>3. dead \in [Conns -> BOOLEAN]
  BY DEF StreamInv, Ownership, ControlType
<1>4. dead'[c] /\ \A d \in Conns : dead[d] => dead'[d]
  BY <1>1, <1>2, <1>3, Zenon
<1>5. OneSlot
  BY <1>1, <1>2, TableOneSlot DEF StreamInv, Ownership
<1>6. \A d \in Conns : ~dead'[d] => Queued(d)' = Queued(d)
  <2> SUFFICES ASSUME NEW d \in Conns, ~dead'[d] PROVE Queued(d)' = Queued(d)
    OBVIOUS
  <2>1. Head(queue).conn # d
    BY <1>4, Zenon DEF c
  <2> QED BY <1>1, <2>1, CloseJobData DEF StreamInv, Ownership
<1> QED BY <1>1, <1>4, <1>5, <1>6 DEF Quiet

-----------------------------------------------------------------------------
(* Steps that write *)

\* A step of the control state and of the other bytes that leaves those of c to
\* the lemmas above: what remains to be shown of Placed and DataType.
Others(c) ==
  /\ UNCHANGED <<workerDomain, dead, ws, received>>
  /\ \A d \in Conns \ {c} : wrote'[d] = wrote[d] /\ pending'[d] = pending[d]
  /\ \A d \in Conns \ {c} : Queued(d)' = Queued(d)

\* After a write to c.
LEMMA MovedPlaced ==
  ASSUME StreamInv, NEW c \in Conns, Others(c), NEW n \in Nat, NEW room, Moved(c, n, room),
         acked' \in [Conns -> Nat],
         Len(wrote[c]) + n <= received[c],
         ~dead[c] => Queued(c)' = Part(c, Len(wrote[c]) + n, received[c] - (Len(wrote[c]) + n))
  PROVE  DataType' /\ Placed'
<1>1. Given(c)' = Len(wrote[c]) + n
  BY DEF Given, Moved
<1>2. \A d \in Conns \ {c} : Given(d)' = Given(d)
  BY DEF Given, Others
<1>3. DataType'
  <2>1. \A d \in Conns : Given(d)' <= received[d]
    <3> TAKE d \in Conns
    <3>1. CASE d = c
      BY <1>1, <3>1, Zenon
    <3>2. CASE d # c
      <4>1. Given(d)' = Given(d) /\ Given(d) <= received[d]
        BY <1>2, <3>2, Zenon DEF StreamInv, DataType
      <4> QED BY <4>1, Zenon
    <3> QED BY <3>1, <3>2
  <2>2. received' = received /\ ws' = ws /\ workerDomain' = workerDomain
    BY DEF Others
  <2>3. wrote' \in [Conns -> Seq(Bytes)] /\ pending' \in [Conns -> Seq(Bytes)]
    BY DEF Moved
  <2> QED BY <2>1, <2>2, <2>3 DEF StreamInv, DataType
<1>4. Placed'
  <2> SUFFICES ASSUME NEW d \in Conns
               PROVE  /\ wrote'[d] = Part(d, 0, Len(wrote'[d]))
                      /\ pending'[d] = Part(d, Len(wrote'[d]), Len(pending'[d]))
                      /\ ~dead'[d] => Queued(d)' = Part(d, Given(d)', received'[d] - Given(d)')
    BY DEF Placed
  <2>1. received' = received /\ dead' = dead
    BY DEF Others
  <2>2. CASE d = c
    <3>1. ~dead[c] => Queued(c)' = Part(c, Given(c)', received[c] - Given(c)')
      BY <1>1, Zenon
    <3> QED BY <2>1, <2>2, <3>1, Zenon DEF Moved
  <2>3. CASE d # c
    <3>1. /\ wrote'[d] = wrote[d] /\ pending'[d] = pending[d] /\ Queued(d)' = Queued(d)
          /\ Given(d)' = Given(d)
      BY <1>2, <2>3, Zenon DEF Others
    <3>2. /\ wrote[d] = Part(d, 0, Len(wrote[d]))
          /\ pending[d] = Part(d, Len(wrote[d]), Len(pending[d]))
          /\ ~dead[d] => Queued(d) = Part(d, Given(d), received[d] - Given(d))
      BY DEF StreamInv, Placed
    <3> QED BY <2>1, <3>1, <3>2, Zenon
  <2> QED BY <2>2, <2>3
<1> QED BY <1>3, <1>4

\* The shared memory has no room for what c would write next.
SharedFull(c) == Shared - InUse(acked)' < Min({Chunk, Len(pending'[c])})

\* What a step may do to bytes that wait, as PendingHasWakeup has it.
Woken == \A c \in Conns : Stuck(c)' => Stuck(c) \/ SharedFull(c)

\* A connection a step leaves alone, or tells to stop, does not get stuck.
LEMMA AloneNotStuck ==
  ASSUME NEW d \in Conns, wrote'[d] = wrote[d], pending'[d] = pending[d], acked'[d] = acked[d],
         dead[d] => dead'[d]
  PROVE  Stuck(d)' => Stuck(d)
<1>1. Unacked(acked, d)' = Unacked(acked, d)
  BY Zenon DEF Unacked
<1> QED BY <1>1, Zenon DEF Stuck

\* A step that writes to c, or acknowledges it, leaves the others alone.
LEMMA MovedWakes ==
  ASSUME UNCHANGED dead, NEW c \in Conns,
         \A d \in Conns \ {c} : /\ wrote'[d] = wrote[d] /\ pending'[d] = pending[d]
                                /\ acked'[d] = acked[d],
         Stuck(c)' => Stuck(c) \/ SharedFull(c)
  PROVE  Woken
<1> SUFFICES ASSUME NEW d \in Conns PROVE Stuck(d)' => Stuck(d) \/ SharedFull(d)
  BY Zenon DEF Woken
<1>1. CASE d = c
  BY <1>1, Zenon
<1>2. CASE d # c
  <2>1. Stuck(d)' => Stuck(d)
    BY <1>2, AloneNotStuck
  <2> QED BY <2>1
<1> QED BY <1>1, <1>2

\* After a write that took nothing of what waits, though nothing of c was
\* unacknowledged: the send buffer was empty, so it was the shared memory that
\* had no room.
LEMMA RefusedForShared ==
  ASSUME NEW c \in Conns, NEW ack, Unacked(ack, c) = 0,
         InUse(ack) \in Int, InUse(ack) <= Shared, InUse(acked)' = InUse(ack),
         pending'[c] \in Seq(Bytes),
         ~(FirstPiece(pending'[c]) <= Room(ack, c))
  PROVE  SharedFull(c)
<1> DEFINE m == Len(pending'[c])
           p == Min({Chunk, m})
           r == Room(ack, c)
           u == InUse(ack)
<1>1. m \in Nat /\ Chunk \in Nat /\ SndBuf \in Nat /\ Shared \in Nat /\ Chunk <= SndBuf /\ u \in Int
  BY SessionAssumption
<1>2. r = SndBuf - Unacked(ack, c) \/ r = Shared - u
  BY <1>1, RoomFacts
<1>3. r = SndBuf \/ r = Shared - u
  BY <1>1, <1>2
<1>4. ~(p <= r)
  BY DEF FirstPiece
<1>5. SharedFull(c) <=> Shared - u < p
  BY DEF SharedFull
<1> HIDE DEF m, p, r, u
<1>6. p \in Int /\ p <= Chunk
  <2>1. Min({Chunk, m}) = IF Chunk <= m THEN Chunk ELSE m
    BY <1>1, MinOfTwo
  <2> QED BY <1>1, <2>1 DEF p
<1>7. Shared - u < p
  BY <1>1, <1>3, <1>4, <1>6
<1> QED BY <1>5, <1>7

\* A step that writes n bytes to c, of which h waited: what handleSent and the job
\* of a living session have in common.
LEMMA WriteStep ==
  ASSUME StreamInv, Ownership', NEW c \in Conns, g_conns[connId[c]] = c,
         NEW ack \in [Conns -> Nat], \A d \in Conns : Unacked(ack, d) \in 0 .. SndBuf,
         InUse(ack) \in Int, InUse(ack) <= Shared,
         acked' = ack, \A d \in Conns \ {c} : ack[d] = acked[d],
         UNCHANGED g_conns, Others(c),
         NEW h \in Seq(Bytes), NEW data \in Seq(Bytes), NEW n \in Nat,
         Len(wrote[c]) + n <= received[c],
         h \o data = Part(c, Len(wrote[c]), n),
         writeOrQueue(c, ack, h, data),
         ~dead[c] => Queued(c)' = Part(c, Len(wrote[c]) + n, received[c] - (Len(wrote[c]) + n))
  PROVE  /\ StreamInv'
         /\ h = <<>> \/ Unacked(ack, c) > 0 \/ Stuck(c) => Woken
<1>1. /\ ControlType /\ InTheirSlots /\ DataType /\ wrote[c] = Part(c, 0, Len(wrote[c]))
      /\ Len(wrote[c]) \in Nat /\ connId[c] \in Slots
  BY ByteTypes DEF StreamInv, Ownership, Placed, ControlType
<1>2. Room(ack, c) \in Int /\ 0 <= Room(ack, c)
  BY RoomFacts
<1>3. Len(wrote[c]) + n <= MaxBytes
  BY <1>1, SessionAssumption DEF ControlType
<1>4. /\ Moved(c, n, Room(ack, c))
      /\ h = <<>> /\ pending'[c] # <<>> /\ FirstPiece(pending'[c]) <= Room(ack, c) =>
           Len(wrote'[c]) > Len(wrote[c])
  BY <1>1, <1>2, <1>3, WriteMoves
<1>5. /\ Buffered'
      /\ Unacked(acked, c)' = Unacked(ack, c) + (Len(wrote'[c]) - Len(wrote[c]))
      /\ Len(wrote'[c]) = Len(wrote[c]) => InUse(acked)' = InUse(ack)
  BY <1>1, <1>4, WriteBuffered
<1>6. DataType' /\ Placed'
  BY <1>4, MovedPlaced
<1>7. ASSUME h = <<>> \/ Unacked(ack, c) > 0 \/ Stuck(c), Stuck(c)'
      PROVE  Stuck(c) \/ SharedFull(c)
  <2> DEFINE u == Unacked(ack, c)
             new == Len(wrote'[c])
             old == Len(wrote[c])
  <2>1. u \in Nat /\ new \in Nat /\ old \in Nat /\ old <= new
    BY <1>1, <1>4, SessionAssumption DEF Moved
  <2>2. pending'[c] # <<>> /\ u + (new - old) = 0
    BY <1>5, <1>7 DEF Stuck
  <2>3. u = 0 /\ new = old
    <3> HIDE DEF u, new, old
    <3> QED BY <2>1, <2>2
  <2>4. CASE Stuck(c)
    BY <2>4
  <2>5. CASE h = <<>>
    <3>1. ~(new > old)
      BY <2>1, <2>3
    <3>2. ~(FirstPiece(pending'[c]) <= Room(ack, c))
      BY <1>4, <2>2, <2>5, <3>1
    <3>3. Unacked(ack, c) = 0 /\ InUse(acked)' = InUse(ack) /\ pending'[c] \in Seq(Bytes)
      BY <1>4, <1>5, <2>3 DEF Moved
    <3>4. SharedFull(c)
      BY <3>2, <3>3, RefusedForShared
    <3> QED BY <3>4
  <2>6. CASE u > 0
    BY <2>3, <2>6
  <2> QED BY <1>7, <2>4, <2>5, <2>6
<1>8. ASSUME h = <<>> \/ Unacked(ack, c) > 0 \/ Stuck(c)
      PROVE  Woken
  <2>1. \A d \in Conns \ {c} : wrote'[d] = wrote[d] /\ pending'[d] = pending[d]
    BY DEF Others
  <2>2. UNCHANGED dead
    BY DEF Others
  <2> QED BY <1>7, <1>8, <2>1, <2>2, MovedWakes
<1> QED BY <1>5, <1>6, <1>8 DEF StreamInv

\* handleSent: what waits is written, of this connection if the slot has a session.
LEMMA SentStep ==
  ASSUME StreamInv, Ownership', NEW s \in Slots, NEW n \in 1 .. SndBuf, handleSent(s, n)
  PROVE  StreamInv' /\ Woken
<1>0. PICK c, x, ack : c = g_conns[s] /\ x = sessions[s] /\ ack = [acked EXCEPT ![c] = @ + n]
  BY Zenon
<1>1. /\ c \in Conns /\ n \in 1 .. Unacked(acked, c) /\ acked' = ack
      /\ UNCHANGED <<workerDomain, g_conns, dead, ws, queue, received>>
      /\ IF x = NoConn \/ pending[x] = <<>> THEN UNCHANGED <<pending, wrote>>
         ELSE writeOrQueue(x, ack, <<>>, pending[x])
  BY <1>0 DEF handleSent, StreamInv, Ownership, ControlType
<1>2. x = c \/ (x = NoConn /\ dead[c])
  BY <1>0, <1>1, SessionAssumption DEF StreamInv, Ownership, HasSession
<1>3. connId[c] = s
  BY <1>0, <1>1 DEF StreamInv, Ownership, InTheirSlots
<1>4. acked \in [Conns -> Nat] /\ g_conns[s] = c
  BY <1>0 DEF StreamInv, DataType
<1>5. \A d \in Conns \ {c} : ack[d] = acked[d]
  BY <1>0, <1>1, <1>4
<1>6. /\ ack \in [Conns -> Nat]
      /\ \A d \in Conns : Unacked(ack, d) \in 0 .. SndBuf
      /\ InUse(ack) \in Int /\ InUse(ack) = InUse(acked) - n
  <2>1. ack = [acked EXCEPT ![c] = @ + n]
    BY <1>0
  <2>2. ControlType /\ InTheirSlots /\ DataType /\ Buffered
    BY DEF StreamInv, Ownership
  <2>3. c \in Conns /\ g_conns[s] = c /\ n \in 1 .. Unacked(acked, c) /\ s \in Slots
    BY <1>1, <1>4
  <2> QED BY <2>1, <2>2, <2>3, AckFrees, Zenon
<1>7. InUse(ack) <= Shared
  <2>1. InUse(acked) \in Int /\ InUse(acked) <= Shared
    BY <1>4, HeldType DEF StreamInv, Ownership, Buffered
  <2> QED BY <1>6, <2>1, SessionAssumption
<1>8. \A d \in Conns : Queued(d)' = Queued(d)
  BY <1>1, SameQueue
<1>9. CASE UNCHANGED <<pending, wrote>> /\ (x = c => pending[c] = <<>>)
  <2>1. DataType'
    BY <1>1, <1>6, <1>9 DEF StreamInv, DataType, Given
  <2>2. Placed'
    BY <1>1, <1>8, <1>9, Zenon DEF StreamInv, Placed, Given
  <2>3. Buffered'
    <3>1. \A d \in Conns : Unacked(acked, d)' = Unacked(ack, d)
      BY <1>1, <1>9, Zenon DEF Unacked
    <3>2. Held(acked)' = Held(ack)
      BY <1>1, <1>9, Zenon DEF Held, Unacked
    <3>3. InUse(acked)' = InUse(ack)
      BY <3>2, Zenon DEF InUse
    <3> QED BY <1>6, <1>7, <3>1, <3>3 DEF Buffered
  <2>4. Woken
    <3>1. ~Stuck(c)'
      BY <1>1, <1>2, <1>9 DEF Stuck
    <3> QED BY <1>1, <1>5, <1>9, <3>1, MovedWakes
  <2> QED BY <2>1, <2>2, <2>3, <2>4 DEF StreamInv
<1>10. CASE x # NoConn /\ pending[x] # <<>>
  <2>1. x = c
    BY <1>2, <1>10
  <2>0. PICK p, m : p = pending[c] /\ m = Len(pending[c])
    BY Zenon
  <2>2. writeOrQueue(c, ack, <<>>, p)
    BY <1>1, <1>10, <2>1, <2>0
  <2>3. p \in Seq(Bytes) /\ <<>> \in Seq(Bytes) /\ m \in Nat /\ <<>> \o p = p
    BY <1>1, <2>0, ByteTypes, ConcatEmptySeq DEF StreamInv
  <2>4. p = Part(c, Len(wrote[c]), m)
    BY <1>1, <2>0 DEF StreamInv, Placed
  <2>5. Len(wrote[c]) + m = Given(c) /\ Given(c) <= received[c]
    BY <1>1, <2>0 DEF StreamInv, DataType, Given
  <2>6. ~dead[c] => Queued(c)' = Part(c, Len(wrote[c]) + m, received[c] - (Len(wrote[c]) + m))
    BY <1>1, <1>8, <2>5, Zenon DEF StreamInv, Placed
  <2>7. <<>> \o p = Part(c, Len(wrote[c]), m)
    BY <2>3, <2>4
  <2>8. Others(c)
    <3>1. \A d \in Conns \ {c} : wrote'[d] = wrote[d] /\ pending'[d] = pending[d]
      <4>1. wrote \in [Conns -> Seq(Bytes)] /\ pending \in [Conns -> Seq(Bytes)]
        BY DEF StreamInv, DataType
      <4>2. \E y, z : /\ pending' = [pending EXCEPT ![c] = y]
                      /\ wrote' = wrote \/ wrote' = [wrote EXCEPT ![c] = z]
        BY <1>3, <1>4, <2>2, Zenon DEF writeOrQueue
      <4> QED BY <1>1, <4>1, <4>2, Zenon
    <3> QED BY <1>1, <1>8, <3>1 DEF Others
  <2>9. g_conns[connId[c]] = c
    BY <1>3, <1>4
  <2>10. StreamInv' /\ Woken
    <3>1. /\ c \in Conns /\ ack \in [Conns -> Nat] /\ acked' = ack /\ UNCHANGED g_conns
          /\ p \in Seq(Bytes) /\ <<>> \in Seq(Bytes) /\ m \in Nat
          /\ Len(wrote[c]) + m <= received[c]
      BY <1>1, <1>6, <2>3, <2>5, Zenon
    <3> QED BY <1>5, <1>6, <1>7, <2>2, <2>6, <2>7, <2>8, <2>9, <3>1, WriteStep, Zenon
  <2> QED BY <2>10
<1>11. x = c => c # NoConn
  BY <1>1, SessionAssumption
<1> QED BY <1>1, <1>9, <1>10, <1>11

\* The data job of a session that is not dead.
LiveJob == RunDataJob /\ ~dead[Head(queue).conn]

\* The session owns its id, and the job carries the bytes of the stream that come next.
LEMMA LiveJobStep ==
  ASSUME StreamInv, Ownership', LiveJob
  PROVE  StreamInv' /\ Woken
<1>0. PICK j, c, ack, h, data, rest :
        /\ j = Head(queue) /\ c = j.conn /\ ack = acked /\ h = pending[c] /\ data = j.data
        /\ rest = DataOf(Tail(queue), c)
  BY Zenon
<1>1. /\ queue # <<>> /\ queue' = Tail(queue) /\ ~dead[c]
      /\ UNCHANGED <<workerDomain, g_conns, dead, ws, received, acked>>
      /\ writeOrQueue(c, ack, h, data)
  BY <1>0 DEF RunDataJob, LiveJob
<1>2. /\ queue \in Seq(Job) /\ j \in Job /\ c \in Conns /\ data \in Seq(Bytes)
      /\ g_conns[connId[c]] = c
  <2>1. j \in Job /\ ws[c] # "none"
    BY <1>0, <1>1, QueueStep DEF StreamInv
  <2>2. c \in Conns /\ data \in Seq(Bytes)
    BY <1>0, <2>1 DEF Job
  <2> QED BY <1>1, <2>1, <2>2 DEF StreamInv, Ownership, OwnsItsId, ControlType
<1>3. PICK W, P, M, L, R : /\ W = Len(wrote[c]) /\ P = Len(h) /\ M = Len(data) /\ L = Len(rest)
                           /\ R = received[c]
  BY Zenon
<1>4. /\ h \in Seq(Bytes) /\ W \in Nat /\ P \in Nat /\ R \in Nat /\ R <= MaxBytes
      /\ Given(c) = W + P /\ W + P <= R /\ MaxBytes \in Nat
  <2>1. received[c] \in 0 .. MaxBytes
    BY <1>2 DEF StreamInv, Ownership, ControlType
  <2>2. Given(c) = W + P /\ Given(c) <= received[c]
    BY <1>0, <1>2, <1>3 DEF StreamInv, DataType, Given
  <2>3. h \in Seq(Bytes) /\ W \in Nat /\ P \in Nat
    BY <1>0, <1>2, <1>3, ByteTypes DEF StreamInv
  <2> QED BY <1>3, <2>1, <2>2, <2>3, SessionAssumption
<1>5. rest \in Seq(Bytes) /\ Queued(c) = data \o rest /\ Queued(c)' = rest
  <2>1. DataOf(Tail(queue), c) \in Seq(Bytes)
        /\ DataOf(queue, c) = Own(Head(queue), c) \o DataOf(Tail(queue), c)
    BY <1>1, <1>2, DataOfTail
  <2>2. Own(Head(queue), c) = data
    BY <1>0, Zenon DEF Own
  <2>3. Queued(c) = DataOf(queue, c) /\ Queued(c)' = DataOf(queue', c)
    BY Zenon DEF Queued, DataOf
  <2> QED BY <1>0, <1>1, <2>1, <2>2, <2>3, Zenon
<1>6. M \in Nat /\ L \in Nat
  BY <1>2, <1>3, <1>5
<1>7. /\ M + L = R - (W + P)
      /\ data = Part(c, W + P, M) /\ rest = Part(c, (W + P) + M, L)
  <2>1. data \o rest = Part(c, W + P, R - (W + P))
    BY <1>1, <1>2, <1>3, <1>4, <1>5, Zenon DEF StreamInv, Placed
  <2>2. W + P \in Nat /\ R - (W + P) \in Nat /\ (W + P) + (R - (W + P)) <= MaxBytes
    BY <1>4
  <2>3. PICK G, n : G = W + P /\ n = R - (W + P)
    BY Zenon
  <2>4. /\ c \in Conns /\ G \in Nat /\ n \in Nat /\ G + n <= MaxBytes
        /\ data \in Seq(Bytes) /\ rest \in Seq(Bytes) /\ data \o rest = Part(c, G, n)
    BY <1>2, <1>5, <2>1, <2>2, <2>3, Zenon
  <2>5. /\ Len(data) + Len(rest) = n
        /\ data = Part(c, G, Len(data)) /\ rest = Part(c, G + Len(data), Len(rest))
    BY <2>4, PartSplit
  <2> QED BY <1>3, <2>3, <2>5, Zenon
<1>8. h \o data = Part(c, W, P + M)
  <2>1. h = Part(c, W, P)
    BY <1>0, <1>2, <1>3 DEF StreamInv, Placed
  <2>2. P + M \in Nat /\ W + (P + M) <= MaxBytes
    BY <1>4, <1>6, <1>7
  <2>3. Part(c, W, P) \o Part(c, W + P, M) = Part(c, W, P + M)
    <3>1. c \in Conns /\ W \in Nat /\ P \in Nat /\ M \in Nat /\ W + (P + M) <= MaxBytes
      BY <1>2, <1>4, <1>6, <2>2
    <3> QED BY <3>1, PartJoin
  <2> QED BY <1>7, <2>1, <2>3
<1>9. /\ P + M \in Nat /\ W + (P + M) <= R
      /\ L = R - (W + (P + M)) /\ (W + P) + M = W + (P + M)
  BY <1>4, <1>6, <1>7
<1>10. Queued(c)' = Part(c, W + (P + M), R - (W + (P + M)))
  BY <1>5, <1>7, <1>9, Zenon
<1>11. Others(c)
  <2>1. \A d \in Conns \ {c} : Queued(d)' = Queued(d)
    BY <1>0, <1>1, <1>2, CloseJobData DEF StreamInv, Ownership
  <2>2. \A d \in Conns \ {c} : wrote'[d] = wrote[d] /\ pending'[d] = pending[d]
    <3>1. wrote \in [Conns -> Seq(Bytes)] /\ pending \in [Conns -> Seq(Bytes)]
      BY DEF StreamInv, DataType
    <3>2. \E y, z : /\ pending' = [pending EXCEPT ![c] = y]
                    /\ wrote' = wrote \/ wrote' = [wrote EXCEPT ![c] = z]
      BY <1>1, <1>2, Zenon DEF writeOrQueue
    <3> QED BY <1>2, <3>1, <3>2, Zenon
  <2> QED BY <1>1, <2>1, <2>2 DEF Others
<1>12. /\ ack \in [Conns -> Nat] /\ acked' = ack /\ \A d \in Conns \ {c} : ack[d] = acked[d]
       /\ \A d \in Conns : Unacked(ack, d) \in 0 .. SndBuf
       /\ InUse(ack) \in Int /\ InUse(ack) <= Shared
  <2>1. acked \in [Conns -> Nat]
    BY DEF StreamInv, DataType
  <2>2. InUse(acked) \in Int
    BY <2>1, HeldType DEF StreamInv, Ownership
  <2> QED BY <1>0, <1>1, <2>1, <2>2 DEF StreamInv, Buffered
<1>13. /\ StreamInv'
       /\ h = <<>> \/ Unacked(ack, c) > 0 \/ Stuck(c) => Woken
  <2>1. PICK n : n = P + M
    BY Zenon
  <2>2. /\ n \in Nat /\ Len(wrote[c]) + n <= received[c]
        /\ h \o data = Part(c, Len(wrote[c]), n)
        /\ Queued(c)' = Part(c, Len(wrote[c]) + n, received[c] - (Len(wrote[c]) + n))
    BY <1>3, <1>8, <1>9, <1>10, <2>1, Zenon
  <2>3. UNCHANGED g_conns
    BY <1>1
  <2> QED BY <1>1, <1>2, <1>4, <1>11, <1>12, <2>2, <2>3, WriteStep, Zenon
<1>14. h = <<>> \/ Unacked(ack, c) > 0 \/ Stuck(c)
  <2>1. Unacked(ack, c) \in 0 .. SndBuf /\ SndBuf \in Nat
    BY <1>2, <1>12, SessionAssumption
  <2>2. h # <<>> /\ Unacked(ack, c) = 0 => Stuck(c)
    BY <1>0, <1>1, Zenon DEF Stuck
  <2> QED BY <2>1, <2>2
<1> QED BY <1>13, <1>14

\* A frame: its bytes follow those that are queued already.
LEMMA WSDataStep ==
  ASSUME StreamInv, Ownership', NEW c \in Conns, NEW k \in 1 .. MaxFrame, handleWSData(c, k)
  PROVE  StreamInv' /\ Woken
<1>0. PICK j, data, R : /\ data = [i \in 1 .. k |-> Byte(c, received[c] + i)]
                        /\ j = [kind |-> "data", conn |-> c, data |-> data]
                        /\ R = received[c]
  BY Zenon
<1>1. /\ ws[c] # "none" /\ R + k <= MaxBytes
      /\ received' = [received EXCEPT ![c] = R + k] /\ queue' = Append(queue, j)
      /\ UNCHANGED <<workerDomain, g_conns, dead, ws, pending, wrote, acked>>
  BY <1>0 DEF handleWSData
<1>2. /\ k \in Nat /\ R \in Nat /\ MaxBytes \in Nat /\ R + k \in Nat
      /\ queue \in Seq(Job) /\ received \in [Conns -> 0 .. MaxBytes]
  BY <1>0, SessionAssumption DEF StreamInv, Ownership, ControlType
<1>3. received'[c] = R + k /\ \A d \in Conns \ {c} : received'[d] = received[d]
  BY <1>1, <1>2
<1>4. data = Part(c, R, k) /\ data \in Seq(Bytes)
  <2>1. data = Part(c, R, k)
    BY <1>0, Zenon DEF Part
  <2> QED BY <1>1, <1>2, <2>1, PartType
<1>5. j \in Job /\ Own(j, c) = data /\ \A d \in Conns \ {c} : Own(j, d) = <<>>
  <2>1. j \in Job /\ j.conn = c /\ j.data = data
    BY <1>0, <1>4 DEF Job
  <2> QED BY <2>1 DEF Own
<1>6. \A d \in Conns : Queued(d) \in Seq(Bytes) /\ Queued(d)' = Queued(d) \o Own(j, d)
  <2> TAKE d \in Conns
  <2>1. DataOf(queue, d) \in Seq(Bytes) /\ DataOf(Append(queue, j), d) = DataOf(queue, d) \o Own(j, d)
    BY <1>2, <1>5, DataOfAppend
  <2>2. Queued(d) = DataOf(queue, d) /\ Queued(d)' = DataOf(queue', d)
    BY Zenon DEF Queued, DataOf
  <2> QED BY <1>1, <2>1, <2>2, Zenon
<1>7. \A d \in Conns : Given(d)' = Given(d) /\ Given(d) <= received[d] /\ Given(d) \in Nat
  <2> TAKE d \in Conns
  <2>1. Given(d)' = Given(d)
    BY <1>1 DEF Given
  <2>2. Len(wrote[d]) \in Nat /\ Len(pending[d]) \in Nat
    BY ByteTypes DEF StreamInv
  <2>3. Given(d) \in Nat
    <3>1. PICK x, y : x = Len(wrote[d]) /\ y = Len(pending[d])
      BY Zenon
    <3>2. x \in Nat /\ y \in Nat
      BY <2>2, <3>1, Zenon
    <3>3. x + y \in Nat
      BY <3>2
    <3> QED BY <3>1, <3>3, Zenon DEF Given
  <2>4. Given(d) <= received[d]
    BY DEF StreamInv, DataType
  <2> QED BY <2>1, <2>3, <2>4, Zenon
<1>8. DataType'
  <2>1. \A d \in Conns : Given(d)' <= received'[d]
    <3> TAKE d \in Conns
    <3>1. CASE d = c
      <4>1. Given(c) \in Nat /\ Given(c) <= R /\ Given(c)' = Given(c)
        BY <1>0, <1>7
      <4> QED BY <1>2, <1>3, <3>1, <4>1
    <3>2. CASE d # c
      <4>1. Given(d)' = Given(d) /\ Given(d) <= received[d] /\ received'[d] = received[d]
        BY <1>3, <1>7, <3>2
      <4> QED BY <4>1, Zenon
    <3> QED BY <3>1, <3>2
  <2>2. \A d \in Conns : ws'[d] = "none" => received'[d] = 0
    BY <1>1, <1>3 DEF StreamInv, DataType
  <2> QED BY <1>1, <2>1, <2>2 DEF StreamInv, DataType
<1>9. Placed'
  <2> SUFFICES ASSUME NEW d \in Conns
               PROVE  /\ wrote'[d] = Part(d, 0, Len(wrote'[d]))
                      /\ pending'[d] = Part(d, Len(wrote'[d]), Len(pending'[d]))
                      /\ ~dead'[d] => Queued(d)' = Part(d, Given(d)', received'[d] - Given(d)')
    BY DEF Placed
  <2>1. /\ wrote[d] = Part(d, 0, Len(wrote[d]))
        /\ pending[d] = Part(d, Len(wrote[d]), Len(pending[d]))
        /\ ~dead[d] => Queued(d) = Part(d, Given(d), received[d] - Given(d))
    BY DEF StreamInv, Placed
  <2>2. ~dead[d] => Queued(d)' = Part(d, Given(d), received'[d] - Given(d))
    <3> SUFFICES ASSUME ~dead[d] PROVE Queued(d)' = Part(d, Given(d), received'[d] - Given(d))
      OBVIOUS
    <3>1. CASE d = c
      <4>1. PICK G, n : G = Given(c) /\ n = R - G
        BY Zenon
      <4>2. G \in Nat /\ n \in Nat /\ G + n = R /\ G + (n + k) <= MaxBytes /\ n + k = (R + k) - G
        <5>1. G \in Nat /\ G <= R
          BY <1>0, <1>7, <4>1
        <5>2. n = R - G /\ R \in Nat /\ k \in Nat /\ R + k <= MaxBytes
          BY <1>1, <1>2, <4>1
        <5> QED BY <5>1, <5>2
      <4>3. Queued(c)' = Part(c, G, n) \o Part(c, G + n, k)
        BY <1>0, <1>4, <1>5, <1>6, <2>1, <3>1, <4>1, <4>2, Zenon
      <4>4. Part(c, G, n) \o Part(c, G + n, k) = Part(c, G, n + k)
        <5>1. c \in Conns /\ G \in Nat /\ n \in Nat /\ k \in Nat /\ G + (n + k) <= MaxBytes
          BY <1>2, <4>2
        <5> QED BY <5>1, PartJoin
      <4> QED BY <1>3, <3>1, <4>1, <4>2, <4>3, <4>4, Zenon
    <3>2. CASE d # c
      <4>1. Queued(d) \in Seq(Bytes) /\ Queued(d)' = Queued(d) \o <<>>
        BY <1>5, <1>6, <3>2, Zenon
      <4>2. Queued(d)' = Queued(d) /\ received'[d] = received[d]
        BY <1>3, <3>2, <4>1, ConcatEmptySeq
      <4> QED BY <2>1, <4>2, Zenon
    <3> QED BY <3>1, <3>2
  <2>3. wrote' = wrote /\ pending' = pending /\ dead' = dead /\ Given(d)' = Given(d)
    BY <1>1, <1>7
  <2> QED BY <2>1, <2>2, <2>3, Zenon
<1>10. Buffered'
  <2>1. 0 \in Slots
    BY SessionAssumption DEF Slots
  <2>2. ControlType /\ ControlType' /\ DataType /\ Buffered
    BY DEF StreamInv, Ownership
  <2> QED BY <1>1, <2>1, <2>2, SlotBuffered
<1>11. Woken
  BY <1>1, MovedWakes, AloneNotStuck
<1> QED BY <1>8, <1>9, <1>10, <1>11 DEF StreamInv

-----------------------------------------------------------------------------
(* The theorems about bytes *)

\* At the start nothing was sent, so nothing can be out of place.
LEMMA StreamInit == Init => StreamInv
<1> SUFFICES ASSUME Init PROVE StreamInv
  OBVIOUS
<1>1. Ownership
  BY OwnershipInit
<1>2. /\ workerDomain \in BOOLEAN
      /\ g_conns = [s \in Slots |-> NoConn] /\ queue = <<>>
      /\ pending = [c \in Conns |-> <<>>] /\ wrote = [c \in Conns |-> <<>>]
      /\ acked = [c \in Conns |-> 0] /\ received = [c \in Conns |-> 0]
  BY DEF Init
<1>3. \A c \in Conns : /\ wrote[c] = <<>> /\ pending[c] = <<>> /\ acked[c] = 0 /\ received[c] = 0
                       /\ Len(wrote[c]) = 0 /\ Len(pending[c]) = 0
  BY <1>2
<1>4. \A c \in Conns : Given(c) = 0 /\ Unacked(acked, c) = 0
  <2>1. 0 + 0 = 0 /\ 0 - 0 = 0
    OBVIOUS
  <2> QED BY <1>3, <2>1, Zenon DEF Given, Unacked
<1>5. DataType
  <2>1. \A c \in Conns : Given(c) <= received[c]
    BY <1>3, <1>4
  <2>2. pending \in [Conns -> Seq(Bytes)] /\ wrote \in [Conns -> Seq(Bytes)] /\ acked \in [Conns -> Nat]
    BY <1>2
  <2> QED BY <1>2, <1>3, <2>1, <2>2, Zenon DEF DataType
<1>6. Placed
  <2>1. ASSUME NEW c \in Conns PROVE Queued(c) = <<>>
    <3>1. <<>> \in Seq(Job) /\ Len(<<>>) = 0
      OBVIOUS
    <3>2. PICK f : Cats(f, <<>>, c) /\ DataOf(<<>>, c) = f[Len(<<>>)]
      BY <3>1, DataOfIs
    <3>3. DataOf(<<>>, c) = <<>>
      BY <3>1, <3>2, Zenon DEF Cats
    <3> QED BY <1>2, <3>3, Zenon DEF Queued
  <2>2. ASSUME NEW c \in Conns PROVE \A a : Part(c, a, 0) = <<>>
    BY DEF Part
  <2>3. 0 - 0 = 0
    OBVIOUS
  <2> QED BY <1>3, <1>4, <2>1, <2>2, <2>3, Zenon DEF Placed
<1>7. Buffered
  <2>1. PICK v : v = Held(acked)
    BY Zenon
  <2>2. v = [s \in 0 .. MAX_CONNS - 1 |-> 0]
    BY <1>2, <2>1 DEF Held, Slots
  <2>3. v \in [0 .. MAX_CONNS - 1 -> 0 .. 0] /\ 0 \in Nat /\ MAX_CONNS \in Nat
    BY <2>2, SessionAssumption
  <2>4. Total(v, MAX_CONNS) <= MAX_CONNS * 0
    BY <2>3, TotalBound
  <2>5. Total(v, MAX_CONNS) <= 0
    BY <2>3, <2>4
  <2>6. InUse(acked) <= 0 /\ InUse(acked) \in Int
    BY <2>1, <2>3, <2>5, TotalBound DEF InUse
  <2>7. InUse(acked) <= Shared
    BY <2>6, SessionAssumption
  <2> QED BY <1>4, <2>7, SessionAssumption DEF Buffered
<1> QED BY <1>1, <1>5, <1>6, <1>7 DEF StreamInv

\* What a quiet step does to what waits: nothing.
LEMMA QuietWakes ==
  ASSUME Quiet
  PROVE  Woken
<1> SUFFICES ASSUME NEW d \in Conns PROVE Stuck(d)' => Stuck(d) \/ SharedFull(d)
  BY Zenon DEF Woken
<1>1. /\ wrote'[d] = wrote[d] /\ pending'[d] = pending[d] /\ acked'[d] = acked[d]
      /\ dead[d] => dead'[d]
  BY DEF Quiet
<1> QED BY <1>1, AloneNotStuck

\* Every step keeps the bytes in place, and leaves none without a wake-up unless the
\* shared memory is full.
LEMMA StreamStep ==
  ASSUME StreamInv, [Next]_vars
  PROVE  StreamInv' /\ Woken
<1> DEFINE Goal == StreamInv' /\ Woken
<1>0. Ownership'
  BY OwnershipStep DEF StreamInv
<1>1. Quiet => Goal
  BY <1>0, QuietStep, QuietWakes
<1> HIDE DEF Goal
<1>2. ASSUME UNCHANGED vars PROVE Goal
  <2>1. UNCHANGED <<workerDomain, g_conns, dead, ws, queue, pending, wrote, acked, received>>
    BY <1>2 DEF vars
  <2>2. OneSlot
    BY <2>1, TableOneSlot DEF StreamInv, Ownership
  <2>3. \A c \in Conns : Queued(c)' = Queued(c)
    BY <2>1, SameQueue
  <2>4. Quiet
    BY <1>2, <2>1, <2>2, <2>3, Zenon DEF Quiet, vars
  <2> QED BY <1>1, <2>4
<1>3. ASSUME NEW c \in Conns, handleAccept(c) PROVE Goal
  BY <1>1, <1>3, AcceptQuiet
<1>4. ASSUME NEW c \in Conns, handleWSClose(c) PROVE Goal
  BY <1>1, <1>4, WSCloseQuiet
<1>5. ASSUME NEW c \in Conns, NEW k \in 1 .. MaxFrame, handleWSData(c, k) PROVE Goal
  BY <1>0, <1>5, WSDataStep DEF Goal
<1>6. ASSUME NEW s \in Slots, handleData(s) PROVE Goal
  BY <1>1, <1>6, DataQuiet
<1>7. ASSUME stopTunnel \/ \E s \in Slots : handleClose(s) PROVE Goal
  BY <1>1, <1>7, CloseQuiet
<1>8. ASSUME NEW s \in Slots, NEW n \in 1 .. SndBuf, handleSent(s, n) PROVE Goal
  BY <1>0, <1>8, SentStep DEF Goal
<1>9. ASSUME RunDataJob PROVE Goal
  <2>1. CASE dead[Head(queue).conn]
    <3>1. Quiet
      BY <1>9, <2>1, DeadJobQuiet, Zenon
    <3> QED BY <1>1, <3>1
  <2>2. CASE LiveJob
    BY <1>0, <2>2, LiveJobStep DEF Goal
  <2> QED BY <1>9, <2>1, <2>2 DEF LiveJob
<1>10. ASSUME RunCloseJob PROVE Goal
  <2>1. Quiet
    BY <1>10, DeadJobQuiet, Zenon
  <2> QED BY <1>1, <2>1
<1>11. Goal
  <2>1. CASE Next
    BY <1>3, <1>4, <1>5, <1>6, <1>7, <1>8, <1>9, <1>10, <2>1, Zenon DEF Next
  <2> QED BY <1>2, <2>1
<1> QED BY <1>11 DEF Goal

\* Every byte is where StreamInv has it, always.
LEMMA StreamAlways == Spec => []StreamInv
<1>1. Init => StreamInv
  BY StreamInit
<1>2. StreamInv /\ [Next]_vars => StreamInv'
  BY StreamStep
<1> QED BY <1>1, <1>2, PTL DEF Spec

\* onClose is counted up to the bound.
ClosesType == closes \in [Conns -> 0 .. MaxCloses]

\* Every call of onClose is below the bound when it is counted.
LEMMA ClosesCounted == Spec => []ClosesType
<1>1. Init => ClosesType
  BY SessionAssumption DEF Init, ClosesType
<1>2. ASSUME ClosesType, NEW c, QueueClose(c) PROVE ClosesType'
  <2>1. closes' = [closes EXCEPT ![c] = @ + 1] /\ closes[c] < MaxCloses /\ MaxCloses \in Nat
    BY <1>2, SessionAssumption DEF QueueClose
  <2>2. ASSUME NEW d \in Conns PROVE closes'[d] \in 0 .. MaxCloses
    <3>1. closes[d] \in 0 .. MaxCloses /\ closes'[d] = IF d = c THEN closes[d] + 1 ELSE closes[d]
      BY <1>2, <2>1 DEF ClosesType
    <3> QED BY <2>1, <3>1
  <2>3. closes' = [d \in Conns |-> closes'[d]]
    BY <1>2, <2>1, Zenon DEF ClosesType
  <2> QED BY <2>2, <2>3, Zenon DEF ClosesType
<1>3. ClosesType /\ [Next]_vars => ClosesType'
  <2> SUFFICES ASSUME ClosesType, [Next]_vars PROVE ClosesType'
    OBVIOUS
  <2>1. UNCHANGED closes => ClosesType'
    BY DEF ClosesType
  <2>2. ASSUME NEW c \in Conns,
               handleAccept(c) \/ handleWSClose(c) \/ \E k \in 1 .. MaxFrame : handleWSData(c, k)
        PROVE  ClosesType'
    BY <1>2, <2>1, <2>2, Zenon DEF handleAccept, handleWSClose, handleWSData
  <2>3. ASSUME NEW s \in Slots,
               handleData(s) \/ handleClose(s) \/ \E n \in 1 .. SndBuf : handleSent(s, n)
        PROVE  ClosesType'
    BY <1>2, <2>1, <2>3, Zenon DEF handleData, handleClose, handleSent
  <2>4. CASE stopTunnel \/ RunDataJob \/ RunCloseJob \/ UNCHANGED vars
    BY <2>1, <2>4, Zenon DEF stopTunnel, RunDataJob, RunCloseJob, vars
  <2> QED BY <2>2, <2>3, <2>4, Zenon DEF Next
<1> QED BY <1>1, <1>3, PTL DEF Spec

\* The states have the types they should, and no connection has more to
\* acknowledge than its send buffer holds, whatever the shared memory.
THEOREM SessionTypeCorrect == Spec => []TypeOK
<1>1. StreamInv /\ ClosesType => TypeOK
  <2> SUFFICES ASSUME StreamInv, ClosesType PROVE TypeOK
    OBVIOUS
  <2>1. ControlType /\ DataType
    BY DEF StreamInv, Ownership
  <2>2. \A c \in Conns : Len(wrote[c]) - acked[c] \in 0 .. SndBuf
    BY DEF StreamInv, Buffered, Unacked
  <2> QED BY <2>1, <2>2, Zenon DEF ControlType, DataType, ClosesType, TypeOK
<1> QED BY <1>1, StreamAlways, ClosesCounted, PTL

\* A part that starts with the stream is a prefix of it.
LEMMA PartIsStream ==
  ASSUME NEW c \in Conns, NEW n \in Nat
  PROVE  Part(c, 0, n) = Stream(c, n)
<1>1. \A i \in 1 .. n : 0 + i = i
  OBVIOUS
<1> QED BY <1>1, Zenon DEF Part, Stream

\* writeOrQueue, handleSent and the jobs give a connection a prefix of its own
\* stream: with an id that is used again, with late jobs, with frames that fit in
\* part or not at all, and with any number of bytes that wait.
THEOREM StreamsArePrefixes == Spec => []StreamPrefix
<1>1. StreamInv => StreamPrefix
  <2> SUFFICES ASSUME StreamInv, NEW c \in Conns PROVE wrote[c] = Stream(c, Len(wrote[c]))
    BY DEF StreamPrefix
  <2>1. wrote[c] = Part(c, 0, Len(wrote[c])) /\ Len(wrote[c]) \in Nat
    BY ByteTypes DEF StreamInv, Placed
  <2> QED BY <2>1, PartIsStream, Zenon
<1> QED BY <1>1, StreamAlways, PTL

\* While a session lives it loses nothing: what tcp_write took, what waits in
\* "pending" and what the jobs carry are the stream, in this order.
THEOREM LivingLoseNothing == Spec => []NothingLost
<1>1. StreamInv => NothingLost
  <2> SUFFICES ASSUME StreamInv, NEW c \in Conns, ~dead[c]
               PROVE  wrote[c] \o pending[c] \o Queued(c) = Stream(c, received[c])
    BY DEF NothingLost
  <2>1. PICK W, P, R : W = Len(wrote[c]) /\ P = Len(pending[c]) /\ R = received[c]
    BY Zenon
  <2>2. /\ wrote[c] = Part(c, 0, W) /\ pending[c] = Part(c, W, P)
        /\ Queued(c) = Part(c, W + P, R - (W + P)) /\ W + P <= R
    BY <2>1, Zenon DEF StreamInv, Placed, Given, DataType
  <2>3. W \in Nat /\ P \in Nat /\ R \in Nat /\ R <= MaxBytes /\ MaxBytes \in Nat
    <3>1. received[c] \in 0 .. MaxBytes
      BY DEF StreamInv, Ownership, ControlType
    <3> QED BY <2>1, <3>1, ByteTypes, SessionAssumption DEF StreamInv
  <2>4. PICK n : n = R - (W + P)
    BY Zenon
  <2>5. /\ n \in Nat /\ W + P \in Nat /\ (W + P) + n = R
    BY <2>2, <2>3, <2>4
  <2>6. \A z \in Nat : z + R <= MaxBytes =>
          /\ Part(c, z, W) \o Part(c, z + W, P) = Part(c, z, W + P)
          /\ Part(c, z, W + P) \o Part(c, z + (W + P), n) = Part(c, z, (W + P) + n)
    <3> TAKE z \in Nat
    <3> HAVE z + R <= MaxBytes
    <3>1. c \in Conns /\ z \in Nat /\ W \in Nat /\ P \in Nat /\ z + (W + P) <= MaxBytes
      BY <2>2, <2>3, <2>5
    <3>2. c \in Conns /\ z \in Nat /\ W + P \in Nat /\ n \in Nat /\ z + ((W + P) + n) <= MaxBytes
      BY <2>3, <2>5
    <3>3. Part(c, z, W) \o Part(c, z + W, P) = Part(c, z, W + P)
      BY <3>1, PartJoin
    <3>4. PICK g : g = W + P
      BY Zenon
    <3>5. g \in Nat /\ z + (g + n) <= MaxBytes
      BY <3>2, <3>4
    <3>6. Part(c, z, g) \o Part(c, z + g, n) = Part(c, z, g + n)
      BY <3>2, <3>5, PartJoin
    <3> QED BY <3>3, <3>4, <3>6, Zenon
  <2>7. 0 \in Nat /\ 0 + R <= MaxBytes /\ 0 + W = W /\ 0 + (W + P) = W + P
    BY <2>3
  <2>8. (wrote[c] \o pending[c]) \o Queued(c) = Part(c, 0, R)
    BY <2>2, <2>4, <2>5, <2>6, <2>7, Zenon
  <2> QED BY <2>1, <2>3, <2>8, PartIsStream, Zenon
<1> QED BY <1>1, StreamAlways, PTL

\* writeOrQueue and handleSent leave bytes of a living session without an
\* acknowledgement to wait for only when the shared memory, of whatever size, has no
\* room for the next piece of them: the send buffer of their own connection is never
\* the reason.  Nothing else takes the last acknowledgement away from them.
THEOREM WhatWaitsIsWoken == Spec => PendingHasWakeup
<1>1. StreamInv /\ [Next]_vars => Woken
  BY StreamStep
<1>2. Spec => [][Woken]_vars
  BY <1>1, StreamAlways, PTL DEF Spec
<1> QED BY <1>2 DEF PendingHasWakeup, Woken, SharedFull
=============================================================================
