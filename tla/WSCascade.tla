----------------------------- MODULE WSCascade -----------------------------
(***************************************************************************)
(* The cascade of Tunnel/WSClient.swift in direct mode: one WSClient that  *)
(* tries endpoint after endpoint until a gateway sends data.  Three kinds  *)
(* of threads run it: lwipQueue (connect, send, close), the serial         *)
(* delegate queue of URLSession (completions of send and receive) and      *)
(* global-queue timers.  Only TryState.claim is under a lock; "task",      *)
(* "firstRecv" and "delivered" are shared without one.                     *)
(*                                                                         *)
(* Going on to the next endpoint is not atomic: claim, "task = nil",       *)
(* "task = wsTask" and the init frame are steps of their own (variable     *)
(* moving), and lwipQueue may send or close between any two of them.       *)
(***************************************************************************)
EXTENDS Integers, Sequences, FiniteSets

CONSTANTS
  Hosts,    \* number of endpoints that connect() lists; endpoint h is a number
  MaxSends, \* frames the session sends
  MaxDown   \* frames one gateway sends

ASSUME CascadeAssumption == Hosts \in Nat \ {0} /\ MaxSends \in Nat /\ MaxDown \in Nat

VARIABLES
  endpoints, \* endpoints of this cascade that make a URL, empty before connect()
  deadUntil, \* the health cache: endpoints left out for ten minutes
  task,      \* index of the attempt whose task self.task holds, 0 for nil
  net,       \* the WebSocket of each attempt
  wire,      \* frames handed to it: 0 is the init, n the n-th frame of send()
  claimed, delivered, \* its TryState
  timer,     \* its timer: "passed" once it has read delivered = false
  receives,  \* its outstanding receive calls: of tryConnect or of receiveLoop
  inbox,     \* frames of the gateway not yet handed to a receive call
  down,      \* frames the gateway has sent
  moving,    \* how far a thread is on its way to the next attempt
  mover,     \* that thread: the delegate queue or a timer
  starts,    \* how often tryConnect ran for the attempt
  firstRecv, \* the flag
  got,       \* attempts whose data went to onMessage, in order
  closes,    \* calls of onClose
  sends,     \* calls of send()
  closed     \* close() was called

vars == <<endpoints, deadUntil, task, net, wire, claimed, delivered, timer, receives, inbox,
          down, moving, mover, starts, firstRecv, got, closes, sends, closed>>

Attempts == 1 .. Hosts

TypeOK ==
  /\ endpoints \in Seq(Attempts) /\ Len(endpoints) <= Hosts
  /\ deadUntil \subseteq Attempts
  /\ task \in 0 .. Len(endpoints)
  /\ net \in [Attempts -> {"none", "connecting", "open", "broken"}]
  /\ wire \in [Attempts -> Seq(0 .. MaxSends)]
  /\ claimed \in [Attempts -> BOOLEAN]
  /\ delivered \in [Attempts -> BOOLEAN]
  /\ timer \in [Attempts -> {"off", "on", "passed"}]
  /\ receives \in [Attempts -> Seq({"first", "loop"})]
  /\ inbox \in [Attempts -> 0 .. MaxDown]
  /\ down \in [Attempts -> 0 .. MaxDown]
  /\ moving \in [Attempts -> {"no", "claimed", "cleared", "set"}]
  /\ mover \in [Attempts -> {"delegate", "timer"}]
  /\ starts \in [Attempts -> Nat]
  /\ firstRecv \in BOOLEAN
  /\ got \in Seq(Attempts)
  /\ closes \in Nat
  /\ sends \in 0 .. MaxSends
  /\ closed \in BOOLEAN

-----------------------------------------------------------------------------
(* tryConnect *)

\* Frames given to a task that is cancelled or has failed go nowhere.
OnWire(w, n, i, frame) == IF n[i] = "broken" THEN w ELSE [w EXCEPT ![i] = Append(@, frame)]

\* Mutant of Arm: no timer.
Arm_NoTimer(i, n) ==
  /\ wire' = OnWire(wire, n, i, 0)
  /\ receives' = [receives EXCEPT ![i] = Append(@, "first")]
  /\ UNCHANGED timer

\* From the init frame on: it is sent, receive is called, the timer starts.
Arm(i, n) ==
  /\ wire' = OnWire(wire, n, i, 0)
  /\ receives' = [receives EXCEPT ![i] = Append(@, "first")]
  /\ timer' = [timer EXCEPT ![i] = "on"]

\* The endpoints that the health cache does not know as dead.
aliveOnly == Attempts \ deadUntil

\* The endpoints of S, in their order.
Listed(S) ==
  LET upTo[h \in 0 .. Hosts] ==
        IF h = 0 THEN <<>>
        ELSE IF h \in S THEN Append(upTo[h - 1], h) ELSE upTo[h - 1]
  IN  upTo[Hosts]

\* Those are tried, or all of them if there are none; tryConnect passes over any whose
\* host makes no URL, without a trace, so they are left out here.  The first attempt
\* runs on lwipQueue, where nothing comes between its steps; without one it is onClose.
connect ==
  /\ endpoints = <<>> /\ closes = 0
  /\ \E noURL \in SUBSET Attempts :
       endpoints' = Listed((IF aliveOnly = {} THEN Attempts ELSE aliveOnly) \ noURL)
  /\ IF endpoints' = <<>>
     THEN /\ closes' = 1
          /\ UNCHANGED <<task, starts, net, wire, receives, timer>>
     ELSE /\ task' = 1
          /\ starts' = [starts EXCEPT ![1] = @ + 1]
          /\ net' = [net EXCEPT ![1] = "connecting"]
          /\ Arm(1, net')
          /\ UNCHANGED closes
  /\ UNCHANGED <<deadUntil, claimed, delivered, inbox, down, moving, mover, firstRecv, got,
                 sends, closed>>

\* "task = nil" of advance() and of the timer.
ClearTask(i) ==
  /\ moving[i] = "claimed"
  /\ task' = 0
  /\ moving' = [moving EXCEPT ![i] = "cleared"]
  /\ UNCHANGED <<endpoints, deadUntil, net, wire, claimed, delivered, timer, receives, inbox,
                 down, mover, starts, firstRecv, got, closes, sends, closed>>

\* Mutant of tryConnect: it does not stop after the last endpoint.
tryConnect_PastEnd(i) ==
  /\ moving[i] = "cleared"
  /\ task' = i + 1
  /\ net' = [net EXCEPT ![i + 1] = "connecting"]
  /\ starts' = [starts EXCEPT ![i + 1] = @ + 1]
  /\ moving' = [moving EXCEPT ![i] = "set"]
  /\ UNCHANGED <<endpoints, deadUntil, wire, claimed, delivered, timer, receives, inbox, down,
                 mover, firstRecv, got, closes, sends, closed>>

\* tryConnect(index + 1), up to resume(): the next task, or onClose after the last.
tryConnect(i) ==
  /\ moving[i] = "cleared"
  /\ IF i = Len(endpoints)
     THEN /\ closes' = closes + 1
          /\ moving' = [moving EXCEPT ![i] = "no"]
          /\ UNCHANGED <<task, net, starts>>
     ELSE /\ task' = i + 1
          /\ net' = [net EXCEPT ![i + 1] = "connecting"]
          /\ starts' = [starts EXCEPT ![i + 1] = @ + 1]
          /\ moving' = [moving EXCEPT ![i] = "set"]
          /\ UNCHANGED closes
  /\ UNCHANGED <<endpoints, deadUntil, wire, claimed, delivered, timer, receives, inbox, down,
                 mover, firstRecv, got, sends, closed>>

ArmNext(i) ==
  /\ moving[i] = "set"
  /\ Arm(i + 1, net)
  /\ moving' = [moving EXCEPT ![i] = "no"]
  /\ UNCHANGED <<endpoints, deadUntil, task, net, claimed, delivered, inbox, down, mover,
                 starts, firstRecv, got, closes, sends, closed>>

-----------------------------------------------------------------------------
(* The delegate queue: one completion at a time *)

DelegateFree == \A i \in Attempts : mover[i] = "delegate" => moving[i] = "no"

\* The init has been sent; an error of that send is only logged.
InitSent(i) ==
  /\ DelegateFree
  /\ net[i] = "open"
  /\ \E k \in 1 .. Len(wire[i]) : wire[i][k] = 0
  /\ ~delivered[i]
  /\ delivered' = [delivered EXCEPT ![i] = TRUE]
  /\ UNCHANGED <<endpoints, deadUntil, task, net, wire, claimed, timer, receives, inbox, down,
                 moving, mover, starts, firstRecv, got, closes, sends, closed>>

Waiting(i, kind) == receives[i] # <<>> /\ Head(receives[i]) = kind

\* Mutant of receiveLoop: it asks no more.
receiveLoop_Stops(i) == receives' = [receives EXCEPT ![i] = Tail(@)]

\* receiveLoop asks whatever task the client holds now, after this call is done.
receiveLoop(i) ==
  LET rest == [receives EXCEPT ![i] = Tail(@)]
  IN  receives' = IF task = 0 THEN rest ELSE [rest EXCEPT ![task] = Append(@, "loop")]

\* Whoever claimed the attempt before, its data goes to the session.  A text
\* frame claims it too, but is no data.
ReceiveFirst(i, isData) ==
  /\ DelegateFree
  /\ Waiting(i, "first")
  /\ inbox[i] > 0
  /\ inbox' = [inbox EXCEPT ![i] = @ - 1]
  /\ claimed' = [claimed EXCEPT ![i] = TRUE]
  /\ IF isData
     THEN /\ firstRecv' = TRUE
          /\ deadUntil' = deadUntil \ {endpoints[i]}
          /\ got' = Append(got, i)
     ELSE UNCHANGED <<firstRecv, deadUntil, got>>
  /\ receiveLoop(i)
  /\ UNCHANGED <<endpoints, task, net, wire, delivered, timer, down, moving, mover, starts,
                 closes, sends, closed>>

\* The first receive fails: fail() after data, advance() before; both do nothing
\* when the attempt is claimed.
ReceiveFails(i) ==
  /\ DelegateFree
  /\ Waiting(i, "first")
  /\ net[i] = "broken"
  /\ receives' = [receives EXCEPT ![i] = Tail(@)]
  /\ claimed' = [claimed EXCEPT ![i] = TRUE]
  /\ IF firstRecv
     THEN /\ deadUntil' = deadUntil \ {endpoints[i]}
          /\ task' = IF claimed[i] THEN task ELSE 0
          /\ closes' = IF claimed[i] THEN closes ELSE closes + 1
          /\ UNCHANGED <<moving, mover>>
     ELSE /\ deadUntil' = deadUntil \cup {endpoints[i]}
          /\ IF claimed[i] THEN UNCHANGED <<moving, mover>>
             ELSE /\ moving' = [moving EXCEPT ![i] = "claimed"]
                  /\ mover' = [mover EXCEPT ![i] = "delegate"]
          /\ UNCHANGED <<task, closes>>
  /\ UNCHANGED <<endpoints, net, wire, delivered, timer, inbox, down, starts, firstRecv, got,
                 sends, closed>>

LoopReceives(i, isData) ==
  /\ DelegateFree
  /\ Waiting(i, "loop")
  /\ inbox[i] > 0
  /\ inbox' = [inbox EXCEPT ![i] = @ - 1]
  /\ firstRecv' = TRUE
  /\ got' = IF isData THEN Append(got, i) ELSE got
  /\ receiveLoop(i)
  /\ UNCHANGED <<endpoints, deadUntil, task, net, wire, claimed, delivered, timer, down, moving,
                 mover, starts, closes, sends, closed>>

LoopFails(i) ==
  /\ DelegateFree
  /\ Waiting(i, "loop")
  /\ net[i] = "broken"
  /\ receives' = [receives EXCEPT ![i] = Tail(@)]
  /\ closes' = closes + 1
  /\ UNCHANGED <<endpoints, deadUntil, task, net, wire, claimed, delivered, timer, inbox, down,
                 moving, mover, starts, firstRecv, got, sends, closed>>

-----------------------------------------------------------------------------
(* The timers: delivered is read first, and the claim comes after *)

TimerReads(i) ==
  /\ timer[i] = "on"
  /\ timer' = [timer EXCEPT ![i] = IF delivered[i] THEN "off" ELSE "passed"]
  /\ UNCHANGED <<endpoints, deadUntil, task, net, wire, claimed, delivered, receives, inbox,
                 down, moving, mover, starts, firstRecv, got, closes, sends, closed>>

\* Mutant of TimerClaims: the result of claim() is ignored.
TimerClaims_Always(i) ==
  /\ timer[i] = "passed"
  /\ timer' = [timer EXCEPT ![i] = "off"]
  /\ claimed' = [claimed EXCEPT ![i] = TRUE]
  /\ deadUntil' = deadUntil \cup {endpoints[i]}
  /\ net' = [net EXCEPT ![i] = "broken"]
  /\ moving' = [moving EXCEPT ![i] = "claimed"]
  /\ mover' = [mover EXCEPT ![i] = "timer"]
  /\ UNCHANGED <<endpoints, task, wire, delivered, receives, inbox, down, starts, firstRecv,
                 got, closes, sends, closed>>

TimerClaims(i) ==
  /\ timer[i] = "passed"
  /\ timer' = [timer EXCEPT ![i] = "off"]
  /\ IF claimed[i] THEN UNCHANGED <<claimed, deadUntil, net, moving, mover>>
     ELSE /\ claimed' = [claimed EXCEPT ![i] = TRUE]
          /\ deadUntil' = deadUntil \cup {endpoints[i]}
          /\ net' = [net EXCEPT ![i] = "broken"]
          /\ moving' = [moving EXCEPT ![i] = "claimed"]
          /\ mover' = [mover EXCEPT ![i] = "timer"]
  /\ UNCHANGED <<endpoints, task, wire, delivered, receives, inbox, down, starts, firstRecv,
                 got, closes, sends, closed>>

-----------------------------------------------------------------------------
(* The session, on lwipQueue; it drops the client when it closes it *)

\* Mutant of send: frames are dropped until the handshake is over, as they once were.
send_IfConnected ==
  /\ endpoints # <<>>
  /\ ~closed
  /\ sends < MaxSends
  /\ sends' = sends + 1
  /\ wire' = IF task = 0 THEN wire
             ELSE IF net[task] # "open" THEN wire ELSE OnWire(wire, net, task, sends')
  /\ UNCHANGED <<endpoints, deadUntil, task, net, claimed, delivered, timer, receives, inbox,
                 down, moving, mover, starts, firstRecv, got, closes, closed>>

send ==
  /\ endpoints # <<>>
  /\ ~closed
  /\ sends < MaxSends
  /\ sends' = sends + 1
  /\ wire' = IF task = 0 THEN wire ELSE OnWire(wire, net, task, sends')
  /\ UNCHANGED <<endpoints, deadUntil, task, net, claimed, delivered, timer, receives, inbox,
                 down, moving, mover, starts, firstRecv, got, closes, closed>>

close ==
  /\ endpoints # <<>>
  /\ ~closed
  /\ closed' = TRUE
  /\ net' = IF task = 0 THEN net ELSE [net EXCEPT ![task] = "broken"]
  /\ task' = 0
  /\ UNCHANGED <<endpoints, deadUntil, wire, claimed, delivered, timer, receives, inbox, down,
                 moving, mover, starts, firstRecv, got, closes, sends>>

-----------------------------------------------------------------------------
(* The network and the gateways *)

NetStep ==
  UNCHANGED <<endpoints, deadUntil, task, wire, claimed, delivered, timer, receives, moving,
              mover, starts, firstRecv, got, closes, sends, closed>>

Opens(i) ==
  /\ net[i] = "connecting"
  /\ net' = [net EXCEPT ![i] = "open"]
  /\ UNCHANGED <<inbox, down>>
  /\ NetStep

\* Refused, reset or closed by the other side.
Breaks(i) ==
  /\ net[i] \in {"connecting", "open"}
  /\ net' = [net EXCEPT ![i] = "broken"]
  /\ UNCHANGED <<inbox, down>>
  /\ NetStep

\* A gateway answers once it has the init.
Answers(i) ==
  /\ net[i] = "open"
  /\ \E k \in 1 .. Len(wire[i]) : wire[i][k] = 0
  /\ down[i] < MaxDown
  /\ down' = [down EXCEPT ![i] = @ + 1]
  /\ inbox' = [inbox EXCEPT ![i] = @ + 1]
  /\ UNCHANGED net
  /\ NetStep

-----------------------------------------------------------------------------
\* Other sessions may have left any endpoints in the health cache.
Init ==
  /\ endpoints = <<>>
  /\ deadUntil \in SUBSET Attempts
  /\ task = 0
  /\ net = [i \in Attempts |-> "none"]
  /\ wire = [i \in Attempts |-> <<>>]
  /\ claimed = [i \in Attempts |-> FALSE]
  /\ delivered = [i \in Attempts |-> FALSE]
  /\ timer = [i \in Attempts |-> "off"]
  /\ receives = [i \in Attempts |-> <<>>]
  /\ inbox = [i \in Attempts |-> 0]
  /\ down = [i \in Attempts |-> 0]
  /\ moving = [i \in Attempts |-> "no"]
  /\ mover = [i \in Attempts |-> "timer"]
  /\ starts = [i \in Attempts |-> 0]
  /\ firstRecv = FALSE
  /\ got = <<>>
  /\ closes = 0
  /\ sends = 0
  /\ closed = FALSE

Callback(i) ==
  \/ InitSent(i) \/ ReceiveFails(i) \/ LoopFails(i)
  \/ \E isData \in BOOLEAN : ReceiveFirst(i, isData) \/ LoopReceives(i, isData)
Timer(i) == TimerReads(i) \/ TimerClaims(i)
Move(i) == ClearTask(i) \/ tryConnect(i) \/ ArmNext(i)

Next ==
  \/ connect \/ send \/ close
  \/ \E i \in Attempts :
       \/ Callback(i) \/ Timer(i) \/ Move(i)
       \/ Opens(i) \/ Breaks(i) \/ Answers(i)

Spec == Init /\ [][Next]_vars

\* URLSession completes what it can, timers fire and threads go on; neither the
\* network nor a gateway owes anything.
Fairness == \A i \in Attempts : WF_vars(Callback(i)) /\ WF_vars(Timer(i)) /\ WF_vars(Move(i))

FairSpec == Spec /\ Fairness

-----------------------------------------------------------------------------
(* Safety *)

\* The cascade does not fork: failed receive, timer and late data race for an
\* attempt, and TryState.claim lets one of them go on to the next, once.
NoFork == \A i \in Attempts : starts[i] <= 1

\* On the first endpoint nothing is lost: while it is the current one and stands,
\* it has been given the init and then every frame of send(), even those sent
\* before the handshake was over.
UpstreamComplete ==
  task = 1 /\ net[1] # "broken" => wire[1] = [k \in 1 .. sends + 1 |-> k - 1]

\* WSClient.swift:157: failover is sound because positions in the cipher stream
\* agree from the init on, so the first frame after it is the first of the session.
InSyncFromInit == \A i \in Attempts : Len(wire[i]) > 1 /\ wire[i][1] = 0 => wire[i][2] = 1

-----------------------------------------------------------------------------
(* Liveness *)

\* An attempt that hangs or fails is given up: the next one starts, or the session
\* is told, unless the gateway has the init and the connection stands.
CascadeSettles ==
  \A i \in Attempts :
    starts[i] > 0 ~> \/ delivered[i] /\ net[i] = "open"
                     \/ i < Len(endpoints) /\ starts[i + 1] > 0
                     \/ firstRecv \/ closes > 0 \/ closed

NoneStands == \A i \in Attempts : net[i] \in {"none", "broken"}

\* After the first data, the end of every connection reaches the session, though
\* receiveLoop listens to whatever "task" is and a timer may have replaced it.
CloseReported == firstRecv /\ NoneStands ~> closes > 0 \/ closed \/ ~NoneStands
============================================================================
