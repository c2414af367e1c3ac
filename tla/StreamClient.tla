---------------------------- MODULE StreamClient ----------------------------
(***************************************************************************)
(* Tunnel/WSClient.swift with a worker configured: connectPipe (a          *)
(* WebSocket to the user's worker, module PipeWorker) or connectRelay (raw *)
(* TCP to a relay, "host:port"), as startPipe of TunnelSession.swift       *)
(* chooses.  The threads are lwipQueue (send, close), the callbacks of the *)
(* connection, one at a time, and a timer on a global queue; "task",       *)
(* "relayConn", "relayReady", "relayPending" and "finished" are shared by  *)
(* them without a lock.                                                    *)
(*                                                                         *)
(* The program of the relay is not in the repository: it takes the first   *)
(* line and joins the connection to the DC.                                *)
(***************************************************************************)
EXTENDS PipeWorker

VARIABLES
  mode,         \* "none" before startPipe, then "pipe" or "relay"
  held,         \* self.task or self.relayConn is not nil
  relayReady, relayPending, \* the fields
  handler,      \* how far the .ready handler is
  head,         \* its local variable
  sending,      \* what a send() in progress is about to do
  raced,        \* a send() and the .ready handler were under way together
  timer,        \* the 7 s or 5 s timer: "passed" its guard, "cancelled" the connection, ...
  finished,     \* of finishOnce
  receiving,    \* a receive call is outstanding
  pingOK, firstRecv, \* the flags
  got,          \* frames that went to onMessage
  closeCode,    \* code of the close frame the receive failed with
  closes,       \* calls of onClose
  sends,        \* calls of send()
  closed        \* close() was called

client == <<mode, held, relayReady, relayPending, handler, head, sending, raced, timer, finished,
            receiving, pingOK, firstRecv, got, closeCode, closes, sends, closed>>
vars == <<wire, worker, client>>

TypeOK ==
  /\ WorkerTypeOK
  /\ mode \in {"none", "pipe", "relay"}
  /\ relayPending \in Seq(Frames)
  /\ handler \in {"no", "ready", "head", "cleared", "done"}
  /\ head \in Seq(0 .. MaxSends)
  /\ sending \in {"no", "direct", "append"}
  /\ timer \in {"off", "on", "passed", "cancelled", "finishing"}
  /\ \A flag \in {held, relayReady, raced, finished, receiving, pingOK, firstRecv, closed} :
       flag \in BOOLEAN
  /\ got \in Seq(1 .. MaxDown)
  /\ closeCode \in {"none", "1000", "1002", "1011"}
  /\ closes \in 0 .. 2
  /\ sends \in 0 .. MaxSends

Init ==
  /\ WorkerInit
  /\ mode = "none" /\ handler = "no" /\ sending = "no" /\ timer = "off" /\ closeCode = "none"
  /\ relayPending = <<>> /\ head = <<>> /\ got = <<>>
  /\ held = FALSE /\ relayReady = FALSE /\ raced = FALSE /\ finished = FALSE
  /\ receiving = FALSE /\ pingOK = FALSE /\ firstRecv = FALSE /\ closed = FALSE
  /\ closes = 0 /\ sends = 0

-----------------------------------------------------------------------------
(* lwipQueue *)

\* A bad address is reported from inside the call; there is nothing to send on then.
BadAddress == closes' = closes + 1 /\ UNCHANGED <<held, link, timer, receiving>>

Connects ==
  held' = TRUE /\ link' = "connecting" /\ timer' = "on" /\ UNCHANGED closes

\* receiveLoop begins at once.
connectPipe == BadAddress \/ (Connects /\ receiving' = TRUE)

\* The first receive waits for .ready.
connectRelay == BadAddress \/ (Connects /\ UNCHANGED receiving)

startPipe ==
  /\ mode = "none"
  /\ \/ mode' = "pipe" /\ connectPipe
     \/ mode' = "relay" /\ connectRelay
  /\ UNCHANGED <<up, down, server, worker, relayReady, relayPending, handler, head, sending, raced,
                 finished, pingOK, firstRecv, got, closeCode, sends, closed>>

\* Frames given to a connection that is cancelled or has failed go nowhere.
OnWire(s) == up' = IF link = "broken" THEN up ELSE up \o s

HandlerRuns == handler \in {"ready", "head", "cleared"}

\* send() reads relayConn and relayReady ...
send ==
  /\ mode # "none" /\ ~closed /\ sending = "no" /\ sends < MaxSends
  /\ sends' = sends + 1
  /\ IF mode = "pipe"
     THEN /\ IF held THEN OnWire(<<sends + 1>>) ELSE UNCHANGED up
          /\ UNCHANGED <<sending, raced>>
     ELSE /\ sending' = IF ~held THEN "no" ELSE IF relayReady THEN "direct" ELSE "append"
          /\ raced' = (raced \/ (held /\ HandlerRuns))
          /\ UNCHANGED up
  /\ UNCHANGED <<link, down, server, worker, mode, held, relayReady, relayPending, handler, head,
                 timer, finished, receiving, pingOK, firstRecv, got, closeCode, closes, closed>>

\* Mutant of send_acts: what was waiting is replaced.
send_acts_Replaces ==
  /\ sending # "no"
  /\ sending' = "no"
  /\ IF sending = "direct" THEN OnWire(<<sends>>) /\ UNCHANGED relayPending
     ELSE relayPending' = <<sends>> /\ UNCHANGED up
  /\ UNCHANGED <<link, down, server, worker, mode, held, relayReady, handler, head, raced, timer,
                 finished, receiving, pingOK, firstRecv, got, closeCode, closes, sends, closed>>

\* ... and then acts on what it has read.
send_acts ==
  /\ sending # "no"
  /\ sending' = "no"
  /\ IF sending = "direct" THEN OnWire(<<sends>>) /\ UNCHANGED relayPending
     ELSE relayPending' = Append(relayPending, sends) /\ UNCHANGED up
  /\ UNCHANGED <<link, down, server, worker, mode, held, relayReady, handler, head, raced, timer,
                 finished, receiving, pingOK, firstRecv, got, closeCode, closes, sends, closed>>

close ==
  /\ mode # "none" /\ ~closed /\ sending = "no"
  /\ closed' = TRUE
  /\ held' = FALSE
  /\ link' = IF held THEN "broken" ELSE link
  /\ UNCHANGED <<up, down, server, worker, mode, relayReady, relayPending, handler, head, sending,
                 raced, timer, finished, receiving, pingOK, firstRecv, got, closeCode, closes,
                 sends>>

-----------------------------------------------------------------------------
(* Callbacks of the connection *)

\* .ready: the flag comes first ...
ready_sets ==
  /\ mode = "relay" /\ link = "open" /\ handler = "no"
  /\ relayReady' = TRUE
  /\ handler' = "ready"
  /\ raced' = (raced \/ sending # "no")
  /\ UNCHANGED <<wire, worker, mode, held, relayPending, head, sending, timer, finished,
                 receiving, pingOK, firstRecv, got, closeCode, closes, sends, closed>>

\* ... then what was waiting is copied behind the first line ...
ready_copies ==
  /\ handler = "ready"
  /\ head' = <<0>> \o relayPending
  /\ handler' = "head"
  /\ UNCHANGED <<wire, worker, mode, held, relayReady, relayPending, sending, raced, timer,
                 finished, receiving, pingOK, firstRecv, got, closeCode, closes, sends, closed>>

ready_clears ==
  /\ handler = "head"
  /\ relayPending' = <<>>
  /\ handler' = "cleared"
  /\ UNCHANGED <<wire, worker, mode, held, relayReady, head, sending, raced, timer, finished,
                 receiving, pingOK, firstRecv, got, closeCode, closes, sends, closed>>

\* ... and sent, and the first receive is asked for.
ready_sends ==
  /\ handler = "cleared"
  /\ handler' = "done"
  /\ OnWire(head)
  /\ receiving' = held
  /\ UNCHANGED <<link, down, server, worker, mode, held, relayReady, relayPending, head, sending,
                 raced, timer, finished, pingOK, firstRecv, got, closeCode, closes, sends, closed>>

\* A receive succeeds: receiveLoop and relayReceive ask again if the client still
\* has its connection.
receives ==
  /\ receiving /\ link = "open" /\ down # <<>>
  /\ down' = Tail(down)
  /\ firstRecv' = TRUE
  /\ got' = Append(got, Head(down))
  /\ receiving' = held
  /\ UNCHANGED <<link, up, server, worker, mode, held, relayReady, relayPending, handler, head,
                 sending, raced, timer, finished, pingOK, closeCode, closes, sends, closed>>

\* The far end has closed and everything before that has been received, or the
\* connection is broken or cancelled.
Ended == link = "broken" \/ (server \notin {"none", "open"} /\ down = <<>> /\ link = "open")

\* Mutant of receive_fails: the end is only logged.
receive_fails_Silent ==
  /\ mode = "pipe" /\ receiving /\ Ended
  /\ receiving' = FALSE
  /\ link' = "broken"
  /\ UNCHANGED <<up, down, server, worker, mode, held, relayReady, relayPending, handler, head,
                 sending, raced, timer, finished, pingOK, firstRecv, got, closeCode, closes, sends,
                 closed>>

\* The receive of a pipe fails; "task" stays as it is.
receive_fails ==
  /\ mode = "pipe" /\ receiving /\ Ended
  /\ receiving' = FALSE
  /\ link' = "broken"
  /\ closeCode' = IF link = "open" THEN server ELSE closeCode
  /\ closes' = closes + 1
  /\ UNCHANGED <<up, down, server, worker, mode, held, relayReady, relayPending, handler, head,
                 sending, raced, timer, finished, pingOK, firstRecv, got, sends, closed>>

\* .failed, .cancelled, or a receive of the relay that ends: all through finishOnce.
relay_ends ==
  /\ mode = "relay" /\ ~HandlerRuns
  /\ link = "broken" \/ (receiving /\ Ended)
  /\ ~finished
  /\ finished' = TRUE
  /\ held' = FALSE /\ receiving' = FALSE
  /\ closes' = closes + 1
  /\ UNCHANGED <<wire, worker, mode, relayReady, relayPending, handler, head, sending, raced, timer,
                 pingOK, firstRecv, got, closeCode, sends, closed>>

\* The pong comes from the front of the worker itself.
pong ==
  /\ mode = "pipe" /\ link = "open" /\ ~pingOK
  /\ pingOK' = TRUE
  /\ UNCHANGED <<wire, worker, mode, held, relayReady, relayPending, handler, head, sending, raced,
                 timer, finished, receiving, firstRecv, got, closeCode, closes, sends, closed>>

-----------------------------------------------------------------------------
(* The timer *)

\* The guard: for a pipe neither data nor a pong, for a relay not ready.
timer_fires ==
  /\ timer = "on"
  /\ timer' = IF held /\ (IF mode = "pipe" THEN ~firstRecv /\ ~pingOK ELSE ~relayReady)
              THEN "passed" ELSE "off"
  /\ UNCHANGED <<wire, worker, mode, held, relayReady, relayPending, handler, head, sending, raced,
                 finished, receiving, pingOK, firstRecv, got, closeCode, closes, sends, closed>>

\* cancel: of "task", which close() may have emptied meanwhile, or of the relay's
\* own connection, whoever holds it.  The timer of a pipe then clears "task" and
\* calls onClose.
timer_cancels ==
  /\ timer = "passed"
  /\ IF mode = "pipe"
     THEN /\ timer' = "off"
          /\ link' = IF held THEN "broken" ELSE link
          /\ held' = FALSE
          /\ closes' = closes + 1
     ELSE /\ timer' = "cancelled"
          /\ link' = "broken"
          /\ UNCHANGED <<held, closes>>
  /\ UNCHANGED <<up, down, server, worker, mode, relayReady, relayPending, handler, head, sending,
                 raced, finished, receiving, pingOK, firstRecv, got, closeCode, sends, closed>>

\* finishOnce on the timer's thread: "finished" is read, and written a moment later.
finish_reads ==
  /\ timer = "cancelled"
  /\ timer' = IF finished THEN "off" ELSE "finishing"
  /\ UNCHANGED <<wire, worker, mode, held, relayReady, relayPending, handler, head, sending, raced,
                 finished, receiving, pingOK, firstRecv, got, closeCode, closes, sends, closed>>

finish_writes ==
  /\ timer = "finishing"
  /\ timer' = "off"
  /\ finished' = TRUE
  /\ held' = FALSE
  /\ closes' = closes + 1
  /\ UNCHANGED <<wire, worker, mode, relayReady, relayPending, handler, head, sending, raced,
                 receiving, pingOK, firstRecv, got, closeCode, sends, closed>>

-----------------------------------------------------------------------------
(* The relay and the network *)

RelayAccepts ==
  /\ mode = "relay" /\ link = "connecting"
  /\ link' = "open" /\ server' = "open"
  /\ UNCHANGED <<up, down, worker, client>>

\* The relay needs its first line first.
RelaySends ==
  /\ mode = "relay" /\ server = "open"
  /\ up # <<>> /\ Head(up) = 0
  /\ dcSent < MaxDown
  /\ dcSent' = dcSent + 1
  /\ down' = Append(down, dcSent + 1)
  /\ UNCHANGED <<link, up, server, sock, failTimer, blobs, converting, writer, flushing, reading,
                 dcGot, dcIn, dcEnd, client>>

RelayEnds ==
  /\ mode = "relay" /\ server = "open"
  /\ server' = "1000"
  /\ UNCHANGED <<link, up, down, worker, client>>

Breaks ==
  /\ link \in {"connecting", "open"}
  /\ link' = "broken"
  /\ UNCHANGED <<up, down, server, worker, client>>

-----------------------------------------------------------------------------
\* A step of the worker: there is one only for a pipe.
Worker(A) == mode = "pipe" /\ A /\ UNCHANGED client

Callback ==
  \/ ready_sets \/ ready_copies \/ ready_clears \/ ready_sends
  \/ receives \/ receive_fails \/ relay_ends
Timer == timer_fires \/ timer_cancels \/ finish_reads \/ finish_writes

Next ==
  \/ startPipe \/ send \/ send_acts \/ close \/ pong
  \/ Callback \/ Timer
  \/ Worker(fetch) \/ Worker(fetch_refuses) \/ Worker(WorkerRuns) \/ Worker(DcActs)
  \/ RelayAccepts \/ RelaySends \/ RelayEnds \/ Breaks

Spec == Init /\ [][Next]_vars

\* Threads go on, timers fire, connections report what happened to them, and the
\* runtime of the worker runs its handlers; the DC takes what it is sent, or
\* ends.  The network, the relay and the user owe nothing.
Fairness ==
  /\ WF_vars(Callback) /\ WF_vars(Timer) /\ WF_vars(send_acts)
  /\ WF_vars(Worker(WorkerRuns)) /\ WF_vars(Worker(writer_drains))

FairSpec == Spec /\ Fairness

-----------------------------------------------------------------------------
(* Safety *)

Sent == [n \in 1 .. sends |-> n]

\* Pipe: what the DC has is a prefix of what the session sent, and the rest is on
\* its way in the same order, however slowly the DC connection opens.  If the
\* runtime hands the messages over as Blobs, only this is left of it: none is
\* lost and none comes twice.
PipeUpstream ==
  mode = "pipe" /\ held /\ link = "open" /\ server = "open" /\ sock \in {"connecting", "open"} =>
    LET all == dcGot \o writer \o converting \o up
    IN  IF blobs THEN ToSet(all) = 1 .. sends /\ Len(all) = sends ELSE all = Sent

\* Relay: unless a send() overlaps the .ready handler, the relay gets its first
\* line, then every frame of the session in order; before that all of them wait.
RelayUpstream ==
  mode = "relay" /\ held /\ link # "broken" /\ sending = "no" /\ ~raced =>
    CASE handler = "no" -> relayPending = Sent /\ up = <<>>
      [] handler = "done" -> relayPending = <<>> /\ up = <<0>> \o Sent
      [] OTHER -> up = <<>>

\* A clean close after the DC has ended its stream in order means that the
\* session has got all of it, although reads, writes and both closes race.
CleanCloseComplete ==
  closeCode = "1000" /\ dcEnd = "fin" => got = [n \in 1 .. dcSent |-> n]

-----------------------------------------------------------------------------
(* Liveness *)

\* WSClient.swift:267: a connection that does not get anywhere is reported: the
\* WebSocket or the relay never opens (the timer of the client), or the DC does
\* not answer the worker (the timer of the worker).
HangReported ==
  mode # "none" ~>
    \/ closes > 0 \/ closed
    \/ mode = "pipe" /\ link = "open" /\ sock = "open"
    \/ mode = "relay" /\ relayReady

\* The end of the DC or of the relay reaches the session.
EndReported ==
  dcEnd # "no" \/ (mode = "relay" /\ server = "1000" /\ handler # "no") ~> closes > 0 \/ closed

\* However the WebSocket ends, the worker lets go of the DC.
DcReleased == link = "broken" /\ sock # "none" ~> sock = "closed"
=============================================================================
