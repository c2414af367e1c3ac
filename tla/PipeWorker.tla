----------------------------- MODULE PipeWorker -----------------------------
(***************************************************************************)
(* worker-pipe.js: one call of fetch, which joins the WebSocket of a       *)
(* client to a TCP connection to a DC.  JavaScript runs one handler at a   *)
(* time, but every "await" lets another one run: messages, the socket, the *)
(* timer, the close event and the read loop interleave freely.             *)
(*                                                                         *)
(* link, up, server and down are the connection to the client, which       *)
(* module StreamClient shares.  A frame is a number: the n-th the client   *)
(* sent, or the n-th the DC sent.  worker-pipe-p80.js is the same program  *)
(* with another DC port.                                                   *)
(***************************************************************************)
EXTENDS Integers, Sequences, SequencesExt

CONSTANTS
  MaxSends, \* frames the session sends
  MaxDown   \* frames the DC, or the relay, sends

ASSUME StreamAssumption == MaxSends \in Nat /\ MaxDown \in Nat

VARIABLES
  link,       \* connection between client and far end, as the client sees it
  up, down,   \* frames on their way on it; 0 is the first line of a relay
  server,     \* the far end of it: "none", "open", or the code it closed with
  sock,       \* TCP connection to the DC; "ended" by the DC, "closed" by the worker
  failTimer,  \* the 4 s timer runs
  blobs,      \* messages come as Blobs, not as ArrayBuffers
  converting, \* messages whose handler awaits toBytes
  writer,     \* frames tcpWriter has taken
  flushing,   \* tcpWriter.close has been called
  reading,    \* the read loop runs
  dcGot,      \* frames the DC has received
  dcIn,       \* frames of the DC not yet read
  dcSent,     \* how many it has sent
  dcEnd       \* how it ended: "no", "fin", "rst"

wire == <<link, up, down, server>>
worker == <<sock, failTimer, blobs, converting, writer, flushing, reading, dcGot, dcIn, dcSent,
            dcEnd>>

Frames == 1 .. MaxSends

WorkerTypeOK ==
  /\ link \in {"none", "connecting", "open", "broken"}
  /\ up \in Seq(0 .. MaxSends)
  /\ down \in Seq(1 .. MaxDown)
  /\ server \in {"none", "open", "1000", "1002", "1011"}
  /\ sock \in {"none", "connecting", "open", "failed", "ended", "closed"}
  /\ failTimer \in BOOLEAN /\ blobs \in BOOLEAN /\ flushing \in BOOLEAN /\ reading \in BOOLEAN
  /\ converting \in Seq(Frames) /\ writer \in Seq(Frames) /\ dcGot \in Seq(Frames)
  /\ dcIn \in Seq(1 .. MaxDown)
  /\ dcSent \in 0 .. MaxDown
  /\ dcEnd \in {"no", "fin", "rst"}

WorkerInit ==
  /\ link = "none" /\ server = "none" /\ sock = "none" /\ dcEnd = "no"
  /\ up = <<>> /\ down = <<>> /\ converting = <<>> /\ writer = <<>> /\ dcGot = <<>> /\ dcIn = <<>>
  /\ failTimer = FALSE /\ flushing = FALSE /\ reading = FALSE
  /\ blobs \in BOOLEAN
  /\ dcSent = 0

\* server.close: a second one throws and is caught.
CloseWith(code) == server' = IF server = "open" THEN code ELSE server

-----------------------------------------------------------------------------
\* Mutant of fetch: no timer for the connection to the DC.
fetch_NoTimer ==
  /\ link = "connecting"
  /\ link' = "open" /\ server' = "open" /\ sock' = "connecting"
  /\ reading' = TRUE
  /\ UNCHANGED <<up, down, failTimer, blobs, converting, writer, flushing, dcGot, dcIn, dcSent,
                 dcEnd>>

fetch ==
  /\ link = "connecting"
  /\ link' = "open" /\ server' = "open" /\ sock' = "connecting"
  /\ failTimer' = TRUE /\ reading' = TRUE
  /\ UNCHANGED <<up, down, blobs, converting, writer, flushing, dcGot, dcIn, dcSent, dcEnd>>

\* 426, 404, or the front never reaches the worker.
fetch_refuses ==
  /\ link = "connecting"
  /\ link' = "broken"
  /\ UNCHANGED <<up, down, server, worker>>

failTimer_fires ==
  /\ failTimer
  /\ failTimer' = FALSE
  /\ CloseWith("1002")
  /\ sock' = "closed"
  /\ UNCHANGED <<link, up, down, blobs, converting, writer, flushing, reading, dcGot, dcIn,
                 dcSent, dcEnd>>

opened_resolves ==
  /\ sock = "connecting"
  /\ sock' = "open"
  /\ failTimer' = FALSE
  /\ UNCHANGED <<wire, blobs, converting, writer, flushing, reading, dcGot, dcIn, dcSent, dcEnd>>

\* The DC refuses; "opened" and the pending read learn of it in either order.
DcRefuses ==
  /\ sock = "connecting"
  /\ sock' = "failed"
  /\ UNCHANGED <<wire, failTimer, blobs, converting, writer, flushing, reading, dcGot, dcIn,
                 dcSent, dcEnd>>

opened_rejects ==
  /\ failTimer
  /\ sock \in {"failed", "closed"}
  /\ failTimer' = FALSE
  /\ CloseWith("1002")
  /\ sock' = "closed"
  /\ UNCHANGED <<link, up, down, blobs, converting, writer, flushing, reading, dcGot, dcIn,
                 dcSent, dcEnd>>

-----------------------------------------------------------------------------
(* Upstream *)

\* tcpWriter.write: the stream keeps the order of the calls; a closing one refuses, and the
\* handler closes the WebSocket.
write(n) ==
  IF flushing THEN CloseWith("1011") /\ UNCHANGED writer
  ELSE writer' = Append(writer, n) /\ UNCHANGED server

\* A Blob takes a turn of its own to become bytes, an ArrayBuffer does not.
onMessage ==
  /\ server = "open"
  /\ up # <<>>
  /\ up' = Tail(up)
  /\ IF blobs THEN converting' = Append(converting, Head(up)) /\ UNCHANGED <<server, writer>>
     ELSE write(Head(up)) /\ UNCHANGED converting
  /\ UNCHANGED <<link, down, sock, failTimer, blobs, flushing, reading, dcGot, dcIn,
                 dcSent, dcEnd>>

\* Mutant of toBytes_done: the message stays, and is written again.
toBytes_done_Again(k) ==
  /\ k \in DOMAIN converting
  /\ write(converting[k])
  /\ UNCHANGED <<link, up, down, sock, failTimer, blobs, converting, flushing, reading, dcGot,
                 dcIn, dcSent, dcEnd>>

\* Any of the conversions may end first.
toBytes_done(k) ==
  /\ k \in DOMAIN converting
  /\ converting' = RemoveAt(converting, k)
  /\ write(converting[k])
  /\ UNCHANGED <<link, up, down, sock, failTimer, blobs, flushing, reading, dcGot, dcIn, dcSent,
                 dcEnd>>

writer_drains ==
  /\ writer # <<>>
  /\ sock = "open"
  /\ writer' = Tail(writer)
  /\ dcGot' = Append(dcGot, Head(writer))
  /\ UNCHANGED <<wire, sock, failTimer, blobs, converting, flushing, reading, dcIn, dcSent, dcEnd>>

\* The pending writes are rejected; every handler closes the WebSocket.
write_fails ==
  /\ writer # <<>>
  /\ sock \in {"failed", "ended", "closed"}
  /\ writer' = <<>>
  /\ CloseWith("1011")
  /\ UNCHANGED <<link, up, down, sock, failTimer, blobs, converting, flushing, reading, dcGot,
                 dcIn, dcSent, dcEnd>>

\* Mutant of onClose: the socket to the DC is left alone.
onClose_KeepsSocket ==
  /\ link = "broken" /\ server # "none" /\ ~flushing
  /\ flushing' = FALSE
  /\ UNCHANGED <<wire, sock, failTimer, blobs, converting, writer, reading, dcGot, dcIn, dcSent,
                 dcEnd>>

\* The close event, whichever side closed: tcpWriter.close waits for what it has taken.
onClose ==
  /\ link = "broken" /\ server # "none" /\ ~flushing
  /\ flushing' = TRUE
  /\ UNCHANGED <<wire, sock, failTimer, blobs, converting, writer, reading, dcGot, dcIn, dcSent,
                 dcEnd>>

onClose_done ==
  /\ flushing
  /\ writer = <<>>
  /\ sock # "closed"
  /\ sock' = "closed"
  /\ UNCHANGED <<wire, failTimer, blobs, converting, writer, flushing, reading, dcGot, dcIn,
                 dcSent, dcEnd>>

-----------------------------------------------------------------------------
(* Downstream *)

DcSends ==
  /\ sock = "open"
  /\ dcSent < MaxDown
  /\ dcSent' = dcSent + 1
  /\ dcIn' = Append(dcIn, dcSent + 1)
  /\ UNCHANGED <<wire, sock, failTimer, blobs, converting, writer, flushing, reading, dcGot, dcEnd>>

\* A FIN after its data, or a RST that takes the unread data with it.
DcEnds(how) ==
  /\ sock = "open"
  /\ sock' = "ended"
  /\ dcEnd' = how
  /\ dcIn' = IF how = "fin" THEN dcIn ELSE <<>>
  /\ UNCHANGED <<wire, failTimer, blobs, converting, writer, flushing, reading, dcGot, dcSent>>

\* server.send on a closed WebSocket throws, which ends the loop.
readLoop ==
  /\ reading
  /\ sock \in {"open", "ended"}
  /\ dcIn # <<>>
  /\ IF server = "open"
     THEN /\ dcIn' = Tail(dcIn)
          /\ down' = Append(down, Head(dcIn))
          /\ UNCHANGED <<reading, sock>>
     ELSE /\ reading' = FALSE
          /\ sock' = "closed"
          /\ UNCHANGED <<dcIn, down>>
  /\ UNCHANGED <<link, up, server, failTimer, blobs, converting, writer, flushing, dcGot, dcSent,
                 dcEnd>>

\* Mutant of readLoop_ends: it ends as soon as the DC has.
readLoop_ends_AtOnce ==
  /\ reading
  /\ sock \in {"failed", "closed", "ended"}
  /\ reading' = FALSE
  /\ CloseWith("1000")
  /\ sock' = "closed"
  /\ UNCHANGED <<link, up, down, failTimer, blobs, converting, writer, flushing, dcGot, dcIn,
                 dcSent, dcEnd>>

\* done, or an exception: both end in "finally".
readLoop_ends ==
  /\ reading
  /\ \/ sock \in {"failed", "closed"}
     \/ sock = "ended" /\ dcIn = <<>>
  /\ reading' = FALSE
  /\ CloseWith("1000")
  /\ sock' = "closed"
  /\ UNCHANGED <<link, up, down, failTimer, blobs, converting, writer, flushing, dcGot, dcIn,
                 dcSent, dcEnd>>

\* What the runtime of the worker owes: it delivers events and settles promises.
WorkerRuns ==
  \/ failTimer_fires \/ opened_rejects
  \/ onMessage \/ (\E k \in 1 .. MaxSends : toBytes_done(k)) \/ write_fails
  \/ onClose \/ onClose_done
  \/ readLoop \/ readLoop_ends

\* What depends on the DC and on the way to it.
DcActs ==
  \/ opened_resolves \/ DcRefuses \/ writer_drains
  \/ DcSends \/ (\E how \in {"fin", "rst"} : DcEnds(how))
=============================================================================
