------------------------------ MODULE EventLog ------------------------------
(***************************************************************************)
(* Tunnel/EventLog.swift and the calls PacketTunnelProvider.swift makes to *)
(* it: the journal of the extension, kept in memory, written to a file now *)
(* and then, and shown by the next run as the journal of the one before.   *)
(* The extension may be killed between any two steps (jetsam); it may also *)
(* outlive stopTunnel and be started again, with its statics as they were. *)
(*                                                                         *)
(* Every call of EventLog takes its lock, and between two of them any      *)
(* other thread may call.  A line of the journal is the run in which it    *)
(* was appended (the n-th tunnel that has come up) and its number there.   *)
(* A write that the disk refuses (try?) is left out.                       *)
(***************************************************************************)
EXTENDS Integers, Sequences, FiniteSets, SequencesExt

CONSTANTS
  MaxRuns,   \* tunnels that come up
  MaxEvents, \* lines of a run after which sessions and timer append no more
  Keep,      \* entries kept (200)
  FlushEvery \* entries between two flushes (20)

ASSUME LogAssumption ==
  /\ MaxRuns \in Nat /\ MaxEvents \in Nat
  /\ Keep \in Nat \ {0} /\ FlushEvery \in Nat \ {0}

VARIABLES
  process,   \* the extension's process exists
  live,      \* a tunnel has come up in it: its sessions may still call
  tunnel,    \* "off", "starting", the line that comes next ("worker", "fronts",
             \* "start"), "up", "stopping", "stopped"
  run,       \* tunnels that have come up so far
  entries, prevRun, unflushed, \* statics of EventLog; prevRun is empty for ""
  file,      \* journal.log
  count,     \* lines of this run so far
  reason,    \* tunnel_stop of a tunnel that is being stopped, <<>> for none
  stopped, written \* tunnel_stop of the runs stopped in order, runs that have written the file

log == <<process, live, tunnel, run, entries, prevRun, unflushed, file, count, reason, stopped, written>>

Line == (1 .. MaxRuns) \X Nat

LogTypeOK ==
  /\ process \in BOOLEAN /\ live \in BOOLEAN
  /\ tunnel \in {"off", "starting", "worker", "fronts", "start", "up", "stopping", "stopped"}
  /\ run \in 0 .. MaxRuns
  /\ entries \in Seq(Line) /\ Len(entries) <= Keep
  /\ prevRun \in Seq(Line) /\ file \in Seq(Line)
  /\ unflushed \in 0 .. FlushEvery - 1
  /\ count \in Nat
  /\ reason \in Line \cup {<<>>}
  /\ stopped \subseteq Line /\ written \subseteq 1 .. MaxRuns

LogInit ==
  /\ process = FALSE /\ live = FALSE /\ tunnel = "off"
  /\ run = 0 /\ unflushed = 0 /\ count = 0
  /\ entries = <<>> /\ prevRun = <<>> /\ file = <<>>
  /\ reason = <<>> /\ stopped = {} /\ written = {}

-----------------------------------------------------------------------------
(* EventLog *)

Appended(e) == LET all == Append(entries, e)
               IN  SubSeq(all, 1 + IF Len(all) > Keep THEN Len(all) - Keep ELSE 0, Len(all))

flushLocked(es) ==
  /\ unflushed' = 0
  /\ file' = es
  /\ written' = written \cup {run}

\* Mutant of append: the flush is left to the io timer.
append_NoFlush(e) ==
  /\ entries' = Appended(e)
  /\ unflushed' = unflushed + 1
  /\ UNCHANGED <<file, written>>

append(e) ==
  /\ entries' = Appended(e)
  /\ IF unflushed + 1 >= FlushEvery THEN flushLocked(Appended(e))
     ELSE unflushed' = unflushed + 1 /\ UNCHANGED <<file, written>>

\* The next line of this run.
NextLine == <<run, count + 1>>

appendNext == count' = count + 1 /\ append(NextLine)

loadPrevious == prevRun' = file

-----------------------------------------------------------------------------
(* PacketTunnelProvider *)

\* startTunnel, in a new process or in the one of the last run; the network
\* settings are asked for.
startTunnel ==
  /\ tunnel \in {"off", "stopped"}
  /\ run < MaxRuns
  /\ process' = TRUE
  /\ tunnel' = "starting"
  /\ UNCHANGED <<live, run, entries, prevRun, unflushed, file, count, reason, stopped, written>>

settingsFailed ==
  /\ tunnel = "starting"
  /\ tunnel' = "stopped"
  /\ UNCHANGED <<process, live, run, entries, prevRun, unflushed, file, count, reason, stopped, written>>

\* Mutant of settingsDone: the old journal is not read.
settingsDone_NoLoad ==
  /\ tunnel = "starting"
  /\ tunnel' = "worker"
  /\ live' = TRUE
  /\ run' = run + 1 /\ count' = 0
  /\ UNCHANGED <<process, prevRun, entries, unflushed, file, reason, stopped, written>>

\* The settings are in place: the old journal is read before the first append.
settingsDone ==
  /\ tunnel = "starting"
  /\ tunnel' = "worker"
  /\ live' = TRUE
  /\ run' = run + 1 /\ count' = 0
  /\ loadPrevious
  /\ UNCHANGED <<process, entries, unflushed, file, reason, stopped, written>>

\* Then three lines, one after the other: the worker, the fronts, tunnel_start.
announce ==
  LET then == [worker |-> "fronts", fronts |-> "start", start |-> "up"] IN
  /\ tunnel \in DOMAIN then
  /\ tunnel' = then[tunnel]
  /\ appendNext
  /\ UNCHANGED <<process, live, run, prevRun, reason, stopped>>

\* Sessions, WebSockets and the connections the io timer lists: any thread, also
\* after stopTunnel, while the next tunnel starts, and between any two calls here.
postEvent ==
  /\ live
  /\ count < MaxEvents
  /\ appendNext
  /\ UNCHANGED <<process, live, tunnel, run, prevRun, reason, stopped>>

\* The io timer: a line, and a flush.
ioTimer ==
  /\ tunnel = "up"
  /\ count < MaxEvents
  /\ count' = count + 1
  /\ entries' = Appended(NextLine)
  /\ flushLocked(Appended(NextLine))
  /\ UNCHANGED <<process, live, tunnel, run, prevRun, reason, stopped>>

\* The reason is appended ...
stopTunnel ==
  /\ tunnel = "up"
  /\ tunnel' = "stopping"
  /\ reason' = NextLine
  /\ appendNext
  /\ UNCHANGED <<process, live, run, prevRun, stopped>>

\* ... and flushed; what the sessions append as they are closed is a postEvent.
stopDone ==
  /\ tunnel = "stopping"
  /\ tunnel' = "stopped"
  /\ flushLocked(entries)
  /\ reason' = <<>>
  /\ stopped' = stopped \cup {reason}
  /\ UNCHANGED <<process, live, run, entries, prevRun, count>>

\* The process ends: killed at any time, or because it is not needed any more.
ProcessEnds ==
  /\ process
  /\ process' = FALSE /\ live' = FALSE
  /\ tunnel' = "off"
  /\ entries' = <<>> /\ prevRun' = <<>>
  /\ unflushed' = 0
  /\ reason' = <<>>
  /\ UNCHANGED <<run, file, count, stopped, written>>

-----------------------------------------------------------------------------
(* Safety *)

\* EventLog.swift:44: a crash costs less than FlushEvery lines: whenever the
\* process dies, the file ends with what is in memory but for so few at its end.
CrashLosesLittle ==
  \E lost \in 0 .. FlushEvery - 1 :
    LET safe == Len(entries) - lost
    IN  safe > 0 => \E k \in 0 .. Len(file) : SubSeq(file, k + 1, Len(file)) = SubSeq(entries, 1, safe)

\* All that is kept came after the line s in its run: s was pushed out of the journal.
PushedOut(es, s) ==
  Len(es) = Keep /\ \A i \in DOMAIN es : es[i][1] = s[1] /\ es[i][2] > s[2]

\* EventLog.swift:5: what a run shows of the one before ends with the last run that
\* wrote the file; if that was stopped in order, the reason is in it, unless Keep
\* later lines of the same process have pushed it out.
PreviousShown ==
  LET before == {r \in written : r < run} IN
  live /\ before # {} =>
    /\ prevRun # <<>> /\ Last(prevRun)[1] = Max(before)
    /\ \A s \in stopped : s[1] = Max(before) => Contains(prevRun, s) \/ PushedOut(prevRun, s)
=============================================================================
