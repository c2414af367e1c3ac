------------------------------ MODULE Timeouts ------------------------------
(***************************************************************************)
(* Tunnel/lwip/core/timeouts.c as this build runs it: lwip_bridge_poll is  *)
(* sys_check_timeouts, called every 250 ms and after every batch of input  *)
(* packets.  The list next_timeout holds at most two timers: "reass"       *)
(* (ip_reass_tmr, cyclic) and "tcp" (tcp_tmr, only while there are pcbs).  *)
(* All retransmission, and every timeout of the module LwipBridge, hangs   *)
(* on the second one.                                                      *)
(*                                                                         *)
(* Time is the u32_t of sys_now, in milliseconds since the boot: it wraps. *)
(* A poll is several steps, one per expired timer, so that time may pass   *)
(* while a handler runs; other jobs of lwipQueue wait until it is over.    *)
(***************************************************************************)
EXTENDS Integers, Sequences, SequencesExt

CONSTANTS
  LWIP_MAX_TIMEOUT,     \* 0x7fffffff: half of the range of the clock
  TCP_TMR_INTERVAL, IP_TMR_INTERVAL,
  MEMP_NUM_SYS_TIMEOUT, \* timers the pool can hold
  MaxLag,               \* how late a poll may come to the first timer
  MaxPcbs               \* bound: pcbs, active or in TIME_WAIT

ASSUME TimeoutAssumption ==
  /\ TCP_TMR_INTERVAL \in Nat \ {0} /\ IP_TMR_INTERVAL \in Nat \ {0}
  /\ MEMP_NUM_SYS_TIMEOUT \in Nat /\ MEMP_NUM_SYS_TIMEOUT >= 2
  /\ MaxLag \in Nat /\ MaxPcbs \in Nat
  /\ LWIP_MAX_TIMEOUT \in Nat
  /\ MaxLag + TCP_TMR_INTERVAL + IP_TMR_INTERVAL <= LWIP_MAX_TIMEOUT

VARIABLES
  sys_now,                \* the clock
  next_timeout,           \* the timers, first one first
  tcpip_tcp_timer_active, \* the flag that says "tcp" is in the list
  pcbs,                   \* length of tcp_active_pcbs and tcp_tw_pcbs
  checking,               \* "now" of the sys_check_timeouts that runs, or Idle
  job                     \* what ran last: "input", "poll", or a timer

vars == <<sys_now, next_timeout, tcpip_tcp_timer_active, pcbs, checking, job>>

Range32 == 2 * (LWIP_MAX_TIMEOUT + 1)
Times == 0 .. Range32 - 1
Handlers == {"tcp", "reass"}
Idle == -1

TypeOK ==
  /\ sys_now \in Times
  /\ next_timeout \in Seq([h : Handlers, time : Times])
  /\ tcpip_tcp_timer_active \in BOOLEAN
  /\ pcbs \in 0 .. MaxPcbs
  /\ checking \in Times \cup {Idle}
  /\ job \in {"input", "poll"} \cup Handlers

-----------------------------------------------------------------------------
(* The list *)

\* Mutant of TIME_LESS_THAN: numbers are compared, not distances.
TIME_LESS_THAN_Plain(t, compare_to) == t < compare_to

TIME_LESS_THAN(t, compare_to) == (t - compare_to) % Range32 > LWIP_MAX_TIMEOUT

\* Behind every timer that is not later; an empty pool drops the timer.
sys_timeout_abs(list, time, h) ==
  LET later == {i \in 1 .. Len(list) : TIME_LESS_THAN(time, list[i].time)}
  IN  IF Len(list) < MEMP_NUM_SYS_TIMEOUT
      THEN InsertAt(list, Min(later \cup {Len(list) + 1}), [h |-> h, time |-> time])
      ELSE list

sys_timeout(list, msecs, h) == sys_timeout_abs(list, (sys_now + msecs) % Range32, h)

-----------------------------------------------------------------------------
(* The handlers; list is what is left when the timer is out of it *)

\* Mutant of tcpip_tcp_timer: the flag stays when the last pcb has gone.
tcpip_tcp_timer_KeepsFlag(list) ==
  \E n \in 0 .. pcbs :
    /\ pcbs' = n
    /\ next_timeout' = IF n > 0 THEN sys_timeout(list, TCP_TMR_INTERVAL, "tcp") ELSE list
    /\ UNCHANGED tcpip_tcp_timer_active

\* tcp_tmr frees the pcbs that have timed out.
tcpip_tcp_timer(list) ==
  \E n \in 0 .. pcbs :
    /\ pcbs' = n
    /\ \/ /\ n > 0
          /\ next_timeout' = sys_timeout(list, TCP_TMR_INTERVAL, "tcp")
          /\ UNCHANGED tcpip_tcp_timer_active
       \/ /\ n = 0
          /\ next_timeout' = list
          /\ tcpip_tcp_timer_active' = FALSE

\* The interval counts from the time the timer was due, unless that has been
\* missed as well.
lwip_cyclic_timer(list, due) ==
  LET next == (due + IP_TMR_INTERVAL) % Range32 IN
  /\ next_timeout' = IF TIME_LESS_THAN(next, sys_now)
                     THEN sys_timeout(list, IP_TMR_INTERVAL, "reass")
                     ELSE sys_timeout_abs(list, next, "reass")
  /\ UNCHANGED <<pcbs, tcpip_tcp_timer_active>>

-----------------------------------------------------------------------------
(* Jobs of lwipQueue *)

\* TCP_REG of a pcb; tcp_timer_needed starts the timer if it is off.
tcp_timer_needed ==
  /\ checking = Idle
  /\ pcbs < MaxPcbs
  /\ pcbs' = pcbs + 1
  /\ IF tcpip_tcp_timer_active THEN UNCHANGED <<next_timeout, tcpip_tcp_timer_active>>
     ELSE /\ tcpip_tcp_timer_active' = TRUE
          /\ next_timeout' = sys_timeout(next_timeout, TCP_TMR_INTERVAL, "tcp")
  /\ job' = "input"
  /\ UNCHANGED <<sys_now, checking>>

\* A pcb that ends outside tcp_tmr leaves the timer alone.
tcp_pcb_remove ==
  /\ checking = Idle
  /\ pcbs > 0
  /\ pcbs' = pcbs - 1
  /\ job' = "input"
  /\ UNCHANGED <<sys_now, next_timeout, tcpip_tcp_timer_active, checking>>

\* Mutant of PollStart: polls come after input only, as they once did.
PollStart_AfterInput ==
  /\ checking = Idle
  /\ job = "input"
  /\ checking' = sys_now
  /\ job' = "poll"
  /\ UNCHANGED <<sys_now, next_timeout, tcpip_tcp_timer_active, pcbs>>

\* sys_check_timeouts reads the clock once.
PollStart ==
  /\ checking = Idle
  /\ checking' = sys_now
  /\ job' = "poll"
  /\ UNCHANGED <<sys_now, next_timeout, tcpip_tcp_timer_active, pcbs>>

\* Mutant of Expired: the clock is read again for every timer.
Expired_ReadsAgain == next_timeout # <<>> /\ ~TIME_LESS_THAN(sys_now, Head(next_timeout).time)

Expired == next_timeout # <<>> /\ ~TIME_LESS_THAN(checking, Head(next_timeout).time)

\* The first timer has expired: it leaves the list, then its handler runs.
PollTimer ==
  /\ checking # Idle
  /\ Expired
  /\ \/ /\ Head(next_timeout).h = "tcp"
        /\ tcpip_tcp_timer(Tail(next_timeout))
     \/ /\ Head(next_timeout).h = "reass"
        /\ lwip_cyclic_timer(Tail(next_timeout), Head(next_timeout).time)
  /\ job' = Head(next_timeout).h
  /\ UNCHANGED <<sys_now, checking>>

PollEnd ==
  /\ checking # Idle
  /\ ~Expired
  /\ checking' = Idle
  /\ job' = "poll"
  /\ UNCHANGED <<sys_now, next_timeout, tcpip_tcp_timer_active, pcbs>>

\* The clock, also while a handler runs.
Clock ==
  /\ next_timeout # <<>> => (sys_now - Head(next_timeout).time) % Range32 # MaxLag
  /\ sys_now' = (sys_now + 1) % Range32
  /\ UNCHANGED <<next_timeout, tcpip_tcp_timer_active, pcbs, checking, job>>

-----------------------------------------------------------------------------
\* The tunnel may start at any time since the boot.
Init ==
  /\ sys_now \in Times
  /\ next_timeout = <<[h |-> "reass", time |-> (sys_now + IP_TMR_INTERVAL) % Range32]>>
  /\ tcpip_tcp_timer_active = FALSE
  /\ pcbs = 0
  /\ checking = Idle
  /\ job = "poll"

Next == tcp_timer_needed \/ tcp_pcb_remove \/ PollStart \/ PollTimer \/ PollEnd \/ Clock

Spec == Init /\ [][Next]_vars

\* The poll timer of PacketTunnelProvider keeps firing, a poll runs to its end,
\* and time passes.
FairSpec ==
  Spec /\ WF_vars(PollStart) /\ WF_vars(PollTimer \/ PollEnd) /\ WF_vars(Clock)

-----------------------------------------------------------------------------
(* Safety *)

Armed(h) == \E i \in 1 .. Len(next_timeout) : next_timeout[i].h = h

\* No timer gets lost and none is there twice, whichever of input, handlers and
\* time comes between: the cyclic timer is always in the list, the TCP timer
\* exactly when its flag says so and at least while there are pcbs.  A flag left
\* set without a timer would stop all retransmission for good.
TimersArmed ==
  /\ \A i, j \in 1 .. Len(next_timeout) : next_timeout[i].h = next_timeout[j].h => i = j
  /\ Armed("reass")
  /\ tcpip_tcp_timer_active <=> Armed("tcp")
  /\ pcbs > 0 => tcpip_tcp_timer_active

\* The clock has passed t, less than half its range ago.
Passed(t) == (sys_now - t) % Range32 <= LWIP_MAX_TIMEOUT

\* sys_check_timeouts stops at the first timer that has not expired, so no other
\* may have expired behind it, also when the clock wraps between the two.
ExpiredFirst ==
  \A i \in 1 .. Len(next_timeout) :
    Passed(next_timeout[i].time) => Passed(Head(next_timeout).time)

-----------------------------------------------------------------------------
(* Liveness *)

\* A poll ends, however long its handlers take: lwipQueue is never held by timers
\* that expire again while it runs them ("Process only timers expired at the start
\* of the function", timeouts.c:358).
PollEnds == checking # Idle ~> checking = Idle

\* While there are pcbs the TCP timer keeps running, with or without traffic
\* (PacketTunnelProvider.swift:111).
TcpTimerRuns == pcbs > 0 ~> (job = "tcp" \/ pcbs = 0)
=============================================================================
