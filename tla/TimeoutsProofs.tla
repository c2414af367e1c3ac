--------------------------- MODULE TimeoutsProofs ---------------------------
(***************************************************************************)
(* For every range of the clock, every interval and every delay of the     *)
(* polls: no timer of lwIP is lost and none is there twice, so the pool of *)
(* two is never empty when a timer is started; and the list is in the      *)
(* order of expiry even across the wrap of the clock, so a poll that stops *)
(* at the first timer that has not expired leaves none that has.           *)
(***************************************************************************)
EXTENDS Timeouts, Induction, SequenceTheorems, TLAPS

Timer == [h : Handlers, time : Times]

\* The timers of a list, whatever their order: handlers are distinct.
Distinct(list) == \A i, j \in 1 .. Len(list) : list[i].h = list[j].h => i = j
Has(list, h) == \E i \in 1 .. Len(list) : list[i].h = h

\* Two handlers, all distinct: a list that lacks one of them has a free place.
LEMMA RoomForOne ==
  ASSUME NEW list \in Seq(Timer), Distinct(list), NEW h \in Handlers, ~Has(list, h)
  PROVE  Len(list) < MEMP_NUM_SYS_TIMEOUT
<1> SUFFICES ASSUME Len(list) >= 2 PROVE FALSE
  BY TimeoutAssumption
<1>1. 1 \in 1 .. Len(list) /\ 2 \in 1 .. Len(list) /\ list[1] \in Timer /\ list[2] \in Timer
  OBVIOUS
<1>2. list[1].h # list[2].h /\ list[1].h \in Handlers /\ list[2].h \in Handlers
  BY <1>1 DEF Distinct, Timer
<1>3. list[1].h # h /\ list[2].h # h
  BY <1>1 DEF Has
<1> QED BY <1>2, <1>3 DEF Handlers

With(list, pos, e, new) ==
  /\ new \in Seq(Timer)
  /\ Len(new) = Len(list) + 1
  /\ \A i \in 1 .. Len(new) :
       new[i] = IF i < pos THEN list[i] ELSE IF i = pos THEN e ELSE list[i - 1]

\* Inserting an element keeps the others, in their order.
LEMMA Inserted ==
  ASSUME NEW list \in Seq(Timer), NEW pos \in 1 .. Len(list) + 1, NEW e \in Timer
  PROVE  With(list, pos, e, InsertAt(list, pos, e))
<1> DEFINE a == SubSeq(list, 1, pos - 1)
           b == SubSeq(list, pos, Len(list))
<1>1. /\ a \in Seq(Timer) /\ Len(a) = pos - 1
      /\ \A i \in 1 .. pos - 1 : a[i] = list[i]
  OBVIOUS
<1>2. /\ b \in Seq(Timer) /\ Len(b) = Len(list) - pos + 1
      /\ \A i \in 1 .. Len(b) : b[i] = list[pos + i - 1]
  OBVIOUS
<1>3. <<e>> \in Seq(Timer) /\ Len(<<e>>) = 1 /\ <<e>>[1] = e
  OBVIOUS
<1> HIDE DEF a, b
<1> DEFINE ae == a \o <<e>>
<1>4. /\ ae \in Seq(Timer) /\ Len(ae) = pos
      /\ \A i \in 1 .. pos : ae[i] = IF i < pos THEN list[i] ELSE e
  BY <1>1, <1>3
<1> HIDE DEF ae
<1> DEFINE new == ae \o b
<1>5. /\ new \in Seq(Timer) /\ Len(new) = Len(list) + 1
      /\ \A i \in 1 .. Len(new) : new[i] = IF i <= pos THEN ae[i] ELSE b[i - pos]
  <2>1. Len(ae) + Len(b) = Len(list) + 1
    BY <1>2, <1>4
  <2>2. /\ new \in Seq(Timer) /\ Len(new) = Len(ae) + Len(b)
        /\ \A i \in 1 .. Len(ae) + Len(b) : new[i] = IF i <= Len(ae) THEN ae[i] ELSE b[i - Len(ae)]
    BY <1>2, <1>4, ConcatProperties
  <2> QED BY <1>4, <2>1, <2>2
<1>6. \A i \in 1 .. Len(new) :
        new[i] = IF i < pos THEN list[i] ELSE IF i = pos THEN e ELSE list[i - 1]
  <2> SUFFICES ASSUME NEW i \in 1 .. Len(new)
               PROVE  new[i] = IF i < pos THEN list[i] ELSE IF i = pos THEN e ELSE list[i - 1]
    OBVIOUS
  <2>1. CASE i <= pos
    BY <1>4, <1>5, <2>1
  <2>2. CASE i > pos
    <3>1. i - pos \in 1 .. Len(b) /\ new[i] = b[i - pos]
      BY <1>2, <1>5, <2>2
    <3>2. b[i - pos] = list[pos + (i - pos) - 1]
      BY <1>2, <3>1
    <3>3. pos + (i - pos) - 1 = i - 1
      OBVIOUS
    <3> QED BY <2>2, <3>1, <3>2, <3>3
  <2> QED BY <2>1, <2>2
<1>7. InsertAt(list, pos, e) = new
  BY DEF InsertAt, a, b, ae
<1> HIDE DEF new
<1> QED BY <1>5, <1>6, <1>7 DEF With

\* sys_timeout_abs with a handler that is not in the list: it is added, the others
\* stay, and nothing is there twice.
LEMMA Started ==
  ASSUME NEW list \in Seq(Timer), Distinct(list), NEW h \in Handlers, ~Has(list, h),
         NEW time \in Times
  PROVE  LET new == sys_timeout_abs(list, time, h) IN
         /\ new \in Seq(Timer)
         /\ Distinct(new)
         /\ Has(new, h)
         /\ \A g \in Handlers : Has(list, g) => Has(new, g)
         /\ \A g \in Handlers : Has(new, g) => Has(list, g) \/ g = h
<1> DEFINE later == {i \in 1 .. Len(list) : TIME_LESS_THAN(time, list[i].time)}
           pos == Min(later \cup {Len(list) + 1})
           e == [h |-> h, time |-> time]
           new == sys_timeout_abs(list, time, h)
<1>1. pos \in 1 .. Len(list) + 1
  <2>1. later \cup {Len(list) + 1} \in SUBSET Nat
    OBVIOUS
  <2>2. pos \in later \cup {Len(list) + 1}
    BY <2>1, MinExists
  <2> QED BY <2>2
<1>2. e \in Timer /\ e.h = h
  BY DEF Timer
<1>3. new = InsertAt(list, pos, e)
  <2>1. Len(list) < MEMP_NUM_SYS_TIMEOUT
    BY RoomForOne
  <2> QED BY <2>1 DEF sys_timeout_abs
<1> HIDE DEF pos, e, new
<1>4. /\ new \in Seq(Timer)
      /\ Len(new) = Len(list) + 1
      /\ \A i \in 1 .. Len(new) :
           new[i] = IF i < pos THEN list[i] ELSE IF i = pos THEN e ELSE list[i - 1]
  <2>1. With(list, pos, e, InsertAt(list, pos, e))
    BY <1>1, <1>2, Inserted
  <2>2. With(list, pos, e, new)
    BY <1>3, <2>1
  <2> QED BY <2>2 DEF With
<1>5. \A i \in 1 .. Len(list) : list[i].h # h
  BY DEF Has
<1>6. Distinct(new)
  <2> SUFFICES ASSUME NEW i \in 1 .. Len(new), NEW j \in 1 .. Len(new), i < j
               PROVE  new[i].h # new[j].h
    BY <1>4 DEF Distinct
  <2>1. CASE j = pos
    BY <1>2, <1>4, <1>5, <2>1
  <2>2. CASE i = pos
    BY <1>2, <1>4, <1>5, <2>2
  <2>3. CASE i # pos /\ j # pos
    <3> DEFINE k(n) == IF n < pos THEN n ELSE n - 1
    <3>1. k(i) \in 1 .. Len(list) /\ k(j) \in 1 .. Len(list) /\ k(i) # k(j)
      BY <1>1, <1>4, <2>3
    <3>2. new[i] = list[k(i)] /\ new[j] = list[k(j)]
      BY <1>4, <2>3
    <3> QED BY <3>1, <3>2 DEF Distinct
  <2> QED BY <2>1, <2>2, <2>3
<1>7. Has(new, h)
  BY <1>1, <1>2, <1>4 DEF Has
<1>8. ASSUME NEW g \in Handlers, Has(list, g) PROVE Has(new, g)
  <2>1. PICK i \in 1 .. Len(list) : list[i].h = g
    BY <1>8 DEF Has
  <2>2. CASE i < pos
    BY <1>4, <2>1, <2>2 DEF Has
  <2>3. CASE i >= pos
    <3>1. i + 1 \in 1 .. Len(new) /\ new[i + 1] = list[i]
      BY <1>1, <1>4, <2>3
    <3> QED BY <2>1, <3>1 DEF Has
  <2> QED BY <1>1, <2>2, <2>3
<1>9. ASSUME NEW g \in Handlers, Has(new, g) PROVE Has(list, g) \/ g = h
  <2>1. PICK i \in 1 .. Len(new) : new[i].h = g
    BY <1>9 DEF Has
  <2>2. CASE i < pos
    BY <1>1, <1>4, <2>1, <2>2 DEF Has
  <2>3. CASE i = pos
    BY <1>2, <1>4, <2>1, <2>3
  <2>4. CASE i > pos
    <3>1. i - 1 \in 1 .. Len(list) /\ new[i] = list[i - 1]
      BY <1>1, <1>4, <2>4
    <3> QED BY <2>1, <3>1 DEF Has
  <2> QED BY <1>1, <2>2, <2>3, <2>4
<1> QED BY <1>4, <1>6, <1>7, <1>8, <1>9 DEF new

\* Taking the first timer out of the list takes its handler out.
LEMMA FirstRemoved ==
  ASSUME NEW list \in Seq(Timer), Distinct(list), list # <<>>
  PROVE  /\ Head(list) \in Timer /\ Tail(list) \in Seq(Timer) /\ Distinct(Tail(list))
         /\ ~Has(Tail(list), Head(list).h)
         /\ \A g \in Handlers : g # Head(list).h => (Has(Tail(list), g) <=> Has(list, g))
<1>1. /\ Head(list) \in Timer /\ Head(list) = list[1] /\ 1 \in 1 .. Len(list)
      /\ Tail(list) \in Seq(Timer) /\ Len(Tail(list)) = Len(list) - 1
      /\ \A i \in 1 .. Len(Tail(list)) : i + 1 \in 1 .. Len(list) /\ Tail(list)[i] = list[i + 1]
  OBVIOUS
<1>2. Distinct(Tail(list))
  BY <1>1 DEF Distinct
<1>3. ~Has(Tail(list), Head(list).h)
  BY <1>1 DEF Distinct, Has
<1>4. ASSUME NEW g \in Handlers, g # Head(list).h, Has(list, g) PROVE Has(Tail(list), g)
  <2>1. PICK i \in 1 .. Len(list) : list[i].h = g
    BY <1>4 DEF Has
  <2>2. i - 1 \in 1 .. Len(Tail(list)) /\ Tail(list)[i - 1] = list[i]
    BY <1>1, <1>4, <2>1
  <2> QED BY <2>1, <2>2 DEF Has
<1>5. ASSUME NEW g \in Handlers, Has(Tail(list), g) PROVE Has(list, g)
  BY <1>1, <1>5 DEF Has
<1> QED BY <1>1, <1>2, <1>3, <1>4, <1>5

-----------------------------------------------------------------------------
\* TimersArmed needs to know only that the list holds timers.
ArmedInv == TypeOK /\ TimersArmed

\* The invariant in the words of the lemmas.
LEMMA ArmedAsHas ==
  ASSUME ArmedInv
  PROVE  /\ next_timeout \in Seq(Timer) /\ Distinct(next_timeout)
         /\ Has(next_timeout, "reass")
         /\ tcpip_tcp_timer_active <=> Has(next_timeout, "tcp")
BY DEF ArmedInv, TypeOK, TimersArmed, Armed, Has, Distinct, Timer

\* The clock stays a number of its range, wherever it wraps.
LEMMA Wraps == \A t \in Times, n \in Nat : (t + n) % Range32 \in Times
BY TimeoutAssumption DEF Times, Range32

\* The time a timer is set to is a time.
LEMMA StartTimes ==
  ASSUME TypeOK
  PROVE  /\ (sys_now + TCP_TMR_INTERVAL) % Range32 \in Times
         /\ (sys_now + IP_TMR_INTERVAL) % Range32 \in Times
         /\ \A due \in Times : (due + IP_TMR_INTERVAL) % Range32 \in Times
BY Wraps, TimeoutAssumption DEF TypeOK

\* One timer, the cyclic one, and no pcbs.
LEMMA ArmedInit == Init => ArmedInv
<1> SUFFICES ASSUME Init PROVE ArmedInv
  OBVIOUS
<1> DEFINE e == [h |-> "reass", time |-> (sys_now + IP_TMR_INTERVAL) % Range32]
<1>1. (sys_now + IP_TMR_INTERVAL) % Range32 \in Times
  BY Wraps, TimeoutAssumption DEF Init
<1>2. e \in Timer /\ e.h = "reass"
  BY <1>1 DEF Timer, Handlers
<1>3. next_timeout = <<e>>
  BY DEF Init
<1> HIDE DEF e
<1>4. next_timeout \in Seq(Timer) /\ Len(next_timeout) = 1 /\ next_timeout[1] = e
  BY <1>2, <1>3
<1>5. TypeOK
  <2>1. pcbs \in 0 .. MaxPcbs
    <3>1. pcbs = 0 /\ MaxPcbs \in Nat
      BY TimeoutAssumption DEF Init
    <3> QED BY <3>1
  <2>2. next_timeout \in Seq([h : Handlers, time : Times])
    BY <1>4 DEF Timer
  <2> QED BY <2>1, <2>2 DEF Init, TypeOK
<1>6. TimersArmed
  BY <1>2, <1>4 DEF Init, TimersArmed, Armed
<1> QED BY <1>5, <1>6 DEF ArmedInv

\* What a step leaves: a list of timers, the flag, and the two agree.
ArmedNext(list, flag, n) ==
  /\ list \in Seq(Timer) /\ Distinct(list)
  /\ Has(list, "reass")
  /\ flag \in BOOLEAN /\ (flag <=> Has(list, "tcp"))
  /\ n \in 0 .. MaxPcbs /\ (n > 0 => flag)

\* Starting the TCP timer, out of the list before: it is in the list then.
LEMMA TcpStarted ==
  ASSUME TypeOK, NEW list \in Seq(Timer), Distinct(list), ~Has(list, "tcp"), Has(list, "reass"),
         NEW n \in 0 .. MaxPcbs
  PROVE  ArmedNext(sys_timeout(list, TCP_TMR_INTERVAL, "tcp"), TRUE, n)
<1> DEFINE time == (sys_now + TCP_TMR_INTERVAL) % Range32
<1>1. time \in Times /\ "tcp" \in Handlers /\ "reass" \in Handlers
  BY StartTimes DEF Handlers
<1> HIDE DEF time
<1>2. LET new == sys_timeout_abs(list, time, "tcp") IN
      new \in Seq(Timer) /\ Distinct(new) /\ Has(new, "tcp") /\ Has(new, "reass")
  BY <1>1, Started
<1> QED BY <1>2 DEF ArmedNext, sys_timeout, time

\* The same for the cyclic timer, at whatever time.
LEMMA ReassStarted ==
  ASSUME NEW list \in Seq(Timer), Distinct(list), ~Has(list, "reass"), NEW time \in Times,
         NEW flag \in BOOLEAN, flag <=> Has(list, "tcp"),
         NEW n \in 0 .. MaxPcbs, n > 0 => flag
  PROVE  ArmedNext(sys_timeout_abs(list, time, "reass"), flag, n)
<1>1. "tcp" \in Handlers /\ "reass" \in Handlers
  BY DEF Handlers
<1>2. LET new == sys_timeout_abs(list, time, "reass") IN
      /\ new \in Seq(Timer) /\ Distinct(new) /\ Has(new, "reass")
      /\ Has(list, "tcp") => Has(new, "tcp")
      /\ Has(new, "tcp") => Has(list, "tcp")
  BY <1>1, Started
<1> QED BY <1>2 DEF ArmedNext

\* tcp_timer_needed: without the flag the timer is not in the list, so it fits.
LEMMA NeededStep ==
  ASSUME ArmedInv, tcp_timer_needed
  PROVE  ArmedNext(next_timeout', tcpip_tcp_timer_active', pcbs')
<1>1. /\ next_timeout \in Seq(Timer) /\ Distinct(next_timeout) /\ Has(next_timeout, "reass")
      /\ tcpip_tcp_timer_active <=> Has(next_timeout, "tcp")
  BY ArmedAsHas
<1>2. pcbs' \in 0 .. MaxPcbs /\ TypeOK /\ tcpip_tcp_timer_active \in BOOLEAN
  BY TimeoutAssumption DEF tcp_timer_needed, ArmedInv, TypeOK
<1>3. CASE tcpip_tcp_timer_active
  BY <1>1, <1>2, <1>3 DEF tcp_timer_needed, ArmedNext
<1>4. CASE ~tcpip_tcp_timer_active
  <2>1. ArmedNext(sys_timeout(next_timeout, TCP_TMR_INTERVAL, "tcp"), TRUE, pcbs')
    BY <1>1, <1>2, <1>4, TcpStarted
  <2> QED BY <1>4, <2>1 DEF tcp_timer_needed
<1> QED BY <1>3, <1>4

\* A handler runs when its timer is out of the list, and starts it again or, the
\* TCP timer without pcbs, clears the flag.
LEMMA TimerStep ==
  ASSUME ArmedInv, PollTimer
  PROVE  ArmedNext(next_timeout', tcpip_tcp_timer_active', pcbs')
<1> DEFINE rest == Tail(next_timeout)
           due == Head(next_timeout).time
<1>1. /\ next_timeout \in Seq(Timer) /\ Distinct(next_timeout) /\ Has(next_timeout, "reass")
      /\ tcpip_tcp_timer_active <=> Has(next_timeout, "tcp")
  BY ArmedAsHas
<1>2. next_timeout # <<>>
  BY DEF PollTimer, Expired
<1>3. /\ Head(next_timeout) \in Timer /\ rest \in Seq(Timer) /\ Distinct(rest)
      /\ ~Has(rest, Head(next_timeout).h)
      /\ \A g \in Handlers : g # Head(next_timeout).h => (Has(rest, g) <=> Has(next_timeout, g))
  BY <1>1, <1>2, FirstRemoved
<1>4. TypeOK /\ due \in Times /\ pcbs \in 0 .. MaxPcbs /\ tcpip_tcp_timer_active \in BOOLEAN
  BY <1>3 DEF ArmedInv, TypeOK, Timer
<1>5. pcbs > 0 => tcpip_tcp_timer_active
  BY DEF ArmedInv, TimersArmed
<1> HIDE DEF rest, due
<1>6. ASSUME Head(next_timeout).h = "tcp", tcpip_tcp_timer(rest)
      PROVE  ArmedNext(next_timeout', tcpip_tcp_timer_active', pcbs')
  <2>1. PICK n \in 0 .. pcbs :
          /\ pcbs' = n
          /\ \/ /\ n > 0
                /\ next_timeout' = sys_timeout(rest, TCP_TMR_INTERVAL, "tcp")
                /\ UNCHANGED tcpip_tcp_timer_active
             \/ /\ n = 0
                /\ next_timeout' = rest
                /\ tcpip_tcp_timer_active' = FALSE
    BY <1>6 DEF tcpip_tcp_timer
  <2>2. n \in 0 .. MaxPcbs /\ ~Has(rest, "tcp") /\ Has(rest, "reass")
    BY <1>1, <1>3, <1>4, <1>6, <2>1, TimeoutAssumption DEF Handlers
  <2>3. CASE n > 0
    <3>1. ArmedNext(sys_timeout(rest, TCP_TMR_INTERVAL, "tcp"), TRUE, n)
      BY <1>3, <1>4, <2>2, TcpStarted
    <3>2. tcpip_tcp_timer_active = TRUE
      BY <1>4, <1>5, <2>1, <2>3
    <3>3. /\ pcbs' = n
          /\ next_timeout' = sys_timeout(rest, TCP_TMR_INTERVAL, "tcp")
          /\ tcpip_tcp_timer_active' = tcpip_tcp_timer_active
      <4>1. ~(n = 0)
        BY <2>3
      <4> QED BY <2>1, <4>1, Zenon
    <3>4. ArmedNext(next_timeout', tcpip_tcp_timer_active, pcbs')
      BY <3>1, <3>2, <3>3, Zenon
    <3> QED BY <3>3, <3>4, Zenon
  <2>4. CASE n = 0
    <3>1. ArmedNext(rest, FALSE, 0)
      BY <1>3, <2>2, <2>4, TimeoutAssumption DEF ArmedNext
    <3>2. pcbs' = 0 /\ next_timeout' = rest /\ tcpip_tcp_timer_active' = FALSE
      BY <2>1, <2>4
    <3> QED BY <3>1, <3>2, Zenon
  <2> QED BY <2>1, <2>3, <2>4
<1>7. ASSUME Head(next_timeout).h = "reass", lwip_cyclic_timer(rest, due)
      PROVE  ArmedNext(next_timeout', tcpip_tcp_timer_active', pcbs')
  <2>1. PICK time \in Times : next_timeout' = sys_timeout_abs(rest, time, "reass")
    BY <1>4, <1>7, StartTimes DEF lwip_cyclic_timer, sys_timeout
  <2>2. UNCHANGED <<pcbs, tcpip_tcp_timer_active>>
    BY <1>7 DEF lwip_cyclic_timer
  <2>3. ~Has(rest, "reass")
    BY <1>3, <1>7
  <2>4. Has(rest, "tcp") <=> Has(next_timeout, "tcp")
    BY <1>3, <1>7 DEF Handlers
  <2>5. tcpip_tcp_timer_active <=> Has(rest, "tcp")
    BY <1>1, <2>4, Zenon
  <2>6. ArmedNext(sys_timeout_abs(rest, time, "reass"), tcpip_tcp_timer_active, pcbs)
    BY <1>3, <1>4, <1>5, <2>3, <2>5, ReassStarted
  <2> QED BY <2>1, <2>2, <2>6
<1> QED BY <1>6, <1>7 DEF PollTimer, rest, due

\* Everything else leaves list and flag alone; the clock stays in its range.
LEMMA ArmedStep == ArmedInv /\ [Next]_vars => ArmedInv'
<1> SUFFICES ASSUME ArmedInv, [Next]_vars PROVE ArmedInv'
  OBVIOUS
<1>1. ASSUME ArmedNext(next_timeout', tcpip_tcp_timer_active', pcbs'),
             sys_now' \in Times, checking' \in Times \cup {Idle},
             job' \in {"input", "poll"} \cup Handlers
      PROVE  ArmedInv'
  <2>1. TypeOK'
    BY <1>1 DEF ArmedNext, TypeOK, Timer
  <2>2. TimersArmed'
    BY <1>1 DEF ArmedNext, TimersArmed, Armed, Has, Distinct
  <2> QED BY <2>1, <2>2 DEF ArmedInv
<1>2. /\ sys_now \in Times /\ checking \in Times \cup {Idle}
      /\ job \in {"input", "poll"} \cup Handlers
  BY DEF ArmedInv, TypeOK
<1>3. ArmedNext(next_timeout, tcpip_tcp_timer_active, pcbs)
  BY ArmedAsHas DEF ArmedInv, TypeOK, TimersArmed, ArmedNext
<1>4. CASE tcp_timer_needed
  BY <1>1, <1>2, <1>4, NeededStep DEF tcp_timer_needed
<1>5. CASE tcp_pcb_remove
  <2>1. pcbs' \in 0 .. MaxPcbs /\ (pcbs' > 0 => tcpip_tcp_timer_active)
    BY <1>3, <1>5, TimeoutAssumption DEF ArmedNext, tcp_pcb_remove
  <2>2. ArmedNext(next_timeout', tcpip_tcp_timer_active', pcbs')
    BY <1>3, <1>5, <2>1 DEF ArmedNext, tcp_pcb_remove
  <2> QED BY <1>1, <1>2, <1>5, <2>2 DEF tcp_pcb_remove
<1>6. CASE PollStart
  BY <1>1, <1>2, <1>3, <1>6 DEF PollStart
<1>7. CASE PollTimer
  <2>1. next_timeout # <<>> /\ next_timeout \in Seq(Timer)
    BY <1>7, ArmedAsHas DEF PollTimer, Expired
  <2>2. job' \in Handlers
    BY <1>7 DEF PollTimer, Handlers
  <2> QED BY <1>1, <1>2, <1>7, <2>2, TimerStep DEF PollTimer
<1>8. CASE PollEnd
  BY <1>1, <1>2, <1>3, <1>8 DEF PollEnd
<1>9. CASE Clock
  <2>1. sys_now' \in Times
    BY <1>2, <1>9, Wraps DEF Clock
  <2> QED BY <1>1, <1>2, <1>3, <1>9, <2>1 DEF Clock
<1>10. CASE UNCHANGED vars
  BY <1>1, <1>2, <1>3, <1>10 DEF vars
<1> QED BY <1>4, <1>5, <1>6, <1>7, <1>8, <1>9, <1>10 DEF Next

\* The two timers of lwIP are never lost, doubled or dropped for want of memory:
\* while a pcb exists tcp_tmr is due some time, and its flag never lies.
THEOREM TimersStayArmed == Spec => []TimersArmed
<1>1. ArmedInv => TimersArmed
  BY DEF ArmedInv
<1> QED BY <1>1, ArmedInit, ArmedStep, PTL DEF Spec

-----------------------------------------------------------------------------
(* The order of the list                                                   *)
(*                                                                         *)
(* ExpiredFirst alone is not inductive: that the list is sorted says       *)
(* little where numbers wrap.  All its times lie in one window of the      *)
(* clock, from MaxLag before now to a whole interval behind it, and the    *)
(* window is less than half the clock's range.  Due is the place of a      *)
(* timer in that window, an ordinary number: it falls by one with every    *)
(* tick, and TIME_LESS_THAN compares it.  While a poll runs the clock may  *)
(* go on, so that now, checking and the timers have to be tied together:   *)
(* a timer that has expired for the poll has expired for the clock.        *)

\* The way from a to b around the clock.
Gap(a, b) == IF b >= a THEN b - a ELSE b - a + Range32

\* How long after MaxLag before "now" the time t is.
Due(now, t) == IF Gap(now, t) + MaxLag < Range32 THEN Gap(now, t) + MaxLag
               ELSE Gap(now, t) + MaxLag - Range32

Window == MaxLag + TCP_TMR_INTERVAL + IP_TMR_INTERVAL

Sorted(list, now) ==
  /\ \A i \in 1 .. Len(list) : Due(now, list[i].time) <= Window
  /\ \A i, j \in 1 .. Len(list) : i < j => Due(now, list[i].time) <= Due(now, list[j].time)

\* checking is behind now, by so little that no timer is out of its sight.
Near(list, now, since) ==
  since # Idle => \A i \in 1 .. Len(list) : Gap(since, now) + Due(now, list[i].time) <= MaxLag + Window

OrderInv ==
  /\ ArmedInv
  /\ Sorted(next_timeout, sys_now)
  /\ Near(next_timeout, sys_now, checking)

\* Remainders of numbers that are at most one range away.
LEMMA SmallMod ==
  ASSUME NEW z \in Int, NEW R \in Nat \ {0}
  PROVE  /\ 0 <= z /\ z < R => z % R = z
         /\ -R <= z /\ z < 0 => z % R = z + R
         /\ R <= z /\ z < 2 * R => z % R = z - R
OBVIOUS
\* The sizes of the window and of the clock.
LEMMA Sizes ==
  /\ MaxLag \in Nat /\ TCP_TMR_INTERVAL \in Nat \ {0} /\ IP_TMR_INTERVAL \in Nat \ {0}
  /\ LWIP_MAX_TIMEOUT \in Nat /\ Window \in Nat /\ Window <= LWIP_MAX_TIMEOUT
  /\ Range32 \in Nat \ {0} /\ Range32 = 2 * LWIP_MAX_TIMEOUT + 2
  /\ \A t : t \in Times <=> t \in Nat /\ t < Range32
BY TimeoutAssumption DEF Window, Range32, Times

\* Differences of times and times plus an interval, without the remainder.
LEMMA GapMod ==
  ASSUME NEW a \in Times, NEW b \in Times
  PROVE  Gap(a, b) \in Times /\ (b - a) % Range32 = Gap(a, b)
<1>1. a \in Nat /\ b \in Nat /\ a < Range32 /\ b < Range32 /\ Range32 \in Nat \ {0}
  BY Sizes
<1>2. Gap(a, b) \in Nat /\ Gap(a, b) < Range32
  BY <1>1 DEF Gap
<1>3. CASE b >= a
  <2>1. 0 <= b - a /\ b - a < Range32 /\ b - a \in Int
    BY <1>1, <1>3
  <2>2. (b - a) % Range32 = b - a
    BY <1>1, <2>1, SmallMod
  <2> QED BY <1>2, <1>3, <2>2, Sizes DEF Gap
<1>4. CASE ~(b >= a)
  <2>1. -Range32 <= b - a /\ b - a < 0 /\ b - a \in Int
    BY <1>1, <1>4
  <2>2. (b - a) % Range32 = b - a + Range32
    BY <1>1, <2>1, SmallMod
  <2> QED BY <1>2, <1>4, <2>2, Sizes DEF Gap
<1> QED BY <1>3, <1>4

\* The clock has wrapped at most once.
LEMMA WrapMod ==
  ASSUME NEW z \in Int, 0 <= z, z < 2 * Range32
  PROVE  /\ z % Range32 \in Times
         /\ z < Range32 => z % Range32 = z
         /\ ~(z < Range32) => z % Range32 = z - Range32
<1> DEFINE r == z % Range32
<1>1. Range32 \in Nat \ {0}
  BY Sizes
<1>2. CASE z < Range32
  <2>1. r = z
    BY <1>1, <1>2, SmallMod, Zenon
  <2> HIDE DEF r
  <2>2. r \in Times
    BY <1>2, <2>1, Sizes
  <2> QED BY <1>2, <2>1, <2>2 DEF r
<1>3. CASE ~(z < Range32)
  <2>1. Range32 <= z
    BY <1>1, <1>3
  <2>2. r = z - Range32
    BY <1>1, <2>1, SmallMod, Zenon
  <2> HIDE DEF r
  <2>3. r \in Times
    BY <1>3, <2>1, <2>2, Sizes
  <2> QED BY <1>3, <2>2, <2>3 DEF r
<1> QED BY <1>2, <1>3

\* Adding an interval to a time.
LEMMA PlusMod ==
  ASSUME NEW t \in Times, NEW n \in Nat, n < Range32
  PROVE  /\ (t + n) % Range32 \in Times
         /\ t + n < Range32 => (t + n) % Range32 = t + n
         /\ ~(t + n < Range32) => (t + n) % Range32 = (t + n) - Range32
<1>1. t + n \in Int /\ 0 <= t + n /\ t + n < 2 * Range32
  BY Sizes
<1> QED BY <1>1, WrapMod, Zenon

\* The place of now in the window, and of a time before which the clock has MaxLag.
LEMMA DuePlaces ==
  ASSUME NEW now \in Times, NEW t \in Times
  PROVE  /\ Due(now, t) \in Times
         /\ Due(now, now) = MaxLag
         /\ (now - t) % Range32 = MaxLag <=> Due(now, t) = 0
<1>1. now \in Nat /\ t \in Nat /\ now < Range32 /\ t < Range32
  BY Sizes
<1>2. MaxLag \in Nat /\ MaxLag < Range32 /\ Range32 \in Nat
  BY Sizes DEF Window
<1>3. Due(now, t) \in Nat /\ Due(now, t) < Range32 /\ Due(now, now) = MaxLag
  BY <1>1, <1>2 DEF Due, Gap
<1>4. Gap(t, now) = MaxLag <=> Due(now, t) = 0
  BY <1>1, <1>2 DEF Due, Gap
<1> QED BY <1>3, <1>4, GapMod, Sizes

\* A later time has a later place, as long as it stays within half the clock.
LEMMA DueAfter ==
  ASSUME NEW now \in Times, NEW t \in Times, NEW n \in Nat, Due(now, t) + n <= Window
  PROVE  Due(now, (t + n) % Range32) = Due(now, t) + n
<1>1. now \in Nat /\ t \in Nat /\ now < Range32 /\ t < Range32
  BY Sizes
<1>2. MaxLag \in Nat /\ MaxLag <= Window /\ Window < Range32 /\ Range32 \in Nat /\ Window \in Nat
  BY Sizes DEF Window
<1>3. Due(now, t) \in Nat
  BY DuePlaces, Sizes
<1>4. n < Range32
  BY <1>2, <1>3
<1> DEFINE u == (t + n) % Range32
<1>5. /\ t + n < Range32 => u = t + n
      /\ ~(t + n < Range32) => u = (t + n) - Range32
  BY <1>4, PlusMod, Zenon
<1> HIDE DEF u
<1>6. u = IF t + n < Range32 THEN t + n ELSE t + n - Range32
  BY <1>1, <1>2, <1>5
<1>7. Due(now, u) = Due(now, t) + n
  BY <1>1, <1>2, <1>4, <1>6 DEF Due, Gap
<1> QED BY <1>7 DEF u

\* A tick brings every timer one nearer and takes the start of the poll one away.
LEMMA Tick ==
  ASSUME NEW now \in Times, NEW t \in Times
  PROVE  /\ (now + 1) % Range32 \in Times
         /\ Due(now, t) > 0 => Due((now + 1) % Range32, t) = Due(now, t) - 1
         /\ Gap(t, now) + 1 < Range32 => Gap(t, (now + 1) % Range32) = Gap(t, now) + 1
<1>1. now \in Nat /\ t \in Nat /\ now < Range32 /\ t < Range32
  BY Sizes
<1>2. MaxLag \in Nat /\ MaxLag < Range32 /\ Range32 \in Nat /\ 1 < Range32
  BY Sizes DEF Window
<1> DEFINE u == (now + 1) % Range32
<1>3. /\ u \in Times
      /\ now + 1 < Range32 => u = now + 1
      /\ ~(now + 1 < Range32) => u = (now + 1) - Range32
  <2>1. 1 \in Nat
    OBVIOUS
  <2> QED BY <1>2, <2>1, PlusMod, Zenon
<1> HIDE DEF u
<1>4. Due(now, t) > 0 => Due(u, t) = Due(now, t) - 1
  BY <1>1, <1>2, <1>3 DEF Due, Gap
<1>5. Gap(t, now) + 1 < Range32 => Gap(t, u) = Gap(t, now) + 1
  BY <1>1, <1>2, <1>3 DEF Gap
<1> QED BY <1>3, <1>4, <1>5 DEF u

\* TIME_LESS_THAN compares places in the window.
LEMMA Less ==
  ASSUME NEW now \in Times, NEW a \in Times, NEW b \in Times,
         Due(now, a) <= Window, Due(now, b) <= Window
  PROVE  TIME_LESS_THAN(a, b) <=> Due(now, a) < Due(now, b)
<1>1. now \in Nat /\ a \in Nat /\ b \in Nat /\ now < Range32 /\ a < Range32 /\ b < Range32
  BY Sizes
<1>2. /\ MaxLag \in Nat /\ MaxLag <= Window /\ Window \in Nat /\ Window <= LWIP_MAX_TIMEOUT
      /\ Range32 = 2 * LWIP_MAX_TIMEOUT + 2 /\ LWIP_MAX_TIMEOUT \in Nat
  BY Sizes DEF Window
<1>3. TIME_LESS_THAN(a, b) <=> Gap(b, a) > LWIP_MAX_TIMEOUT
  BY GapMod DEF TIME_LESS_THAN
<1>4. Gap(b, a) > LWIP_MAX_TIMEOUT <=> Due(now, a) < Due(now, b)
  <2> HIDE DEF Window, Range32
  <2> QED BY <1>1, <1>2 DEF Due, Gap
<1> QED BY <1>3, <1>4

\* The clock has passed a timer, and a poll finds it expired.
LEMMA PassedAsDue ==
  ASSUME NEW now \in Times, NEW t \in Times, Due(now, t) <= Window
  PROVE  ~TIME_LESS_THAN(now, t) <=> Due(now, t) <= MaxLag
<1>1. MaxLag \in Nat /\ MaxLag <= Window /\ Due(now, t) \in Nat
  BY DuePlaces, Sizes DEF Window
<1>2. TIME_LESS_THAN(now, t) <=> MaxLag < Due(now, t)
  BY <1>1, Less, DuePlaces
<1> QED BY <1>1, <1>2

\* The same for a timer seen from the start of a poll.
LEMMA ExpiredAsDue ==
  ASSUME NEW now \in Times, NEW since \in Times, NEW t \in Times,
         Gap(since, now) + Due(now, t) <= MaxLag + Window
  PROVE  ~TIME_LESS_THAN(since, t) <=> Gap(since, now) + Due(now, t) <= MaxLag
<1>1. now \in Nat /\ since \in Nat /\ t \in Nat /\ now < Range32 /\ since < Range32 /\ t < Range32
  BY Sizes
<1>2. /\ MaxLag \in Nat /\ MaxLag <= Window /\ Window \in Nat /\ Window <= LWIP_MAX_TIMEOUT
      /\ Range32 = 2 * LWIP_MAX_TIMEOUT + 2 /\ LWIP_MAX_TIMEOUT \in Nat
  BY Sizes DEF Window
<1>3. TIME_LESS_THAN(since, t) <=> Gap(t, since) > LWIP_MAX_TIMEOUT
  BY GapMod DEF TIME_LESS_THAN
<1>4. Gap(t, since) <= LWIP_MAX_TIMEOUT <=> Gap(since, now) + Due(now, t) <= MaxLag
  BY <1>1, <1>2 DEF Due, Gap
<1>5. Gap(t, since) \in Nat
  BY GapMod, Sizes
<1> QED BY <1>2, <1>3, <1>4, <1>5
-----------------------------------------------------------------------------
\* sys_timeout_abs puts a timer where it belongs, and adds no time but its own.
LEMMA Placed ==
  ASSUME NEW list \in Seq(Timer), NEW now \in Times, Sorted(list, now),
         NEW time \in Times, Due(now, time) <= Window,
         NEW h \in Handlers, Len(list) < MEMP_NUM_SYS_TIMEOUT
  PROVE  LET new == sys_timeout_abs(list, time, h) IN
         /\ Sorted(new, now)
         /\ \A i \in 1 .. Len(new) :
              new[i].time = time \/ \E k \in 1 .. Len(list) : new[i].time = list[k].time
<1> DEFINE later == {i \in 1 .. Len(list) : TIME_LESS_THAN(time, list[i].time)}
           pos == Min(later \cup {Len(list) + 1})
           e == [h |-> h, time |-> time]
           new == sys_timeout_abs(list, time, h)
<1>1. /\ pos \in later \cup {Len(list) + 1}
      /\ \A i \in later : pos <= i
  <2>1. later \cup {Len(list) + 1} \in SUBSET Nat
    OBVIOUS
  <2> HIDE DEF later
  <2> QED BY <2>1, MinExists
<1>2. new = InsertAt(list, pos, e)
  BY DEF sys_timeout_abs
<1>3. e \in Timer /\ e.time = time
  BY DEF Timer
<1>4. pos \in 1 .. Len(list) + 1
  <2>1. later \subseteq 1 .. Len(list) /\ Len(list) \in Nat
    OBVIOUS
  <2> HIDE DEF later, pos
  <2> QED BY <1>1, <2>1
<1>5. \A i \in 1 .. Len(list) :
        /\ list[i].time \in Times
        /\ Due(now, list[i].time) \in Nat /\ Due(now, list[i].time) <= Window
  <2> SUFFICES ASSUME NEW i \in 1 .. Len(list)
               PROVE  /\ list[i].time \in Times
                      /\ Due(now, list[i].time) \in Nat /\ Due(now, list[i].time) <= Window
    OBVIOUS
  <2>1. list[i].time \in Times
    <3>1. list[i] \in Timer
      OBVIOUS
    <3> QED BY <3>1 DEF Timer
  <2>2. Due(now, list[i].time) \in Times
    BY <2>1, DuePlaces
  <2>3. Due(now, list[i].time) <= Window
    BY DEF Sorted
  <2> QED BY <2>1, <2>2, <2>3, Sizes
<1>6. Due(now, time) \in Nat
  BY DuePlaces, Sizes
<1>7. \A i \in 1 .. Len(list) : i < pos => Due(now, list[i].time) <= Due(now, time)
  <2> SUFFICES ASSUME NEW i \in 1 .. Len(list), i < pos
               PROVE  Due(now, list[i].time) <= Due(now, time)
    OBVIOUS
  <2>1. i \notin later
    <3> HIDE DEF later, pos
    <3> QED BY <1>1, <1>4
  <2>2. ~TIME_LESS_THAN(time, list[i].time)
    BY <2>1
  <2>3. ~(Due(now, time) < Due(now, list[i].time))
    BY <1>5, <2>2, Less
  <2> QED BY <1>5, <1>6, <2>3
<1>8. \A j \in 1 .. Len(list) : j >= pos => Due(now, time) <= Due(now, list[j].time)
  <2> SUFFICES ASSUME NEW j \in 1 .. Len(list), j >= pos
               PROVE  Due(now, time) <= Due(now, list[j].time)
    OBVIOUS
  <2>1. pos \in 1 .. Len(list) /\ pos \in later
    <3> HIDE DEF later, pos
    <3> QED BY <1>1, <1>4
  <2>2. TIME_LESS_THAN(time, list[pos].time)
    <3> HIDE DEF pos
    <3> QED BY <2>1
  <2> HIDE DEF later, pos
  <2>3. Due(now, time) < Due(now, list[pos].time)
    BY <1>5, <2>1, <2>2, Less
  <2>4. Due(now, list[pos].time) <= Due(now, list[j].time)
    BY <1>5, <2>1 DEF Sorted
  <2> QED BY <1>5, <1>6, <2>1, <2>3, <2>4
<1> HIDE DEF later, pos, e, new
<1>9. /\ Len(new) = Len(list) + 1
      /\ \A i \in 1 .. Len(new) :
           new[i] = IF i < pos THEN list[i] ELSE IF i = pos THEN e ELSE list[i - 1]
  <2>1. With(list, pos, e, InsertAt(list, pos, e))
    BY <1>3, <1>4, Inserted
  <2>2. With(list, pos, e, new)
    BY <1>2, <2>1
  <2> QED BY <2>2 DEF With
<1>10. ASSUME NEW i \in 1 .. Len(new)
       PROVE  \/ i < pos /\ i \in 1 .. Len(list) /\ new[i] = list[i]
              \/ i = pos /\ new[i] = e
              \/ i > pos /\ i - 1 \in 1 .. Len(list) /\ i - 1 >= pos /\ new[i] = list[i - 1]
  BY <1>4, <1>9
<1>11. \A i \in 1 .. Len(new) : Due(now, new[i].time) <= Window
  BY <1>3, <1>5, <1>10
<1>12. ASSUME NEW i \in 1 .. Len(new), NEW j \in 1 .. Len(new), i < j
       PROVE  Due(now, new[i].time) <= Due(now, new[j].time)
  <2>1. CASE j < pos
    BY <1>4, <1>10, <1>12, <2>1 DEF Sorted
  <2>2. CASE j = pos
    BY <1>3, <1>4, <1>7, <1>10, <1>12, <2>2
  <2>3. CASE i = pos
    BY <1>3, <1>4, <1>8, <1>10, <1>12, <2>3
  <2>4. CASE i > pos
    <3>1. /\ i - 1 \in 1 .. Len(list) /\ j - 1 \in 1 .. Len(list) /\ i - 1 < j - 1
          /\ new[i] = list[i - 1] /\ new[j] = list[j - 1]
      BY <1>4, <1>10, <1>12, <2>4
    <3> QED BY <3>1 DEF Sorted
  <2>5. CASE i < pos /\ j > pos
    <3>1. i \in 1 .. Len(list) /\ j - 1 \in 1 .. Len(list) /\ i < j - 1
          /\ new[i] = list[i] /\ new[j] = list[j - 1]
      BY <1>4, <1>10, <2>5
    <3> QED BY <3>1 DEF Sorted
  <2> QED BY <1>4, <2>1, <2>2, <2>3, <2>4, <2>5
<1>13. \A i \in 1 .. Len(new) :
         new[i].time = time \/ \E k \in 1 .. Len(list) : new[i].time = list[k].time
  BY <1>3, <1>10
<1> QED BY <1>11, <1>12, <1>13 DEF Sorted, new

\* The order of a list as a step leaves it.
OrderNext(list) == Sorted(list, sys_now) /\ Near(list, sys_now, checking)

\* A timer set within an interval of now, and close to the start of a poll that runs.
LEMMA Restarted ==
  ASSUME NEW list \in Seq(Timer), Len(list) < MEMP_NUM_SYS_TIMEOUT, TypeOK, OrderNext(list),
         NEW time \in Times, Due(sys_now, time) <= Window, NEW h \in Handlers,
         checking # Idle => Gap(checking, sys_now) + Due(sys_now, time) <= MaxLag + Window
  PROVE  OrderNext(sys_timeout_abs(list, time, h))
<1> DEFINE new == sys_timeout_abs(list, time, h)
<1>1. /\ Sorted(new, sys_now)
      /\ \A i \in 1 .. Len(new) :
           new[i].time = time \/ \E k \in 1 .. Len(list) : new[i].time = list[k].time
  BY Placed DEF TypeOK, OrderNext
<1> HIDE DEF new
<1>2. Near(new, sys_now, checking)
  BY <1>1 DEF OrderNext, Near
<1> QED BY <1>1, <1>2 DEF OrderNext, new

\* sys_timeout: the place of a time that is one interval ahead.
LEMMA Ahead ==
  ASSUME TypeOK, NEW n \in {TCP_TMR_INTERVAL, IP_TMR_INTERVAL}
  PROVE  /\ (sys_now + n) % Range32 \in Times
         /\ Due(sys_now, (sys_now + n) % Range32) = MaxLag + n
         /\ MaxLag + n <= Window
<1>1. sys_now \in Times /\ n \in Nat /\ MaxLag + n <= Window /\ n < Range32
  BY Sizes DEF TypeOK, Window
<1>2. Due(sys_now, sys_now) = MaxLag
  BY <1>1, DuePlaces
<1>3. (sys_now + n) % Range32 \in Times
  BY <1>1, PlusMod
<1>4. Due(sys_now, (sys_now + n) % Range32) = MaxLag + n
  BY <1>1, <1>2, DueAfter
<1> QED BY <1>1, <1>3, <1>4
\* The list without its first timer.
LEMMA OrderOfRest ==
  ASSUME NEW list \in Seq(Timer), list # <<>>, OrderNext(list)
  PROVE  OrderNext(Tail(list))
<1>1. /\ Len(list) \in Nat /\ Len(Tail(list)) = Len(list) - 1
      /\ \A i \in 1 .. Len(Tail(list)) : i + 1 \in 1 .. Len(list) /\ Tail(list)[i] = list[i + 1]
  OBVIOUS
<1>2. Sorted(Tail(list), sys_now)
  <2>1. \A i \in 1 .. Len(Tail(list)) : Due(sys_now, Tail(list)[i].time) <= Window
    BY <1>1 DEF OrderNext, Sorted
  <2>2. ASSUME NEW i \in 1 .. Len(Tail(list)), NEW j \in 1 .. Len(Tail(list)), i < j
        PROVE  Due(sys_now, Tail(list)[i].time) <= Due(sys_now, Tail(list)[j].time)
    <3>1. /\ i + 1 \in 1 .. Len(list) /\ j + 1 \in 1 .. Len(list) /\ i + 1 < j + 1
          /\ Tail(list)[i] = list[i + 1] /\ Tail(list)[j] = list[j + 1]
      BY <1>1, <2>2
    <3> QED BY <3>1 DEF OrderNext, Sorted
  <2> QED BY <2>1, <2>2 DEF Sorted
<1>3. Near(Tail(list), sys_now, checking)
  BY <1>1 DEF OrderNext, Near
<1> QED BY <1>2, <1>3 DEF OrderNext

\* A poll handles a timer that the clock has passed, at most MaxLag after the poll
\* began, so that what its handler starts is ahead of both.
LEMMA TimerOrder ==
  ASSUME OrderInv, PollTimer
  PROVE  OrderNext(next_timeout')
<1> DEFINE rest == Tail(next_timeout)
           due == Head(next_timeout).time
           c == Gap(checking, sys_now)
           h == Head(next_timeout).h
<1>1. /\ next_timeout \in Seq(Timer) /\ Distinct(next_timeout) /\ next_timeout # <<>>
      /\ TypeOK /\ OrderNext(next_timeout) /\ checking # Idle
      /\ checking \in Times /\ sys_now \in Times
  BY ArmedAsHas DEF OrderInv, OrderNext, ArmedInv, TypeOK, PollTimer, Expired
<1>2. /\ rest \in Seq(Timer) /\ Distinct(rest) /\ ~Has(rest, h) /\ Head(next_timeout) \in Timer
      /\ OrderNext(rest)
  BY <1>1, FirstRemoved, OrderOfRest
<1>3. h \in Handlers /\ due \in Times
  BY <1>2 DEF Timer
<1>4. Len(rest) < MEMP_NUM_SYS_TIMEOUT
  BY <1>2, <1>3, RoomForOne
<1>5. c \in Nat /\ Due(sys_now, due) \in Nat /\ c + Due(sys_now, due) <= MaxLag
  <2>1. c \in Nat /\ Due(sys_now, due) \in Nat
    BY <1>1, <1>3, GapMod, DuePlaces, Sizes
  <2>2. 1 \in 1 .. Len(next_timeout) /\ Head(next_timeout) = next_timeout[1]
    BY <1>1
  <2>3. c + Due(sys_now, due) <= MaxLag + Window
    BY <1>1, <2>2 DEF OrderNext, Near
  <2>4. ~TIME_LESS_THAN(checking, due)
    BY DEF PollTimer, Expired
  <2> HIDE DEF due
  <2> QED BY <1>1, <1>3, <2>1, <2>3, <2>4, ExpiredAsDue
<1> HIDE DEF rest, due, c, h
<1>6. ASSUME NEW time \in Times, NEW n \in {TCP_TMR_INTERVAL, IP_TMR_INTERVAL},
             Due(sys_now, time) \in Nat, Due(sys_now, time) <= MaxLag + n
      PROVE  OrderNext(sys_timeout_abs(rest, time, h))
  <2>1. Due(sys_now, time) <= Window /\ c + Due(sys_now, time) <= MaxLag + Window
    BY <1>5, <1>6, Sizes DEF Window
  <2> QED BY <1>1, <1>2, <1>3, <1>4, <2>1, Restarted DEF c
<1>7. ASSUME NEW n \in {TCP_TMR_INTERVAL, IP_TMR_INTERVAL}
      PROVE  OrderNext(sys_timeout(rest, n, h))
  <2>1. /\ (sys_now + n) % Range32 \in Times
        /\ Due(sys_now, (sys_now + n) % Range32) = MaxLag + n
    BY <1>1, Ahead
  <2>2. MaxLag + n \in Nat /\ MaxLag + n <= MaxLag + n
    BY Sizes
  <2> QED BY <1>6, <2>1, <2>2 DEF sys_timeout
<1>8. CASE h = "tcp" /\ tcpip_tcp_timer(rest)
  <2>1. next_timeout' = rest \/ next_timeout' = sys_timeout(rest, TCP_TMR_INTERVAL, h)
    BY <1>8 DEF tcpip_tcp_timer
  <2> QED BY <1>2, <1>7, <2>1
<1>9. CASE h = "reass" /\ lwip_cyclic_timer(rest, due)
  <2> DEFINE next == (due + IP_TMR_INTERVAL) % Range32
  <2>1. next_timeout' = sys_timeout(rest, IP_TMR_INTERVAL, h)
        \/ next_timeout' = sys_timeout_abs(rest, next, h)
    BY <1>9 DEF lwip_cyclic_timer
  <2>2. /\ IP_TMR_INTERVAL \in Nat /\ IP_TMR_INTERVAL < Range32
        /\ Due(sys_now, due) + IP_TMR_INTERVAL <= MaxLag + IP_TMR_INTERVAL
        /\ Due(sys_now, due) + IP_TMR_INTERVAL <= Window
        /\ Due(sys_now, due) + IP_TMR_INTERVAL \in Nat
    BY <1>5, Sizes DEF Window
  <2>3. next \in Times
    BY <1>3, <2>2, PlusMod
  <2>4. Due(sys_now, next) = Due(sys_now, due) + IP_TMR_INTERVAL
    BY <1>1, <1>3, <2>2, DueAfter
  <2> HIDE DEF next
  <2>5. OrderNext(sys_timeout_abs(rest, next, h))
    BY <1>6, <2>2, <2>3, <2>4
  <2> QED BY <1>7, <2>1, <2>5
<1> QED BY <1>8, <1>9 DEF PollTimer, rest, due, h

\* Time passes: every timer comes nearer, and none falls out of the window, since a
\* poll is never later than MaxLag.
LEMMA ClockOrder ==
  ASSUME OrderInv, Clock
  PROVE  Sorted(next_timeout, sys_now') /\ Near(next_timeout, sys_now', checking)
<1> DEFINE D(i) == Due(sys_now, next_timeout[i].time)
           E(i) == Due(sys_now', next_timeout[i].time)
<1>1. /\ next_timeout \in Seq(Timer) /\ Has(next_timeout, "reass")
      /\ Sorted(next_timeout, sys_now) /\ Near(next_timeout, sys_now, checking)
      /\ sys_now \in Times /\ checking \in Times \cup {Idle}
      /\ sys_now' = (sys_now + 1) % Range32
  BY ArmedAsHas DEF OrderInv, ArmedInv, TypeOK, Clock
<1>2. 1 \in 1 .. Len(next_timeout) /\ next_timeout # <<>> /\ Head(next_timeout) = next_timeout[1]
  BY <1>1 DEF Has
<1>3. \A i \in 1 .. Len(next_timeout) : next_timeout[i].time \in Times
  <2>1. \A i \in 1 .. Len(next_timeout) : next_timeout[i] \in Timer
    BY <1>1
  <2> QED BY <2>1 DEF Timer
<1>4. \A i \in 1 .. Len(next_timeout) : D(i) \in Nat
  BY <1>1, <1>3, DuePlaces, Sizes
<1>5. D(1) # 0
  <2>1. (sys_now - next_timeout[1].time) % Range32 # MaxLag
    BY <1>2 DEF Clock
  <2> QED BY <1>1, <1>2, <1>3, <2>1, DuePlaces
<1>6. \A i \in 1 .. Len(next_timeout) : D(1) <= D(i)
  <2> SUFFICES ASSUME NEW i \in 1 .. Len(next_timeout) PROVE D(1) <= D(i)
    OBVIOUS
  <2>1. CASE i = 1
    BY <1>4, <2>1
  <2>2. CASE 1 < i
    BY <1>1, <1>2, <2>2 DEF Sorted
  <2> QED BY <2>1, <2>2
<1>7. \A i \in 1 .. Len(next_timeout) : D(i) > 0
  <2> HIDE DEF D
  <2> QED BY <1>2, <1>4, <1>5, <1>6
<1>8. \A i \in 1 .. Len(next_timeout) : E(i) = D(i) - 1
  BY <1>1, <1>3, <1>7, Tick
<1>9. /\ \A i \in 1 .. Len(next_timeout) : D(i) <= Window
      /\ \A i, j \in 1 .. Len(next_timeout) : i < j => D(i) <= D(j)
      /\ checking # Idle => \A i \in 1 .. Len(next_timeout) :
           Gap(checking, sys_now) + D(i) <= MaxLag + Window
  BY <1>1 DEF Sorted, Near
<1> HIDE DEF D, E
<1>10. /\ \A i \in 1 .. Len(next_timeout) : E(i) <= Window
       /\ \A i, j \in 1 .. Len(next_timeout) : i < j => E(i) <= E(j)
  BY <1>4, <1>8, <1>9, Sizes
<1>11. ASSUME checking # Idle, NEW i \in 1 .. Len(next_timeout)
       PROVE  Gap(checking, sys_now') + E(i) <= MaxLag + Window
  <2>1. checking \in Times
    BY <1>1, <1>11
  <2>2. Gap(checking, sys_now) \in Nat
    BY <1>1, <2>1, GapMod, Sizes
  <2>3. Gap(checking, sys_now) + 1 < Range32
    BY <1>4, <1>7, <1>9, <1>11, <2>2, Sizes DEF Window
  <2>4. Gap(checking, sys_now') = Gap(checking, sys_now) + 1
    BY <1>1, <2>1, <2>3, Tick
  <2> QED BY <1>4, <1>8, <1>9, <1>11, <2>2, <2>4
<1>12. Sorted(next_timeout, sys_now')
  BY <1>10 DEF Sorted, E
<1>13. Near(next_timeout, sys_now', checking)
  BY <1>11 DEF Near, E
<1> QED BY <1>12, <1>13

\* One timer, due in one interval.
LEMMA OrderInit == Init => OrderInv
<1> SUFFICES ASSUME Init PROVE OrderInv
  OBVIOUS
<1>1. ArmedInv /\ TypeOK
  BY ArmedInit DEF ArmedInv
<1> DEFINE time == (sys_now + IP_TMR_INTERVAL) % Range32
<1>2. Due(sys_now, time) <= Window /\ Due(sys_now, time) \in Nat
  <2>1. Due(sys_now, time) = MaxLag + IP_TMR_INTERVAL /\ MaxLag + IP_TMR_INTERVAL <= Window
    BY <1>1, Ahead
  <2> QED BY <2>1, Sizes
<1>3. next_timeout = <<[h |-> "reass", time |-> time]>> /\ checking = Idle
  BY DEF Init
<1> HIDE DEF time
<1>4. Len(next_timeout) = 1 /\ next_timeout[1].time = time
  BY <1>3
<1>5. Sorted(next_timeout, sys_now)
  BY <1>2, <1>4 DEF Sorted
<1>6. Near(next_timeout, sys_now, checking)
  BY <1>3 DEF Near
<1> QED BY <1>1, <1>5, <1>6 DEF OrderInv

\* Every step keeps the order of the list.
LEMMA OrderStep == OrderInv /\ [Next]_vars => OrderInv'
<1> SUFFICES ASSUME OrderInv, [Next]_vars PROVE OrderInv'
  OBVIOUS
<1>1. ArmedInv /\ ArmedInv' /\ TypeOK
  BY ArmedStep DEF OrderInv, ArmedInv
<1>2. /\ next_timeout \in Seq(Timer) /\ Distinct(next_timeout)
      /\ tcpip_tcp_timer_active <=> Has(next_timeout, "tcp")
      /\ Sorted(next_timeout, sys_now) /\ Near(next_timeout, sys_now, checking)
      /\ sys_now \in Times
  BY <1>1, ArmedAsHas DEF OrderInv, TypeOK
<1>3. ASSUME Sorted(next_timeout', sys_now'), Near(next_timeout', sys_now', checking')
      PROVE  OrderInv'
  BY <1>1, <1>3 DEF OrderInv
<1>4. CASE tcp_timer_needed
  <2>1. UNCHANGED <<sys_now, checking>>
    BY <1>4 DEF tcp_timer_needed
  <2>2. CASE tcpip_tcp_timer_active
    BY <1>2, <1>3, <1>4, <2>1, <2>2 DEF tcp_timer_needed
  <2>3. CASE ~tcpip_tcp_timer_active
    <3>1. next_timeout' = sys_timeout(next_timeout, TCP_TMR_INTERVAL, "tcp") /\ checking = Idle
      BY <1>4, <2>3 DEF tcp_timer_needed
    <3>2. "tcp" \in Handlers
      BY DEF Handlers
    <3>3. Len(next_timeout) < MEMP_NUM_SYS_TIMEOUT
      BY <1>2, <2>3, <3>2, RoomForOne
    <3>4. OrderNext(next_timeout)
      BY <1>2 DEF OrderNext
    <3> DEFINE time == (sys_now + TCP_TMR_INTERVAL) % Range32
    <3>5. time \in Times /\ Due(sys_now, time) <= Window
      BY <1>1, Ahead
    <3> HIDE DEF time
    <3>6. OrderNext(sys_timeout_abs(next_timeout, time, "tcp"))
      BY <1>1, <1>2, <3>1, <3>2, <3>3, <3>4, <3>5, Restarted
    <3>7. OrderNext(next_timeout')
      BY <3>1, <3>6 DEF sys_timeout, time
    <3> QED BY <1>3, <2>1, <3>7 DEF OrderNext
  <2> QED BY <2>2, <2>3
<1>5. CASE PollStart
  <2>1. Gap(sys_now, sys_now) = 0 /\ sys_now \in Nat
    BY <1>2, Sizes DEF Gap
  <2>2. \A i \in 1 .. Len(next_timeout) : Due(sys_now, next_timeout[i].time) \in Nat
    <3> SUFFICES ASSUME NEW i \in 1 .. Len(next_timeout)
                 PROVE  Due(sys_now, next_timeout[i].time) \in Nat
      OBVIOUS
    <3>1. next_timeout[i] \in Timer
      BY <1>2
    <3>2. next_timeout[i].time \in Times
      BY <3>1 DEF Timer
    <3> QED BY <1>2, <3>2, DuePlaces, Sizes
  <2>3. \A i \in 1 .. Len(next_timeout) : Due(sys_now, next_timeout[i].time) <= MaxLag + Window
    BY <1>2, <2>2, Sizes DEF Sorted
  <2>4. Near(next_timeout, sys_now, sys_now)
    BY <2>1, <2>2, <2>3 DEF Near
  <2> QED BY <1>2, <1>3, <1>5, <2>4 DEF PollStart
<1>6. CASE PollTimer
  <2>1. OrderNext(next_timeout') /\ UNCHANGED <<sys_now, checking>>
    BY <1>6, TimerOrder DEF PollTimer
  <2> QED BY <1>3, <2>1 DEF OrderNext
<1>7. CASE Clock
  <2>1. Sorted(next_timeout, sys_now') /\ Near(next_timeout, sys_now', checking)
    BY <1>7, ClockOrder
  <2> QED BY <1>3, <1>7, <2>1 DEF Clock
<1>8. CASE PollEnd
  <2>1. Near(next_timeout, sys_now, Idle)
    BY DEF Near
  <2> QED BY <1>2, <1>3, <1>8, <2>1 DEF PollEnd
<1>9. CASE tcp_pcb_remove \/ UNCHANGED vars
  BY <1>2, <1>3, <1>9 DEF tcp_pcb_remove, vars
<1> QED BY <1>4, <1>5, <1>6, <1>7, <1>8, <1>9 DEF Next

\* In a sorted window what has expired is in front.
LEMMA ExpiredInFront == OrderInv => ExpiredFirst
<1> SUFFICES ASSUME OrderInv, NEW i \in 1 .. Len(next_timeout), Passed(next_timeout[i].time)
             PROVE  Passed(Head(next_timeout).time)
  BY DEF ExpiredFirst
<1>1. next_timeout \in Seq(Timer) /\ sys_now \in Times /\ Sorted(next_timeout, sys_now)
  BY ArmedAsHas DEF OrderInv, ArmedInv, TypeOK
<1>2. 1 \in 1 .. Len(next_timeout) /\ Head(next_timeout) = next_timeout[1]
  BY <1>1
<1>3. next_timeout[i] \in Timer /\ next_timeout[1] \in Timer
  BY <1>1, <1>2
<1> DEFINE a == next_timeout[1].time
           b == next_timeout[i].time
<1>4. a \in Times /\ b \in Times
  BY <1>3 DEF Timer
<1>5. /\ Due(sys_now, a) <= Window /\ Due(sys_now, b) <= Window
      /\ 1 < i => Due(sys_now, a) <= Due(sys_now, b)
  BY <1>1, <1>2 DEF Sorted
<1>6. \A t \in Times : Passed(t) <=> ~TIME_LESS_THAN(sys_now, t)
  BY <1>1, GapMod, Sizes DEF Passed, TIME_LESS_THAN
<1>7. /\ Due(sys_now, a) \in Nat /\ Due(sys_now, b) \in Nat /\ MaxLag \in Nat
      /\ Passed(a) <=> Due(sys_now, a) <= MaxLag
      /\ Passed(b) <=> Due(sys_now, b) <= MaxLag
  BY <1>1, <1>4, <1>5, <1>6, PassedAsDue, DuePlaces, Sizes
<1>8. CASE i = 1
  BY <1>2, <1>8
<1>9. CASE 1 < i
  <2> HIDE DEF a, b
  <2>1. Passed(b)
    BY DEF b
  <2>2. Passed(a)
    BY <1>5, <1>7, <1>9, <2>1
  <2> QED BY <1>2, <2>2 DEF a
<1> QED BY <1>8, <1>9

\* sys_check_timeouts may stop at the first timer that has not expired, also where
\* the clock wraps between two timers: none behind it has expired.
THEOREM FirstExpiresFirst == Spec => []ExpiredFirst
BY OrderInit, OrderStep, ExpiredInFront, PTL DEF Spec
=============================================================================
