-------------------------- MODULE WSCascadeProofs --------------------------
(***************************************************************************)
(* For every number of endpoints and frames: TryState.claim is enough to   *)
(* keep the cascade from forking, and the first endpoint is given all of   *)
(* the session's frames.                                                   *)
(***************************************************************************)
EXTENDS WSCascade, Induction, TLAPS

ForkType ==
  /\ starts \in [Attempts -> Nat]
  /\ claimed \in [Attempts -> BOOLEAN]
  /\ moving \in [Attempts -> {"no", "claimed", "cleared", "set"}]

\* A thread goes on from an attempt only after it has claimed it.
MovesWhenClaimed == \A i \in Attempts : moving[i] # "no" => claimed[i] = TRUE

\* An attempt that nobody has claimed, or whose claimer has not got as far as
\* tryConnect, has no successor.
NoSuccessorYet ==
  \A i \in Attempts :
    i + 1 \in Attempts /\ (claimed[i] = FALSE \/ moving[i] \in {"claimed", "cleared"})
      => starts[i + 1] = 0

\* NoFork alone is not inductive: it says nothing of the threads that are about
\* to start the next attempt.
Unforked ==
  /\ ForkType
  /\ endpoints = <<>> => starts[1] = 0
  /\ MovesWhenClaimed
  /\ NoSuccessorYet
  /\ NoFork

forkVars == <<endpoints, starts, claimed, moving>>

\* Before connect() no attempt has been started.
LEMMA UnforkedInit == Init => Unforked
BY CascadeAssumption
   DEF Init, Unforked, ForkType, MovesWhenClaimed, NoSuccessorYet, NoFork, Attempts

\* Steps that start nothing and claim nothing.
LEMMA UnforkedSame ==
  ASSUME Unforked, UNCHANGED forkVars
  PROVE  Unforked'
BY DEF forkVars, Unforked, ForkType, MovesWhenClaimed, NoSuccessorYet, NoFork

\* A claim that starts nothing: data or an error after data.
LEMMA UnforkedClaim ==
  ASSUME Unforked, NEW i \in Attempts,
         claimed' = [claimed EXCEPT ![i] = TRUE], UNCHANGED <<endpoints, starts, moving>>
  PROVE  Unforked'
BY DEF Unforked, ForkType, MovesWhenClaimed, NoSuccessorYet, NoFork

\* The claim of a thread that will go on: it finds the attempt unclaimed, so the
\* attempt has no successor.
LEMMA UnforkedClaimAndMove ==
  ASSUME Unforked, NEW i \in Attempts, claimed[i] = FALSE,
         claimed' = [claimed EXCEPT ![i] = TRUE],
         moving' = [moving EXCEPT ![i] = "claimed"], UNCHANGED <<endpoints, starts>>
  PROVE  Unforked'
BY DEF Unforked, ForkType, MovesWhenClaimed, NoSuccessorYet, NoFork

\* connect() starts the first attempt, once, or none.
LEMMA UnforkedConnect ==
  ASSUME Unforked, connect
  PROVE  Unforked'
<1>0. CASE endpoints' = <<>>
  BY <1>0, UnforkedSame DEF connect, forkVars
<1>1. 1 \in Attempts /\ \A i \in Attempts : i + 1 # 1
  BY CascadeAssumption DEF Attempts
<1>3. SUFFICES ASSUME endpoints' # <<>> PROVE Unforked'
  BY <1>0
<1>2. /\ starts[1] = 0
      /\ starts' = [starts EXCEPT ![1] = @ + 1]
      /\ UNCHANGED <<claimed, moving>>
  BY <1>3 DEF connect, Unforked
<1>4. ForkType' /\ NoFork' /\ MovesWhenClaimed'
  BY <1>1, <1>2 DEF Unforked, ForkType, NoFork, MovesWhenClaimed
<1>5. NoSuccessorYet'
  BY <1>1, <1>2 DEF Unforked, ForkType, NoSuccessorYet
<1> QED BY <1>3, <1>4, <1>5 DEF Unforked

\* The steps of a thread between two attempts.
LEMMA UnforkedMove ==
  ASSUME Unforked, NEW i \in Attempts, Move(i)
  PROVE  Unforked'
<1> USE CascadeAssumption DEF Unforked, Attempts
<1>1. CASE ClearTask(i)
  BY <1>1 DEF ClearTask, ForkType, MovesWhenClaimed, NoSuccessorYet, NoFork
<1>2. CASE tryConnect(i)
  <2>1. /\ moving[i] = "cleared"
        /\ UNCHANGED <<endpoints, claimed>>
    BY <1>2 DEF tryConnect
  <2>2. CASE starts' = starts /\ moving' = [moving EXCEPT ![i] = "no"]
    BY <2>1, <2>2 DEF ForkType, MovesWhenClaimed, NoSuccessorYet, NoFork
  <2>3. CASE /\ starts' = [starts EXCEPT ![i + 1] = @ + 1]
             /\ moving' = [moving EXCEPT ![i] = "set"]
    <3>1. i + 1 \in Attempts => starts[i + 1] = 0
      BY <2>1 DEF NoSuccessorYet
    <3>2. ForkType' /\ MovesWhenClaimed'
      <4>1. \A j \in Attempts : starts'[j] \in Nat
        BY <2>3 DEF ForkType
      <4>2. starts' \in [Attempts -> Nat]
        BY <2>3, <4>1 DEF ForkType
      <4>3. /\ claimed' \in [Attempts -> BOOLEAN]
            /\ moving' \in [Attempts -> {"no", "claimed", "cleared", "set"}]
        BY <2>1, <2>3 DEF ForkType
      <4>4. MovesWhenClaimed'
        BY <2>1, <2>3 DEF ForkType, MovesWhenClaimed
      <4> QED BY <4>2, <4>3, <4>4 DEF ForkType
    <3>3. NoFork'
      BY <2>3, <3>1 DEF ForkType, NoFork
    <3>4. NoSuccessorYet'
      BY <2>1, <2>3 DEF ForkType, MovesWhenClaimed, NoSuccessorYet
    <3>5. endpoints' = <<>> => starts'[1] = 0
      BY <2>1, <2>3 DEF ForkType
    <3> QED BY <3>2, <3>3, <3>4, <3>5
  <2> QED BY <1>2, <2>2, <2>3 DEF tryConnect
<1>3. CASE ArmNext(i)
  BY <1>3 DEF ArmNext, ForkType, MovesWhenClaimed, NoSuccessorYet, NoFork
<1> QED BY <1>1, <1>2, <1>3 DEF Move

\* However failed receives, timers and late data race, no endpoint of a cascade is
\* tried twice: claim() lets one of them through per attempt.
THEOREM CascadeNeverForks == Spec => []NoFork
<1>1. Unforked /\ [Next]_vars => Unforked'
  <2> SUFFICES ASSUME Unforked, [Next]_vars PROVE Unforked'
    OBVIOUS
  <2>1. CASE UNCHANGED vars
    BY <2>1, UnforkedSame DEF vars, forkVars
  <2>2. CASE connect
    BY <2>2, UnforkedConnect
  <2>3. CASE send \/ close
    BY <2>3, UnforkedSame DEF send, close, forkVars
  <2>4. ASSUME NEW i \in Attempts, Callback(i) PROVE Unforked'
    <3>1. CASE InitSent(i) \/ LoopFails(i) \/ \E isData \in BOOLEAN : LoopReceives(i, isData)
      BY <3>1, UnforkedSame DEF InitSent, LoopFails, LoopReceives, forkVars
    <3>2. CASE \E isData \in BOOLEAN : ReceiveFirst(i, isData)
      BY <3>2, UnforkedClaim DEF ReceiveFirst
    <3>3. CASE ReceiveFails(i)
      <4>1. /\ claimed' = [claimed EXCEPT ![i] = TRUE]
            /\ UNCHANGED <<endpoints, starts>>
        BY <3>3 DEF ReceiveFails
      <4>2. claimed[i] \in BOOLEAN
        BY DEF Unforked, ForkType
      <4>3. CASE UNCHANGED moving
        BY <4>1, <4>3, UnforkedClaim
      <4>4. CASE claimed[i] = FALSE /\ moving' = [moving EXCEPT ![i] = "claimed"]
        BY <4>1, <4>4, UnforkedClaimAndMove
      <4> QED BY <3>3, <4>2, <4>3, <4>4 DEF ReceiveFails
    <3> QED BY <2>4, <3>1, <3>2, <3>3 DEF Callback
  <2>5. ASSUME NEW i \in Attempts, Timer(i) PROVE Unforked'
    <3>1. CASE TimerReads(i)
      BY <3>1, UnforkedSame DEF TimerReads, forkVars
    <3>2. CASE TimerClaims(i)
      <4>1. claimed[i] \in BOOLEAN /\ UNCHANGED <<endpoints, starts>>
        BY <3>2 DEF TimerClaims, Unforked, ForkType
      <4>2. CASE claimed[i] = TRUE
        BY <3>2, <4>1, <4>2, UnforkedSame DEF TimerClaims, forkVars
      <4>3. CASE claimed[i] = FALSE
        BY <3>2, <4>1, <4>3, UnforkedClaimAndMove DEF TimerClaims
      <4> QED BY <4>1, <4>2, <4>3
    <3> QED BY <2>5, <3>1, <3>2 DEF Timer
  <2>6. ASSUME NEW i \in Attempts, Move(i) PROVE Unforked'
    BY <2>6, UnforkedMove
  <2>7. ASSUME NEW i \in Attempts, Opens(i) \/ Breaks(i) \/ Answers(i) PROVE Unforked'
    BY <2>7, UnforkedSame DEF Opens, Breaks, Answers, NetStep, forkVars
  <2> QED BY <2>1, <2>2, <2>3, <2>4, <2>5, <2>6, <2>7 DEF Next
<1>2. Unforked => NoFork
  BY DEF Unforked
<1> QED BY <1>1, <1>2, UnforkedInit, PTL DEF Spec

-----------------------------------------------------------------------------
(* The first endpoint *)

\* UpstreamComplete says nothing of the time before connect(); what is needed of
\* it is that no frame can have gone to attempt 1 by then.
Complete ==
  /\ net \in [Attempts -> {"none", "connecting", "open", "broken"}]
  /\ wire \in [Attempts -> Seq(Nat)]
  /\ sends \in Nat
  /\ endpoints = <<>> => task # 1 /\ sends = 0 /\ wire[1] = <<>>
  /\ UpstreamComplete

\* Nothing has been sent before connect().
LEMMA CompleteInit == Init => Complete
BY CascadeAssumption DEF Init, Complete, UpstreamComplete, Attempts

\* Steps that send nothing and do not change what self.task is, except to nil: a
\* connection may open or break, but attempt 1 does not come back.
LEMMA CompleteSame ==
  ASSUME Complete, UNCHANGED <<endpoints, wire, sends>>,
         task' = task \/ task' = 0,
         net' \in [Attempts -> {"none", "connecting", "open", "broken"}],
         net[1] = "broken" => net'[1] = "broken"
  PROVE  Complete'
BY DEF Complete, UpstreamComplete

\* A frame for another attempt leaves the wire of attempt 1 alone.
LEMMA OnWireOther ==
  ASSUME NEW w \in [Attempts -> Seq(Nat)], NEW n, NEW i, i # 1, NEW frame \in Nat
  PROVE  /\ OnWire(w, n, i, frame) \in [Attempts -> Seq(Nat)]
         /\ OnWire(w, n, i, frame)[1] = w[1]
<1>1. 1 \in Attempts
  BY CascadeAssumption DEF Attempts
<1>2. CASE n[i] = "broken" \/ i \notin Attempts
  BY <1>1, <1>2 DEF OnWire
<1>3. CASE n[i] # "broken" /\ i \in Attempts
  <2>1. Append(w[i], frame) \in Seq(Nat)
    BY <1>3
  <2> QED BY <1>1, <1>3, <2>1 DEF OnWire
<1> QED BY <1>2, <1>3

\* The frames 0 .. n - 1, and one more.
LEMMA OneMoreFrame ==
  ASSUME NEW n \in Nat, NEW s \in Seq(Nat), s = [k \in 1 .. n |-> k - 1]
  PROVE  Append(s, n) = [k \in 1 .. n + 1 |-> k - 1]
<1>1. Len(s) = n
  OBVIOUS
<1>2. Append(s, n) = [k \in 1 .. n + 1 |-> IF k = n + 1 THEN n ELSE s[k]]
  BY <1>1
<1> QED BY <1>2

\* connect(): the init goes to attempt 1, whatever the health cache left out.
LEMMA CompleteConnect ==
  ASSUME Complete, connect
  PROVE  Complete'
<1>0. CASE endpoints' = <<>>
  BY <1>0 DEF connect, Complete, UpstreamComplete
<1>1. 1 \in Attempts
  BY CascadeAssumption DEF Attempts
<1>4. SUFFICES ASSUME endpoints' # <<>> PROVE Complete'
  BY <1>0
<1>2. /\ net' = [net EXCEPT ![1] = "connecting"]
      /\ wire' = OnWire(wire, net', 1, 0)
      /\ endpoints = <<>> /\ sends' = sends /\ task' = 1
  BY <1>4 DEF connect, Arm
<1>3. wire' = [wire EXCEPT ![1] = <<0>>]
  <2>1. net'[1] = "connecting" /\ wire[1] = <<>> /\ Append(<<>>, 0) = <<0>>
    BY <1>1, <1>2 DEF Complete
  <2> QED BY <1>2, <2>1 DEF OnWire
<1>5. <<0>> = [k \in 1 .. 0 + 1 |-> k - 1]
  OBVIOUS
<1>6. wire' \in [Attempts -> Seq(Nat)] /\ wire'[1] = <<0>> /\ sends = 0
  <2>1. <<0>> \in Seq(Nat)
    OBVIOUS
  <2> QED BY <1>1, <1>2, <1>3, <2>1 DEF Complete
<1> QED BY <1>1, <1>2, <1>4, <1>5, <1>6 DEF Complete, UpstreamComplete

\* send(): the frame goes behind the others, or to a later attempt, or nowhere.
LEMMA CompleteSend ==
  ASSUME Complete, send
  PROVE  Complete'
<1>1. 1 \in Attempts
  BY CascadeAssumption DEF Attempts
<1>2. /\ endpoints # <<>> /\ sends' = sends + 1
      /\ wire' = IF task = 0 THEN wire ELSE OnWire(wire, net, task, sends')
      /\ UNCHANGED <<endpoints, net, task>>
  BY DEF send
<1>3. CASE task = 1
  <2>1. CASE net[1] = "broken"
    BY <1>2, <1>3, <2>1 DEF OnWire, Complete, UpstreamComplete
  <2>2. CASE net[1] # "broken"
    <3>1. wire' = [wire EXCEPT ![1] = Append(@, sends + 1)]
      BY <1>2, <1>3, <2>2 DEF OnWire
    <3>2. wire[1] = [k \in 1 .. sends + 1 |-> k - 1]
      BY <1>3, <2>2 DEF Complete, UpstreamComplete
    <3>3. wire'[1] = [k \in 1 .. sends' + 1 |-> k - 1]
      <4>1. wire[1] \in Seq(Nat) /\ sends + 1 \in Nat /\ wire'[1] = Append(wire[1], sends + 1)
        BY <1>1, <3>1 DEF Complete
      <4> QED BY <1>2, <3>2, <4>1, OneMoreFrame
    <3>4. wire' \in [Attempts -> Seq(Nat)]
      <4>1. Append(wire[1], sends + 1) \in Seq(Nat)
        BY <1>1 DEF Complete
      <4> QED BY <3>1, <4>1 DEF Complete
    <3> QED BY <1>2, <3>3, <3>4 DEF Complete, UpstreamComplete
  <2> QED BY <2>1, <2>2
<1>4. CASE task # 1
  <2>1. wire' \in [Attempts -> Seq(Nat)]
    <3>1. wire \in [Attempts -> Seq(Nat)] /\ sends' \in Nat
      BY <1>2 DEF Complete
    <3>2. CASE task = 0
      BY <1>2, <3>1, <3>2
    <3>3. CASE task # 0
      BY <1>2, <1>4, <3>1, <3>3, OnWireOther
    <3> QED BY <3>2, <3>3
  <2> QED BY <1>2, <1>4, <2>1 DEF Complete, UpstreamComplete
<1> QED BY <1>3, <1>4

\* The steps between two attempts are about a later one: none of them brings
\* attempt 1 back, and none sends anything to it.
LEMMA CompleteMove ==
  ASSUME Complete, NEW i \in Attempts, Move(i)
  PROVE  Complete'
<1>1. 1 \in Attempts /\ i + 1 # 1 /\ i \in Nat
  BY CascadeAssumption DEF Attempts
<1>2. CASE ClearTask(i)
  BY <1>2, CompleteSame DEF ClearTask, Complete
<1>3. CASE tryConnect(i)
  <2>1. UNCHANGED <<endpoints, wire, sends>>
    BY <1>3 DEF tryConnect
  <2>2. CASE UNCHANGED <<task, net>>
    BY <2>1, <2>2, CompleteSame DEF Complete
  <2>3. CASE task' = i + 1 /\ net' = [net EXCEPT ![i + 1] = "connecting"]
    BY <1>1, <2>1, <2>3 DEF Complete, UpstreamComplete
  <2> QED BY <1>3, <2>2, <2>3 DEF tryConnect
<1>4. CASE ArmNext(i)
  <2>1. UNCHANGED <<endpoints, task, net, sends>> /\ wire' = OnWire(wire, net, i + 1, 0)
    BY <1>4 DEF ArmNext, Arm
  <2>2. wire' \in [Attempts -> Seq(Nat)] /\ wire'[1] = wire[1]
    BY <1>1, <2>1, OnWireOther DEF Complete
  <2> QED BY <2>1, <2>2 DEF Complete, UpstreamComplete
<1> QED BY <1>2, <1>3, <1>4 DEF Move

\* WSClient.send hands a frame to the task before the handshake is over, and no
\* thread on its way to the next endpoint gets between: as long as the first
\* endpoint is the current one and stands, it has the init and all frames in order.
THEOREM FirstEndpointGetsAll == Spec => []UpstreamComplete
<1>1. Complete /\ [Next]_vars => Complete'
  <2> SUFFICES ASSUME Complete, [Next]_vars PROVE Complete'
    OBVIOUS
  <2>0. net \in [Attempts -> {"none", "connecting", "open", "broken"}] /\ 1 \in Attempts
    BY CascadeAssumption DEF Complete, Attempts
  <2>1. CASE UNCHANGED vars
    BY <2>0, <2>1, CompleteSame DEF vars
  <2>2. CASE connect
    BY <2>2, CompleteConnect
  <2>3. CASE send
    BY <2>3, CompleteSend
  <2>4. CASE close
    BY <2>0, <2>4, CompleteSame DEF close
  <2>5. ASSUME NEW i \in Attempts, Callback(i) PROVE Complete'
    <3>1. CASE InitSent(i) \/ LoopFails(i) \/ \E isData \in BOOLEAN : LoopReceives(i, isData)
      BY <2>0, <3>1, CompleteSame DEF InitSent, LoopFails, LoopReceives
    <3>2. CASE \E isData \in BOOLEAN : ReceiveFirst(i, isData)
      BY <2>0, <3>2, CompleteSame DEF ReceiveFirst
    <3>3. CASE ReceiveFails(i)
      BY <2>0, <3>3, CompleteSame DEF ReceiveFails
    <3> QED BY <2>5, <3>1, <3>2, <3>3 DEF Callback
  <2>6. ASSUME NEW i \in Attempts, Timer(i) PROVE Complete'
    BY <2>0, <2>6, CompleteSame DEF Timer, TimerReads, TimerClaims
  <2>7. ASSUME NEW i \in Attempts, Move(i) PROVE Complete'
    BY <2>7, CompleteMove
  <2>8. ASSUME NEW i \in Attempts, Opens(i) \/ Breaks(i) \/ Answers(i) PROVE Complete'
    BY <2>0, <2>8, CompleteSame DEF Opens, Breaks, Answers, NetStep
  <2> QED BY <2>1, <2>2, <2>3, <2>4, <2>5, <2>6, <2>7, <2>8 DEF Next
<1>2. Complete => UpstreamComplete
  BY DEF Complete
<1> QED BY <1>1, <1>2, CompleteInit, PTL DEF Spec

-----------------------------------------------------------------------------
(* Types: attempts stay inside the list of endpoints *)

\* Whatever acts for an attempt, it is in the list, and a thread that has started
\* the next one had one to start.
Placed ==
  \A i \in Attempts :
    /\ receives[i] # <<>> \/ timer[i] # "off" \/ moving[i] # "no" => i <= Len(endpoints)
    /\ moving[i] = "set" => i < Len(endpoints)
    /\ inbox[i] <= down[i]

Flags ==
  /\ claimed \in [Attempts -> BOOLEAN]
  /\ delivered \in [Attempts -> BOOLEAN]
  /\ firstRecv \in BOOLEAN
  /\ closed \in BOOLEAN

\* TypeOK without the flags.
DataType ==
  /\ endpoints \in Seq(Attempts) /\ Len(endpoints) <= Hosts
  /\ deadUntil \subseteq Attempts
  /\ task \in 0 .. Len(endpoints)
  /\ net \in [Attempts -> {"none", "connecting", "open", "broken"}]
  /\ wire \in [Attempts -> Seq(0 .. MaxSends)]
  /\ timer \in [Attempts -> {"off", "on", "passed"}]
  /\ receives \in [Attempts -> Seq({"first", "loop"})]
  /\ inbox \in [Attempts -> 0 .. MaxDown]
  /\ down \in [Attempts -> 0 .. MaxDown]
  /\ moving \in [Attempts -> {"no", "claimed", "cleared", "set"}]
  /\ mover \in [Attempts -> {"delegate", "timer"}]
  /\ starts \in [Attempts -> Nat]
  /\ got \in Seq(Attempts)
  /\ closes \in Nat
  /\ sends \in 0 .. MaxSends

Typed == DataType /\ Placed

\* Flags are only ever set to TRUE or FALSE.
LEMMA FlagsStep == Flags /\ [Next]_vars => Flags'
<1> SUFFICES ASSUME Flags, [Next]_vars PROVE Flags'
  OBVIOUS
<1>1. \/ UNCHANGED <<claimed, delivered, firstRecv, closed>>
      \/ closed' = TRUE /\ UNCHANGED <<claimed, delivered, firstRecv>>
      \/ \E i \in Attempts :
           \/ claimed' = [claimed EXCEPT ![i] = TRUE] /\ UNCHANGED <<delivered, firstRecv, closed>>
           \/ /\ claimed' = [claimed EXCEPT ![i] = TRUE] /\ firstRecv' = TRUE
              /\ UNCHANGED <<delivered, closed>>
           \/ delivered' = [delivered EXCEPT ![i] = TRUE] /\ UNCHANGED <<claimed, firstRecv, closed>>
      \/ firstRecv' = TRUE /\ UNCHANGED <<claimed, delivered, closed>>
  <2>1. CASE UNCHANGED vars
    BY <2>1 DEF vars
  <2>2. CASE connect \/ send \/ close
    BY <2>2 DEF connect, send, close
  <2>3. ASSUME NEW i \in Attempts, Callback(i)
        PROVE  \/ claimed' = [claimed EXCEPT ![i] = TRUE] /\ UNCHANGED <<delivered, firstRecv, closed>>
               \/ /\ claimed' = [claimed EXCEPT ![i] = TRUE] /\ firstRecv' = TRUE
                  /\ UNCHANGED <<delivered, closed>>
               \/ delivered' = [delivered EXCEPT ![i] = TRUE] /\ UNCHANGED <<claimed, firstRecv, closed>>
               \/ UNCHANGED <<claimed, delivered, firstRecv, closed>>
               \/ firstRecv' = TRUE /\ UNCHANGED <<claimed, delivered, closed>>
    BY <2>3 DEF Callback, InitSent, ReceiveFails, LoopFails, ReceiveFirst, LoopReceives
  <2>4. ASSUME NEW i \in Attempts, Timer(i) \/ Move(i) \/ Opens(i) \/ Breaks(i) \/ Answers(i)
        PROVE  \/ claimed' = [claimed EXCEPT ![i] = TRUE] /\ UNCHANGED <<delivered, firstRecv, closed>>
               \/ UNCHANGED <<claimed, delivered, firstRecv, closed>>
    BY <2>4 DEF Timer, Move, TimerReads, TimerClaims, ClearTask, tryConnect, ArmNext, Opens, Breaks,
                Answers, NetStep
  <2> QED BY <2>1, <2>2, <2>3, <2>4, Zenon DEF Next
<1> QED BY <1>1, Zenon DEF Flags

\* What the arithmetic of attempts comes to.
LEMMA AttemptFacts ==
  /\ Hosts \in Nat /\ MaxDown \in Nat /\ MaxSends \in Nat /\ 1 \in Attempts
  /\ \A i \in Attempts : i \in Nat /\ 1 <= i /\ i <= Hosts
  /\ \A i \in Nat : 1 <= i /\ i <= Hosts => i \in Attempts
BY CascadeAssumption DEF Attempts

\* One more start of an attempt.
LEMMA CountsUp ==
  ASSUME NEW f \in [Attempts -> Nat], NEW i \in Attempts
  PROVE  [f EXCEPT ![i] = @ + 1] \in [Attempts -> Nat]
<1>1. f[i] + 1 \in Nat
  OBVIOUS
<1> QED BY <1>1

\* An attempt that is in the list has an endpoint, and the current one is an attempt.
LEMMA InList ==
  ASSUME DataType
  PROVE  /\ Len(endpoints) \in Nat
         /\ \A i \in Attempts : i <= Len(endpoints) => endpoints[i] \in Attempts
         /\ task # 0 => task \in Attempts /\ task <= Len(endpoints)
<1>1. endpoints \in Seq(Attempts) /\ Len(endpoints) <= Hosts /\ task \in 0 .. Len(endpoints)
  BY DEF DataType
<1> QED BY <1>1, AttemptFacts

\* Endpoints are listed, and not more than there are.
LEMMA ListedType ==
  ASSUME NEW E
  PROVE  Listed(E) \in Seq(Attempts) /\ Len(Listed(E)) <= Hosts
<1> DEFINE S == Seq(Attempts)
           step == [h \in 1 .. Hosts |-> [s \in S |-> IF h \in E THEN Append(s, h) ELSE s]]
           upTo == CHOOSE f : f = [h \in 0 .. Hosts |->
                     IF h = 0 THEN <<>>
                     ELSE IF h \in E THEN Append(f[h - 1], h) ELSE f[h - 1]]
<1>1. Hosts \in Nat /\ <<>> \in S /\ step \in [1 .. Hosts -> [S -> S]]
  <2>1. Hosts \in Nat /\ <<>> \in S
    BY CascadeAssumption
  <2>2. ASSUME NEW h \in 1 .. Hosts, NEW s \in Seq(Attempts) PROVE Append(s, h) \in Seq(Attempts)
    BY DEF Attempts
  <2> QED BY <2>1, <2>2
<1>2. PICK g \in [0 .. Hosts -> S] : IsLoop(g, Hosts, <<>>, step)
  <2> HIDE DEF S, step
  <2> QED BY <1>1, LoopExists
<1>3. g = [h \in 0 .. Hosts |->
             IF h = 0 THEN <<>>
             ELSE IF h \in E THEN Append(g[h - 1], h) ELSE g[h - 1]]
  <2>1. ASSUME NEW h \in 1 .. Hosts
        PROVE  g[h] = IF h \in E THEN Append(g[h - 1], h) ELSE g[h - 1]
    <3>1. g[h] = step[h][g[h - 1]] /\ g[h - 1] \in S
      <4> HIDE DEF step, S
      <4> QED BY <1>1, <1>2 DEF IsLoop
    <3> QED BY <3>1
  <2>2. g[0] = <<>>
    BY <1>2 DEF IsLoop
  <2>3. \A h \in 0 .. Hosts : h = 0 \/ h \in 1 .. Hosts
    BY <1>1
  <2> HIDE DEF S, step
  <2> QED BY <2>1, <2>2, <2>3
<1>4. upTo = [h \in 0 .. Hosts |->
                IF h = 0 THEN <<>>
                ELSE IF h \in E THEN Append(upTo[h - 1], h) ELSE upTo[h - 1]]
  BY <1>3
<1>5. Listed(E) = upTo[Hosts]
  BY DEF Listed
<1> HIDE DEF upTo
<1> DEFINE P == {h \in 0 .. Hosts : upTo[h] \in Seq(Attempts) /\ Len(upTo[h]) <= h}
<1>6. 0 \in P
  BY <1>1, <1>4
<1>7. ASSUME NEW h \in 0 .. Hosts - 1, h \in P PROVE h + 1 \in P
  <2>1. upTo[h + 1] = IF h + 1 \in E THEN Append(upTo[h], h + 1) ELSE upTo[h]
    <3>1. h + 1 \in 0 .. Hosts /\ h + 1 # 0 /\ (h + 1) - 1 = h
      BY <1>1
    <3> QED BY <1>4, <3>1
  <2>2. h + 1 \in Attempts /\ upTo[h] \in Seq(Attempts) /\ Len(upTo[h]) <= h
    BY <1>1, <1>7 DEF Attempts
  <2>3. upTo[h + 1] \in Seq(Attempts) /\ Len(upTo[h + 1]) <= h + 1
    BY <2>1, <2>2
  <2> QED BY <1>1, <2>3
<1>8. \A h \in 0 .. Hosts : h \in P
  <2> HIDE DEF P
  <2> QED BY <1>1, <1>6, <1>7, InductionUpTo
<1> QED BY <1>1, <1>5, <1>8

\* The state before connect().
LEMMA TypedInit == Init => Flags /\ Typed
<1> SUFFICES ASSUME Init PROVE Flags /\ DataType /\ Placed
  BY DEF Typed
<1>1. Flags
  BY Zenon DEF Init, Flags
<1>2. DataType
  BY CascadeAssumption DEF Init, DataType
<1>3. Placed
  BY DEF Init, Placed
<1> QED BY <1>1, <1>2, <1>3

\* connect(): if an endpoint is listed attempt 1 begins, and if none is nothing does.
LEMMA TypedConnect ==
  ASSUME Typed, connect
  PROVE  Typed'
<1> USE DEF Typed
<1>1. 1 \in Attempts /\ Hosts \in Nat /\ Attempts = 1 .. Hosts /\ 0 \in 0 .. MaxSends
  BY CascadeAssumption DEF Attempts
<1>0. CASE endpoints' = <<>>
  <2>1. closes' = 1 /\ UNCHANGED <<task, starts, net, wire, receives, timer>>
    BY <1>0 DEF connect
  <2>2. /\ endpoints = <<>>
        /\ UNCHANGED <<deadUntil, claimed, delivered, inbox, down, moving, mover, firstRecv, got,
                       sends, closed>>
    BY DEF connect
  <2>3. DataType'
    BY <1>0, <2>1, <2>2 DEF DataType
  <2>4. Placed'
    BY <1>0, <2>1, <2>2, <1>1 DEF Placed, DataType
  <2> QED BY <2>3, <2>4
<1>10. SUFFICES ASSUME endpoints' # <<>> PROVE Typed'
  BY <1>0
<1>2. endpoints = <<>> /\ endpoints' \in Seq(Attempts) /\ Len(endpoints') \in 1 .. Hosts
  <2>1. endpoints = <<>>
    BY DEF connect
  <2>2. PICK noURL \in SUBSET Attempts :
          endpoints' = Listed((IF aliveOnly = {} THEN Attempts ELSE aliveOnly) \ noURL)
    BY Zenon DEF connect
  <2>3. endpoints' \in Seq(Attempts) /\ Len(endpoints') <= Hosts
    BY <2>2, ListedType
  <2> QED BY <1>1, <1>10, <2>1, <2>3
<1>11. Arm(1, net')
  BY Zenon, <1>10 DEF connect
<1>3. wire' \in [Attempts -> Seq(0 .. MaxSends)]
  <2>1. wire \in [Attempts -> Seq(0 .. MaxSends)] /\ Append(wire[1], 0) \in Seq(0 .. MaxSends)
    BY <1>1 DEF DataType
  <2>2. wire' = wire \/ wire' = [wire EXCEPT ![1] = Append(@, 0)]
    BY <1>11 DEF Arm, OnWire
  <2> QED BY <1>1, <2>1, <2>2
<1>4. receives' \in [Attempts -> Seq({"first", "loop"})]
  <2>1. /\ receives \in [Attempts -> Seq({"first", "loop"})]
        /\ Append(receives[1], "first") \in Seq({"first", "loop"})
    BY <1>1 DEF DataType
  <2>2. receives' = [receives EXCEPT ![1] = Append(@, "first")]
    BY <1>11 DEF Arm
  <2> QED BY <1>1, <2>1, <2>2
<1>5. /\ starts' \in [Attempts -> Nat] /\ timer' = [timer EXCEPT ![1] = "on"] /\ task' = 1
      /\ receives' = [receives EXCEPT ![1] = Append(@, "first")]
      /\ net' = [net EXCEPT ![1] = "connecting"]
      /\ UNCHANGED <<deadUntil, claimed, delivered, inbox, down, moving, mover, firstRecv, got,
                     closes, sends, closed>>
  <2>1. starts' = [starts EXCEPT ![1] = @ + 1] /\ starts \in [Attempts -> Nat]
    BY <1>10 DEF connect, DataType
  <2>2. starts' \in [Attempts -> Nat]
    BY <1>1, <2>1, CountsUp
  <2> QED BY <1>10, <2>2 DEF connect, Arm
<1>6. DataType'
  <2>1. task' \in 0 .. Len(endpoints')
    BY <1>1, <1>2, <1>5
  <2>2. /\ net' \in [Attempts -> {"none", "connecting", "open", "broken"}]
        /\ timer' \in [Attempts -> {"off", "on", "passed"}]
    BY <1>5 DEF DataType
  <2>3. Len(endpoints') <= Hosts
    BY <1>1, <1>2
  <2> QED BY <1>2, <1>3, <1>4, <1>5, <2>1, <2>2, <2>3 DEF DataType
<1>7. \A i \in Attempts : i # 1 => receives[i] = <<>> /\ timer[i] = "off" /\ moving[i] = "no"
  BY <1>1, <1>2 DEF Placed
<1>8. moving[1] = "no"
  BY <1>1, <1>2 DEF Placed
<1>9. Placed'
  <2>1. \A i \in Attempts : i # 1 => receives'[i] = receives[i] /\ timer'[i] = timer[i]
    BY <1>5 DEF DataType
  <2>2. \A i \in Attempts : inbox[i] <= down[i] /\ 1 <= Len(endpoints')
    BY <1>1, <1>2 DEF Placed
  <2> QED BY <1>5, <1>7, <1>8, <2>1, <2>2 DEF Placed
<1> QED BY <1>6, <1>9

\* send() and close() act on the current attempt, which is in the list.
LEMMA TypedSession ==
  ASSUME Typed, send \/ close
  PROVE  Typed'
<1> USE DEF Typed
<1>1. task = 0 \/ task \in Attempts
  BY InList
<1>2. CASE send
  <2>1. sends + 1 \in 0 .. MaxSends /\ sends' = sends + 1
    BY <1>2, CascadeAssumption DEF send, DataType
  <2>2. wire' \in [Attempts -> Seq(0 .. MaxSends)]
    <3>1. CASE wire' = wire
      BY <3>1 DEF DataType
    <3>2. CASE task \in Attempts /\ wire' = [wire EXCEPT ![task] = Append(@, sends + 1)]
      <4>1. Append(wire[task], sends + 1) \in Seq(0 .. MaxSends)
        BY <2>1, <3>2 DEF DataType
      <4> QED BY <3>2, <4>1 DEF DataType
    <3> QED BY <1>1, <1>2, <2>1, <3>1, <3>2 DEF send, OnWire
  <2> QED BY <1>2, <2>1, <2>2 DEF send, DataType, Placed
<1>3. CASE close
  <2>1. /\ net' \in [Attempts -> {"none", "connecting", "open", "broken"}]
        /\ task' \in 0 .. Len(endpoints)
    <3>1. net \in [Attempts -> {"none", "connecting", "open", "broken"}]
      BY DEF DataType
    <3>2. task' = 0 /\ (net' = net \/ net' = [net EXCEPT ![task] = "broken"])
      BY <1>3 DEF close
    <3> QED BY <3>1, <3>2, InList
  <2> QED BY <1>3, <2>1 DEF close, DataType, Placed
<1> QED BY <1>2, <1>3

\* receiveLoop asks the current attempt again, or none.
LEMMA TypedReceiveLoop ==
  ASSUME Typed, NEW i \in Attempts, receives[i] # <<>>,
         receiveLoop(i) \/ receives' = [receives EXCEPT ![i] = Tail(@)]
  PROVE  /\ receives' \in [Attempts -> Seq({"first", "loop"})]
         /\ \A j \in Attempts : receives'[j] # <<>> => receives[j] # <<>> \/ j <= Len(endpoints)
<1> DEFINE rest == [receives EXCEPT ![i] = Tail(@)]
<1>1. rest \in [Attempts -> Seq({"first", "loop"})]
  <2>1. Tail(receives[i]) \in Seq({"first", "loop"})
    BY DEF Typed, DataType
  <2> QED BY <2>1 DEF Typed, DataType
<1>2. \A j \in Attempts : rest[j] # <<>> => receives[j] # <<>>
  BY DEF Typed, DataType
<1>3. CASE receives' = rest
  BY <1>1, <1>2, <1>3
<1>4. CASE task # 0 /\ receives' = [rest EXCEPT ![task] = Append(@, "loop")]
  <2> HIDE DEF rest
  <2>1. task \in Attempts /\ task <= Len(endpoints)
    BY <1>4, InList DEF Typed
  <2>2. Append(rest[task], "loop") \in Seq({"first", "loop"})
    BY <1>1, <2>1
  <2> QED BY <1>1, <1>2, <1>4, <2>1, <2>2
<1> QED BY <1>3, <1>4 DEF receiveLoop

\* Callbacks of the delegate queue.
LEMMA TypedCallback ==
  ASSUME Typed, NEW i \in Attempts, Callback(i)
  PROVE  Typed'
<1> USE DEF Typed
<1>1. CASE InitSent(i)
  BY <1>1 DEF InitSent, DataType, Placed
<1>2. ASSUME receives[i] # <<>> PROVE endpoints[i] \in Attempts /\ i <= Len(endpoints)
  BY <1>2, InList DEF Placed
<1>3. ASSUME inbox[i] > 0, inbox' = [inbox EXCEPT ![i] = @ - 1], down' = down
      PROVE  /\ inbox' \in [Attempts -> 0 .. MaxDown]
             /\ \A j \in Attempts : inbox'[j] <= down'[j]
  <2>1. /\ inbox \in [Attempts -> 0 .. MaxDown] /\ down \in [Attempts -> 0 .. MaxDown]
        /\ \A j \in Attempts : inbox[j] <= down[j]
    BY DEF DataType, Placed
  <2>2. inbox[i] - 1 \in 0 .. MaxDown /\ inbox[i] - 1 <= down[i]
    BY <1>3, <2>1, AttemptFacts
  <2> QED BY <1>3, <2>1, <2>2
<1>4. ASSUME NEW isData \in BOOLEAN, ReceiveFirst(i, isData) PROVE Typed'
  <2>1. receives[i] # <<>> /\ inbox[i] > 0 /\ inbox' = [inbox EXCEPT ![i] = @ - 1]
    BY <1>4 DEF ReceiveFirst, Waiting
  <2>2. got' \in Seq(Attempts) /\ deadUntil' \subseteq Attempts
    <3>1. got \in Seq(Attempts) /\ deadUntil \subseteq Attempts
      BY DEF DataType
    <3>2. \/ got' = got /\ deadUntil' = deadUntil
          \/ got' = Append(got, i) /\ deadUntil' = deadUntil \ {endpoints[i]}
      BY <1>4 DEF ReceiveFirst
    <3> QED BY <3>1, <3>2
  <2>3. /\ receives' \in [Attempts -> Seq({"first", "loop"})]
        /\ \A j \in Attempts : receives'[j] # <<>> => receives[j] # <<>> \/ j <= Len(endpoints)
    BY <1>4, <2>1, TypedReceiveLoop DEF ReceiveFirst
  <2>4. /\ claimed' = [claimed EXCEPT ![i] = TRUE]
        /\ UNCHANGED <<endpoints, task, net, wire, delivered, timer, down, moving, mover, starts,
                       closes, sends, closed>>
    BY <1>4 DEF ReceiveFirst
  <2>5. DataType'
    BY <1>3, <2>1, <2>2, <2>3, <2>4 DEF DataType
  <2>6. Placed'
    BY <1>3, <2>1, <2>3, <2>4 DEF Placed
  <2> QED BY <2>5, <2>6
<1>5. ASSUME NEW isData \in BOOLEAN, LoopReceives(i, isData) PROVE Typed'
  <2>1. receives[i] # <<>> /\ inbox[i] > 0 /\ inbox' = [inbox EXCEPT ![i] = @ - 1]
    BY <1>5 DEF LoopReceives, Waiting
  <2>2. got' \in Seq(Attempts)
    <3>1. got \in Seq(Attempts) /\ (got' = got \/ got' = Append(got, i))
      BY <1>5 DEF LoopReceives, DataType
    <3> QED BY <3>1
  <2>3. /\ receives' \in [Attempts -> Seq({"first", "loop"})]
        /\ \A j \in Attempts : receives'[j] # <<>> => receives[j] # <<>> \/ j <= Len(endpoints)
    BY <1>5, <2>1, TypedReceiveLoop DEF LoopReceives
  <2>4. UNCHANGED <<endpoints, deadUntil, task, net, wire, claimed, delivered, timer, down, moving,
                    mover, starts, closes, sends, closed>>
    BY <1>5 DEF LoopReceives
  <2>5. DataType'
    BY <1>3, <2>1, <2>2, <2>3, <2>4 DEF DataType
  <2>6. Placed'
    BY <1>3, <2>1, <2>3, <2>4 DEF Placed
  <2> QED BY <2>5, <2>6
<1>6. CASE ReceiveFails(i)
  <2>1. receives[i] # <<>> /\ receives' = [receives EXCEPT ![i] = Tail(@)]
    BY <1>6 DEF ReceiveFails, Waiting
  <2>2. /\ receives' \in [Attempts -> Seq({"first", "loop"})]
        /\ \A j \in Attempts : receives'[j] # <<>> => receives[j] # <<>> \/ j <= Len(endpoints)
    BY <2>1, TypedReceiveLoop
  <2>3. deadUntil' \subseteq Attempts
    BY <1>2, <1>6, <2>1 DEF ReceiveFails, DataType
  <2>4. /\ claimed' = [claimed EXCEPT ![i] = TRUE]
        /\ task' = task \/ task' = 0
        /\ closes' = closes \/ closes' = closes + 1
        /\ UNCHANGED <<moving, mover>> \/ /\ moving' = [moving EXCEPT ![i] = "claimed"]
                                          /\ mover' = [mover EXCEPT ![i] = "delegate"]
        /\ UNCHANGED <<endpoints, net, wire, delivered, timer, inbox, down, starts, firstRecv, got,
                       sends, closed>>
    BY <1>6 DEF ReceiveFails
  <2>5. DataType'
    <3>1. task' \in 0 .. Len(endpoints') /\ closes' \in Nat
      <4>1. task \in 0 .. Len(endpoints) /\ closes \in Nat
        BY DEF DataType
      <4> QED BY <2>4, <4>1, InList
    <3>2. /\ moving' \in [Attempts -> {"no", "claimed", "cleared", "set"}]
          /\ mover' \in [Attempts -> {"delegate", "timer"}]
      BY <2>4 DEF DataType
    <3> QED BY <2>2, <2>3, <2>4, <3>1, <3>2 DEF DataType
  <2>6. Placed'
    <3>1. \A j \in Attempts : moving'[j] # "no" => moving[j] # "no" \/ j <= Len(endpoints)
      BY <1>2, <2>1, <2>4 DEF DataType
    <3>2. \A j \in Attempts : moving'[j] = "set" => moving[j] = "set"
      BY <2>4 DEF DataType
    <3> QED BY <2>2, <2>4, <3>1, <3>2 DEF Placed
  <2> QED BY <2>5, <2>6
<1>7. CASE LoopFails(i)
  <2>1. receives[i] # <<>> /\ receives' = [receives EXCEPT ![i] = Tail(@)]
    BY <1>7 DEF LoopFails, Waiting
  <2>2. /\ receives' \in [Attempts -> Seq({"first", "loop"})]
        /\ \A j \in Attempts : receives'[j] # <<>> => receives[j] # <<>> \/ j <= Len(endpoints)
    BY <2>1, TypedReceiveLoop
  <2> QED BY <1>7, <2>2 DEF LoopFails, DataType, Placed
<1> QED BY <1>1, <1>4, <1>5, <1>6, <1>7 DEF Callback

\* The timers.
LEMMA TypedTimer ==
  ASSUME Typed, NEW i \in Attempts, Timer(i)
  PROVE  Typed'
<1> USE DEF Typed
<1>1. timer[i] # "off" => endpoints[i] \in Attempts /\ i <= Len(endpoints)
  BY InList DEF Placed
<1>2. CASE TimerReads(i)
  BY <1>2 DEF TimerReads, DataType, Placed
<1>3. CASE TimerClaims(i)
  <2>1. DataType'
    <3>1. /\ timer' = [timer EXCEPT ![i] = "off"]
          /\ deadUntil' = deadUntil \/ deadUntil' = deadUntil \cup {endpoints[i]}
          /\ net' = net \/ net' = [net EXCEPT ![i] = "broken"]
          /\ moving' = moving \/ moving' = [moving EXCEPT ![i] = "claimed"]
          /\ mover' = mover \/ mover' = [mover EXCEPT ![i] = "timer"]
          /\ timer[i] # "off"
          /\ UNCHANGED <<endpoints, task, wire, receives, inbox, down, starts, got, closes, sends>>
      BY <1>3 DEF TimerClaims
    <3>2. /\ timer' \in [Attempts -> {"off", "on", "passed"}]
          /\ deadUntil' \subseteq Attempts
          /\ net' \in [Attempts -> {"none", "connecting", "open", "broken"}]
          /\ moving' \in [Attempts -> {"no", "claimed", "cleared", "set"}]
          /\ mover' \in [Attempts -> {"delegate", "timer"}]
      BY <1>1, <3>1 DEF DataType
    <3> QED BY <3>1, <3>2 DEF DataType
  <2>2. Placed'
    BY <1>1, <1>3 DEF TimerClaims, DataType, Placed
  <2> QED BY <2>1, <2>2
<1> QED BY <1>2, <1>3 DEF Timer

\* The steps between two attempts: tryConnect ends the cascade after the last one.
LEMMA TypedMove ==
  ASSUME Typed, NEW i \in Attempts, Move(i)
  PROVE  Typed'
<1> USE DEF Typed
<1>1. moving[i] # "no" => i <= Len(endpoints)
  BY DEF Placed
<1>2. CASE ClearTask(i)
  BY <1>1, <1>2 DEF ClearTask, DataType, Placed
<1>3. CASE tryConnect(i)
  <2>1. CASE i = Len(endpoints)
    <3>1. /\ closes' = closes + 1 /\ moving' = [moving EXCEPT ![i] = "no"]
          /\ UNCHANGED <<endpoints, deadUntil, task, net, starts, wire, timer, receives, inbox,
                         down, mover, got, sends>>
      BY <1>3, <2>1 DEF tryConnect
    <3>2. closes' \in Nat /\ moving' \in [Attempts -> {"no", "claimed", "cleared", "set"}]
      BY <3>1 DEF DataType
    <3>3. DataType'
      BY <3>1, <3>2 DEF DataType
    <3>4. \A j \in Attempts : moving'[j] # "no" => moving'[j] = moving[j]
      BY <3>1 DEF DataType
    <3> QED BY <3>1, <3>3, <3>4 DEF Placed
  <2>2. CASE i # Len(endpoints)
    <3>1. i + 1 \in Attempts /\ i + 1 \in 0 .. Len(endpoints) /\ i < Len(endpoints)
      <4>1. i < Len(endpoints)
        BY <1>1, <1>3, <2>2, AttemptFacts, InList DEF tryConnect
      <4>2. Len(endpoints) <= Hosts
        BY DEF DataType
      <4> QED BY <4>1, <4>2, AttemptFacts, InList
    <3>2. /\ task' = i + 1
          /\ net' = [net EXCEPT ![i + 1] = "connecting"]
          /\ starts' = [starts EXCEPT ![i + 1] = @ + 1]
          /\ moving' = [moving EXCEPT ![i] = "set"]
          /\ UNCHANGED <<endpoints, deadUntil, wire, timer, receives, inbox, down, mover, got,
                         closes, sends>>
      BY <1>3, <2>2 DEF tryConnect
    <3>3. DataType'
      <4>1. starts' \in [Attempts -> Nat]
        <5>1. starts \in [Attempts -> Nat]
          BY DEF DataType
        <5> QED BY <3>1, <3>2, <5>1, CountsUp
      <4>2. /\ net' \in [Attempts -> {"none", "connecting", "open", "broken"}]
            /\ moving' \in [Attempts -> {"no", "claimed", "cleared", "set"}]
        BY <3>2 DEF DataType
      <4> QED BY <3>1, <3>2, <4>1, <4>2 DEF DataType
    <3>4. Placed'
      <4>1. \A j \in Attempts : moving'[j] = IF j = i THEN "set" ELSE moving[j]
        BY <3>2 DEF DataType
      <4> QED BY <3>1, <3>2, <4>1, AttemptFacts, InList DEF Placed
    <3> QED BY <3>3, <3>4
  <2> QED BY <2>1, <2>2
<1>4. CASE ArmNext(i)
  <2>1. i + 1 \in Attempts /\ i + 1 <= Len(endpoints) /\ 0 \in 0 .. MaxSends
    <3>1. i < Len(endpoints) /\ Len(endpoints) <= Hosts
      BY <1>4 DEF ArmNext, Placed, DataType
    <3> QED BY <3>1, AttemptFacts, InList
  <2>2. Append(wire[i + 1], 0) \in Seq(0 .. MaxSends)
    BY <2>1 DEF DataType
  <2>3. wire' \in [Attempts -> Seq(0 .. MaxSends)]
    BY <1>4, <2>1, <2>2 DEF ArmNext, Arm, OnWire, DataType
  <2>4. Append(receives[i + 1], "first") \in Seq({"first", "loop"})
    BY <2>1 DEF DataType
  <2>5. /\ receives' = [receives EXCEPT ![i + 1] = Append(@, "first")]
        /\ timer' = [timer EXCEPT ![i + 1] = "on"]
        /\ moving' = [moving EXCEPT ![i] = "no"]
        /\ UNCHANGED <<endpoints, deadUntil, task, net, claimed, delivered, inbox, down, mover,
                       starts, firstRecv, got, closes, sends, closed>>
    BY <1>4 DEF ArmNext, Arm
  <2>6. DataType'
    BY <2>1, <2>3, <2>4, <2>5 DEF DataType
  <2>7. Placed'
    BY <2>1, <2>5 DEF DataType, Placed
  <2> QED BY <2>6, <2>7
<1> QED BY <1>2, <1>3, <1>4 DEF Move

\* The network: a gateway never has more frames unread than it has sent.
LEMMA TypedNet ==
  ASSUME Typed, NEW i \in Attempts, Opens(i) \/ Breaks(i) \/ Answers(i)
  PROVE  Typed'
<1> USE DEF Typed
<1>1. CASE Opens(i) \/ Breaks(i)
  BY <1>1 DEF Opens, Breaks, NetStep, DataType, Placed
<1>2. CASE Answers(i)
  <2>1. inbox[i] + 1 \in 0 .. MaxDown /\ down[i] + 1 \in 0 .. MaxDown /\ inbox[i] + 1 <= down[i] + 1
    <3>1. /\ inbox[i] \in 0 .. MaxDown /\ down[i] \in 0 .. MaxDown /\ inbox[i] <= down[i]
          /\ down[i] < MaxDown
      BY <1>2 DEF Answers, DataType, Placed
    <3> QED BY <3>1, AttemptFacts
  <2> QED BY <1>2, <2>1 DEF Answers, NetStep, DataType, Placed
<1> QED BY <1>1, <1>2

\* The current attempt, and every attempt a callback, a timer or a thread acts for,
\* is an index of the endpoint list: tryConnect never reads past its end.
THEOREM CascadeTypeCorrect == Spec => []TypeOK
<1>1. Typed /\ [Next]_vars => Typed'
  <2> SUFFICES ASSUME Typed, [Next]_vars PROVE Typed'
    OBVIOUS
  <2>1. CASE UNCHANGED vars
    BY <2>1 DEF vars, Typed, DataType, Placed
  <2> QED BY <2>1, TypedConnect, TypedSession, TypedCallback, TypedTimer, TypedMove, TypedNet
          DEF Next
<1>2. Flags /\ Typed => TypeOK
  BY DEF Typed, TypeOK, DataType, Flags
<1> QED BY <1>1, <1>2, TypedInit, FlagsStep, PTL DEF Spec
============================================================================
