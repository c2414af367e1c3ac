------------------------- MODULE StreamClientProofs -------------------------
(***************************************************************************)
(* For every number of frames: what a relay and the DC behind a pipe get   *)
(* of the session, and what a clean close of the pipe means.               *)
(***************************************************************************)
EXTENDS StreamClient, SequenceTheorems, TLAPS

-----------------------------------------------------------------------------
(* Sequences of numbered frames *)

CountTo(n) == [i \in 1 .. n |-> i]

\* Counting one further is appending the next number.
LEMMA CountFacts ==
  ASSUME NEW n \in Nat
  PROVE  /\ CountTo(n) \in Seq(Nat) /\ Len(CountTo(n)) = n
         /\ CountTo(0) = <<>>
         /\ Append(CountTo(n), n + 1) = CountTo(n + 1)
         /\ CountTo(n) \o <<n + 1>> = CountTo(n + 1)
<1>1. CountTo(n) \in Seq(Nat) /\ Len(CountTo(n)) = n
  BY DEF CountTo
<1>2. CountTo(n + 1) \in Seq(Nat) /\ Len(CountTo(n + 1)) = n + 1
  BY DEF CountTo
<1>3. CountTo(0) = <<>>
  BY DEF CountTo
<1>4. CountTo(n) \o <<n + 1>> = CountTo(n + 1)
  <2> DEFINE s == CountTo(n) \o <<n + 1>>
  <2>1. s \in Seq(Nat) /\ Len(s) = n + 1
    BY <1>1
  <2>2. ASSUME NEW i \in 1 .. n + 1 PROVE s[i] = CountTo(n + 1)[i]
    <3>1. s[i] = IF i <= n THEN CountTo(n)[i] ELSE n + 1
      BY <1>1
    <3> QED BY <3>1 DEF CountTo
  <2> HIDE DEF s
  <2>3. s = CountTo(n + 1)
    BY <1>2, <2>1, <2>2, SeqEqual
  <2> QED BY <2>3 DEF s
<1>5. Append(CountTo(n), n + 1) = CountTo(n) \o <<n + 1>>
  BY <1>1, AppendIsConcat
<1> QED BY <1>1, <1>3, <1>4, <1>5

\* Moving the first of b to the end of a leaves the two together as they are.
LEMMA MoveHead ==
  ASSUME NEW S, NEW a \in Seq(S), NEW b \in Seq(S), b # <<>>
  PROVE  /\ Append(a, Head(b)) \in Seq(S) /\ Tail(b) \in Seq(S) /\ Head(b) \in S
         /\ Append(a, Head(b)) \o Tail(b) = a \o b
<1>1. Head(b) \in S /\ Tail(b) \in Seq(S) /\ <<Head(b)>> \in Seq(S)
  OBVIOUS
<1>2. Append(a, Head(b)) = a \o <<Head(b)>>
  BY <1>1, AppendIsConcat
<1>3. <<Head(b)>> \o Tail(b) = b
  <2>1. /\ <<Head(b)>> \o Tail(b) \in Seq(S) /\ Len(<<Head(b)>> \o Tail(b)) = Len(b)
        /\ \A i \in 1 .. Len(b) : (<<Head(b)>> \o Tail(b))[i] = b[i]
    BY <1>1
  <2> QED BY <2>1, SeqEqual
<1>4. (a \o <<Head(b)>>) \o Tail(b) = a \o (<<Head(b)>> \o Tail(b))
  BY <1>1, ConcatAssociative
<1> QED BY <1>1, <1>2, <1>3, <1>4

\* No frame in any of three places.
LEMMA CountNone == (<<>> \o <<>>) \o <<>> = CountTo(0)
<1>1. <<>> \in Seq(Nat) /\ 0 \in Nat
  OBVIOUS
<1>2. <<>> \o <<>> = <<>>
  BY <1>1, ConcatEmptySeq
<1>3. CountTo(0) = <<>>
  BY <1>1, CountFacts
<1> QED BY <1>2, <1>3, Zenon

\* Frames in three places, the first two together or the last two.
LEMMA Assoc ==
  ASSUME NEW a \in Seq(Nat), NEW b \in Seq(Nat), NEW c \in Seq(Nat)
  PROVE  (a \o b) \o c = a \o (b \o c)
BY ConcatAssociative

\* Taking the k-th of c away leaves the others.
LEMMA RemoveAtFacts ==
  ASSUME NEW S, NEW c \in Seq(S), NEW k \in DOMAIN c
  PROVE  /\ RemoveAt(c, k) \in Seq(S) /\ c[k] \in S
         /\ Len(RemoveAt(c, k)) = Len(c) - 1
         /\ ToSet(RemoveAt(c, k)) \cup {c[k]} = ToSet(c)
<1> DEFINE a == SubSeq(c, 1, k - 1)
           b == SubSeq(c, k + 1, Len(c))
<1>1. k \in 1 .. Len(c) /\ k \in Nat /\ Len(c) \in Nat /\ c[k] \in S
  OBVIOUS
<1>2. a \in Seq(S) /\ Len(a) = k - 1 /\ \A i \in 1 .. k - 1 : a[i] = c[i]
  <2>1. \A i \in 1 .. k - 1 : c[i] \in S
    BY <1>1
  <2>2. 1 \in Int /\ k - 1 \in Int /\ \A i \in 1 .. k - 1 : 1 + i - 1 = i
    BY <1>1
  <2>3. Len(a) = IF 1 <= k - 1 THEN (k - 1) - 1 + 1 ELSE 0
    BY <2>1, <2>2, SubSeqProperties
  <2>4. a \in Seq(S)
    BY <2>1, <2>2, SubSeqProperties
  <2>5. \A i \in 1 .. k - 1 : a[i] = c[i]
    <3> TAKE i \in 1 .. k - 1
    <3>1. i \in 1 .. (k - 1) - 1 + 1 /\ 1 + i - 1 = i
      BY <1>1
    <3>2. a[i] = c[1 + i - 1]
      BY <2>1, <2>2, <3>1, SubSeqProperties
    <3> QED BY <3>1, <3>2
  <2> QED BY <1>1, <2>3, <2>4, <2>5
<1>3. b \in Seq(S) /\ Len(b) = Len(c) - k /\ \A i \in 1 .. Len(c) - k : b[i] = c[k + i]
  <2>1. \A i \in k + 1 .. Len(c) : c[i] \in S
    BY <1>1
  <2>2. k + 1 \in Int /\ Len(c) \in Int
    BY <1>1
  <2>3. Len(b) = IF k + 1 <= Len(c) THEN Len(c) - (k + 1) + 1 ELSE 0
    BY <2>1, <2>2, SubSeqProperties
  <2>4. b \in Seq(S)
    BY <2>1, <2>2, SubSeqProperties
  <2>5. \A i \in 1 .. Len(c) - k : b[i] = c[k + i]
    <3> TAKE i \in 1 .. Len(c) - k
    <3>1. i \in 1 .. Len(c) - (k + 1) + 1 /\ (k + 1) + i - 1 = k + i
      BY <1>1
    <3>2. b[i] = c[(k + 1) + i - 1]
      BY <2>1, <2>2, <3>1, SubSeqProperties
    <3> QED BY <3>1, <3>2
  <2> QED BY <1>1, <2>3, <2>4, <2>5
<1>4. RemoveAt(c, k) = a \o b
  BY DEF RemoveAt
<1> HIDE DEF a, b
<1>5. a \o b \in Seq(S) /\ Len(a \o b) = Len(c) - 1
  BY <1>1, <1>2, <1>3
<1>6. \A i \in 1 .. Len(c) - 1 : (a \o b)[i] = IF i <= k - 1 THEN c[i] ELSE c[i + 1]
  <2> TAKE i \in 1 .. Len(c) - 1
  <2>1. (a \o b)[i] = IF i <= Len(a) THEN a[i] ELSE b[i - Len(a)]
    <3>1. a \in Seq(S) /\ b \in Seq(S)
      BY <1>2, <1>3, Zenon
    <3>2. i \in 1 .. Len(a) + Len(b)
      BY <1>1, <1>2, <1>3
    <3> QED BY <3>1, <3>2, ConcatProperties
  <2>2. CASE i <= k - 1
    BY <1>1, <1>2, <2>1, <2>2
  <2>3. CASE ~(i <= k - 1)
    <3>1. i - (k - 1) \in 1 .. Len(c) - k /\ k + (i - (k - 1)) = i + 1
      BY <1>1, <2>3
    <3>2. b[i - (k - 1)] = c[i + 1]
      BY <1>3, <3>1
    <3>3. (a \o b)[i] = b[i - (k - 1)]
      BY <1>2, <2>1, <2>3
    <3> QED BY <2>3, <3>2, <3>3
  <2> QED BY <2>2, <2>3
<1>7. ToSet(a \o b) \cup {c[k]} = ToSet(c)
  <2>1. ASSUME NEW x \in ToSet(a \o b) PROVE x \in ToSet(c)
    <3>1. PICK i \in 1 .. Len(c) - 1 : x = (a \o b)[i]
      BY <1>5 DEF ToSet
    <3>2. i \in DOMAIN c /\ i + 1 \in DOMAIN c
      BY <1>1
    <3> QED BY <1>6, <3>1, <3>2 DEF ToSet
  <2>2. ASSUME NEW x \in ToSet(c), x # c[k] PROVE x \in ToSet(a \o b)
    <3>1. PICK i \in 1 .. Len(c) : x = c[i]
      BY DEF ToSet
    <3>2. DOMAIN (a \o b) = 1 .. Len(c) - 1
      BY <1>5
    <3>3. CASE i < k
      <4>1. i \in 1 .. Len(c) - 1 /\ i <= k - 1
        BY <1>1, <3>3
      <4>2. (a \o b)[i] = x
        BY <1>6, <3>1, <4>1
      <4> QED BY <3>2, <4>1, <4>2 DEF ToSet
    <3>4. CASE i > k
      <4>1. i - 1 \in 1 .. Len(c) - 1 /\ ~(i - 1 <= k - 1) /\ (i - 1) + 1 = i
        BY <1>1, <3>4
      <4>2. (a \o b)[i - 1] = x
        BY <1>6, <3>1, <4>1
      <4> QED BY <3>2, <4>1, <4>2 DEF ToSet
    <3> QED BY <1>1, <2>2, <3>1, <3>3, <3>4
  <2>3. c[k] \in ToSet(c)
    BY DEF ToSet
  <2> QED BY <2>1, <2>2, <2>3
<1> QED BY <1>1, <1>4, <1>5, <1>7

\* The frames of two sequences together, and of one with a frame more.
LEMMA ToSetFacts ==
  ASSUME NEW S, NEW a \in Seq(S), NEW b \in Seq(S), NEW x \in S
  PROVE  /\ ToSet(a \o b) = ToSet(a) \cup ToSet(b)
         /\ ToSet(Append(a, x)) = ToSet(a) \cup {x}
         /\ b # <<>> => ToSet(b) = {Head(b)} \cup ToSet(Tail(b))
<1>1. \A s : ToSet(s) = Range(s)
  BY DEF ToSet, Range
<1>2. ASSUME NEW s \in Seq(S), NEW t \in Seq(S) PROVE ToSet(s \o t) = ToSet(s) \cup ToSet(t)
  BY <1>1, RangeConcatenation
<1>3. ASSUME NEW y PROVE ToSet(<<y>>) = {y}
  BY DEF ToSet
<1>4. ToSet(Append(a, x)) = ToSet(a) \cup {x}
  <2>1. Append(a, x) = a \o <<x>> /\ <<x>> \in Seq(S)
    BY AppendIsConcat
  <2>2. ToSet(a \o <<x>>) = ToSet(a) \cup ToSet(<<x>>)
    BY <1>2, <2>1
  <2> QED BY <1>3, <2>1, <2>2
<1>5. ASSUME b # <<>> PROVE ToSet(b) = {Head(b)} \cup ToSet(Tail(b))
  <2>1. Append(<<>>, Head(b)) \o Tail(b) = <<>> \o b /\ Head(b) \in S /\ Tail(b) \in Seq(S)
    BY <1>5, MoveHead
  <2>2. Append(<<>>, Head(b)) = <<Head(b)>> /\ <<>> \o b = b /\ <<Head(b)>> \in Seq(S)
    BY <2>1
  <2>3. b = <<Head(b)>> \o Tail(b)
    BY <2>1, <2>2
  <2>4. ToSet(<<Head(b)>> \o Tail(b)) = ToSet(<<Head(b)>>) \cup ToSet(Tail(b))
    BY <1>2, <2>1, <2>2
  <2> QED BY <1>3, <2>3, <2>4
<1> QED BY <1>2, <1>4, <1>5

\* The frames of two sequences.
LEMMA ConcatSet ==
  ASSUME NEW a \in Seq(Nat), NEW b \in Seq(Nat)
  PROVE  ToSet(a \o b) = ToSet(a) \cup ToSet(b)
<1>1. 0 \in Nat
  OBVIOUS
<1> QED BY <1>1, ToSetFacts

\* A frame more.
LEMMA AppendSet ==
  ASSUME NEW a \in Seq(Nat), NEW x \in Nat
  PROVE  /\ ToSet(Append(a, x)) = ToSet(a) \cup {x} /\ Len(Append(a, x)) = Len(a) + 1
         /\ Append(a, x) \in Seq(Nat) /\ Len(a) \in Nat
BY ToSetFacts

\* The same for the first frame, which goes.
LEMMA TailSet ==
  ASSUME NEW b \in Seq(Nat), b # <<>>
  PROVE  /\ ToSet(b) = {Head(b)} \cup ToSet(Tail(b)) /\ Len(Tail(b)) = Len(b) - 1
         /\ Tail(b) \in Seq(Nat) /\ Head(b) \in Nat /\ Len(b) \in Nat
<1>1. 0 \in Nat /\ b \in Seq(Nat)
  OBVIOUS
<1> QED BY <1>1, ToSetFacts

-----------------------------------------------------------------------------
(* Types *)

Data ==
  /\ sends \in Nat /\ dcSent \in Nat
  /\ up \in Seq(Nat) /\ down \in Seq(Nat) /\ got \in Seq(Nat)
  /\ relayPending \in Seq(Nat) /\ head \in Seq(Nat)
  /\ converting \in Seq(Nat) /\ writer \in Seq(Nat) /\ dcGot \in Seq(Nat) /\ dcIn \in Seq(Nat)

\* The sequences of the client, when the other ones do not change.
LEMMA ClientData ==
  ASSUME Data, UNCHANGED <<dcSent, down, got, converting, writer, dcGot, dcIn>>,
         sends' \in Nat, up' \in Seq(Nat), relayPending' \in Seq(Nat), head' \in Seq(Nat)
  PROVE  Data'
BY DEF Data

\* What goes on the wire.
LEMMA OnWireType ==
  ASSUME Data, NEW s \in Seq(Nat), OnWire(s)
  PROVE  up' \in Seq(Nat)
BY DEF Data, OnWire

\* Every step leaves sequences of frames.
LEMMA DataStep ==
  ASSUME Data, Next
  PROVE  Data'
<1>1. ASSUME UNCHANGED <<sends, dcSent, up, down, got, relayPending, head, converting, writer, dcGot, dcIn>>
      PROVE  Data'
  BY <1>1 DEF Data
<1>2. CASE startPipe
  BY <1>1, <1>2 DEF startPipe, worker
<1>3. CASE send
  <2>1. sends' = sends + 1 /\ sends' \in Nat /\ <<sends + 1>> \in Seq(Nat)
    BY <1>3 DEF send, Data
  <2>2. up' = up \/ OnWire(<<sends + 1>>)
    BY <1>3 DEF send
  <2>3. up' \in Seq(Nat)
    BY <2>1, <2>2, OnWireType DEF Data
  <2>4. UNCHANGED <<dcSent, down, got, converting, writer, dcGot, dcIn, relayPending, head>>
    BY <1>3 DEF send, worker
  <2> QED BY <2>1, <2>3, <2>4, ClientData DEF Data
<1>4. CASE send_acts
  <2>1. UNCHANGED <<sends, dcSent, down, got, converting, writer, dcGot, dcIn, head>>
    BY <1>4 DEF send_acts, worker
  <2>2. \/ OnWire(<<sends>>) /\ relayPending' = relayPending
        \/ relayPending' = Append(relayPending, sends) /\ up' = up
    BY <1>4 DEF send_acts
  <2>3. <<sends>> \in Seq(Nat) /\ Append(relayPending, sends) \in Seq(Nat)
    BY DEF Data
  <2>4. up' \in Seq(Nat) /\ relayPending' \in Seq(Nat)
    BY <2>2, <2>3, OnWireType DEF Data
  <2> QED BY <2>1, <2>4, ClientData DEF Data
<1>5. CASE close \/ pong \/ Timer
  BY <1>1, <1>5 DEF close, pong, Timer, timer_fires, timer_cancels, finish_reads, finish_writes,
                    wire, worker
<1>6. CASE Callback
  <2>1. CASE ready_sets \/ receive_fails \/ relay_ends
    BY <1>1, <2>1 DEF ready_sets, receive_fails, relay_ends, wire, worker
  <2>2. CASE ready_copies \/ ready_clears
    <3>1. UNCHANGED <<sends, up, dcSent, down, got, converting, writer, dcGot, dcIn>>
      BY <2>2 DEF ready_copies, ready_clears, wire, worker
    <3>2. /\ head' = head \/ head' = <<0>> \o relayPending
          /\ relayPending' = relayPending \/ relayPending' = <<>>
      BY <2>2 DEF ready_copies, ready_clears
    <3>3. /\ <<0>> \o relayPending \in Seq(Nat) /\ <<>> \in Seq(Nat)
          /\ head \in Seq(Nat) /\ relayPending \in Seq(Nat)
      BY DEF Data
    <3>4. head' \in Seq(Nat) /\ relayPending' \in Seq(Nat)
      BY <3>2, <3>3, Zenon
    <3> QED BY <3>1, <3>4, ClientData DEF Data
  <2>3. CASE ready_sends
    <3>1. UNCHANGED <<sends, dcSent, down, got, converting, writer, dcGot, dcIn, relayPending, head>>
      BY <2>3 DEF ready_sends, worker
    <3>2. up' \in Seq(Nat)
      BY <2>3, OnWireType DEF ready_sends, Data
    <3> QED BY <3>1, <3>2, ClientData DEF Data
  <2>4. CASE receives
    <3>1. UNCHANGED <<sends, up, dcSent, converting, writer, dcGot, dcIn, relayPending, head>>
      BY <2>4 DEF receives, worker
    <3>2. down' \in Seq(Nat) /\ got' \in Seq(Nat)
      BY <2>4, MoveHead DEF receives, Data
    <3> QED BY <3>1, <3>2 DEF Data
  <2> QED BY <1>6, <2>1, <2>2, <2>3, <2>4 DEF Callback
<1>7. CASE RelayAccepts \/ RelayEnds \/ Breaks \/ Worker(fetch) \/ Worker(fetch_refuses)
  BY <1>1, <1>7 DEF RelayAccepts, RelayEnds, Breaks, Worker, fetch, fetch_refuses, worker, client
<1>8. CASE RelaySends
  <2>1. UNCHANGED <<sends, up, got, converting, writer, dcGot, dcIn, relayPending, head>>
    BY <1>8 DEF RelaySends, client
  <2>2. dcSent' \in Nat /\ down' \in Seq(Nat)
    BY <1>8 DEF RelaySends, Data
  <2> QED BY <2>1, <2>2 DEF Data
<1>9. CASE Worker(WorkerRuns)
  <2>1. UNCHANGED <<sends, got, relayPending, head>>
    BY <1>9 DEF Worker, client
  <2>2. CASE failTimer_fires \/ opened_rejects \/ onClose \/ onClose_done \/ readLoop_ends
    BY <1>1, <2>1, <2>2 DEF failTimer_fires, opened_rejects, onClose, onClose_done, readLoop_ends, wire
  <2>3. CASE onMessage
    <3>1. UNCHANGED <<dcSent, down, dcGot, dcIn>>
      BY <2>3 DEF onMessage
    <3>2. up' \in Seq(Nat) /\ Head(up) \in Nat
      BY <2>3 DEF onMessage, Data
    <3>3. converting' = converting \/ converting' = Append(converting, Head(up))
      BY <2>3 DEF onMessage
    <3>4. writer' = writer \/ writer' = Append(writer, Head(up))
      BY <2>3 DEF onMessage, write
    <3>5. /\ Append(converting, Head(up)) \in Seq(Nat) /\ Append(writer, Head(up)) \in Seq(Nat)
          /\ converting \in Seq(Nat) /\ writer \in Seq(Nat)
      BY <3>2 DEF Data
    <3>6. converting' \in Seq(Nat) /\ writer' \in Seq(Nat)
      BY <3>3, <3>4, <3>5, Zenon
    <3> QED BY <2>1, <3>1, <3>2, <3>6 DEF Data
  <2>4. ASSUME NEW k \in 1 .. MaxSends, toBytes_done(k) PROVE Data'
    <3>1. UNCHANGED <<dcSent, up, down, dcGot, dcIn>> /\ k \in DOMAIN converting
      BY <2>4 DEF toBytes_done
    <3>2. converting' \in Seq(Nat) /\ converting[k] \in Nat
      BY <2>4, <3>1, RemoveAtFacts DEF toBytes_done, Data
    <3>3. writer' = writer \/ writer' = Append(writer, converting[k])
      BY <2>4 DEF toBytes_done, write
    <3>4. writer \in Seq(Nat) /\ Append(writer, converting[k]) \in Seq(Nat)
      BY <3>2 DEF Data
    <3>5. writer' \in Seq(Nat)
      BY <3>3, <3>4, Zenon
    <3> QED BY <2>1, <3>1, <3>2, <3>5 DEF Data
  <2>5. CASE write_fails
    BY <2>1, <2>5 DEF write_fails, Data
  <2>6. CASE readLoop
    <3>1. UNCHANGED <<dcSent, up, dcGot, converting, writer>>
      BY <2>6 DEF readLoop
    <3>2. dcIn' \in Seq(Nat) /\ down' \in Seq(Nat)
      BY <2>6, MoveHead DEF readLoop, Data
    <3> QED BY <2>1, <3>1, <3>2 DEF Data
  <2> QED BY <1>9, <2>2, <2>3, <2>4, <2>5, <2>6 DEF Worker, WorkerRuns
<1>10. CASE Worker(DcActs)
  <2>1. UNCHANGED <<sends, got, relayPending, head>>
    BY <1>10 DEF Worker, client
  <2>2. CASE opened_resolves \/ DcRefuses
    BY <1>1, <2>1, <2>2 DEF opened_resolves, DcRefuses, wire
  <2>3. CASE writer_drains
    <3>1. writer' \in Seq(Nat) /\ dcGot' \in Seq(Nat)
      BY <2>3, MoveHead DEF writer_drains, Data
    <3> QED BY <2>1, <2>3, <3>1 DEF writer_drains, wire, Data
  <2>4. CASE DcSends
    <3>1. dcSent' \in Nat /\ dcIn' \in Seq(Nat)
      BY <2>4 DEF DcSends, Data
    <3> QED BY <2>1, <2>4, <3>1 DEF DcSends, wire, Data
  <2>5. ASSUME NEW how, DcEnds(how) PROVE Data'
    <3>1. dcIn' \in Seq(Nat)
      BY <2>5 DEF DcEnds, Data
    <3> QED BY <2>1, <2>5, <3>1 DEF DcEnds, wire, Data
  <2> QED BY <1>10, <2>2, <2>3, <2>4, <2>5 DEF Worker, DcActs
<1> QED BY <1>2, <1>3, <1>4, <1>5, <1>6, <1>7, <1>8, <1>9, <1>10 DEF Next

-----------------------------------------------------------------------------
(* The relay *)

\* Frames send() is done with.
Handed == IF sending = "no" THEN sends ELSE sends - 1

\* Before startPipe nothing has been sent.
BeforeStart ==
  mode = "none" =>
    /\ link = "none" /\ sends = 0 /\ sending = "no" /\ handler = "no" /\ timer = "off" /\ ~relayReady
    /\ up = <<>> /\ relayPending = <<>> /\ writer = <<>> /\ converting = <<>> /\ dcGot = <<>>

\* Where the frames of a relay are, for each state of the .ready handler.
Waiting ==
  /\ ~relayReady /\ sending \in {"no", "append"}
  /\ relayPending = CountTo(Handed) /\ up = <<>>
Copying ==
  /\ sending = "no" /\ up = <<>>
  /\ handler = "ready" => relayPending = CountTo(sends)
  /\ handler \in {"head", "cleared"} => head = <<0>> \o CountTo(sends)
  /\ handler = "cleared" => relayPending = <<>>
Through ==
  /\ relayReady /\ sending \in {"no", "direct"}
  /\ relayPending = <<>> /\ up = <<0>> \o CountTo(Handed)

RelayLine ==
  mode = "relay" /\ held /\ link # "broken" /\ ~raced =>
    /\ handler = "no" => Waiting
    /\ handler \in {"ready", "head", "cleared"} => Copying /\ relayReady
    /\ handler = "done" => Through
    /\ handler \in {"no", "ready", "head", "cleared", "done"}
    /\ sending # "no" => sends >= 1

\* Before startPipe nothing else happens.
LEMMA BeforeStartStep ==
  ASSUME BeforeStart, Next
  PROVE  BeforeStart' /\ (mode = "none" => startPipe) /\ (mode # "none" => mode' = mode)
<1>1. CASE mode # "none"
  <2>1. ~startPipe
    BY <1>1 DEF startPipe
  <2>2. mode' = mode
    <3>1. CASE send \/ send_acts \/ close \/ pong
      BY <3>1 DEF send, send_acts, close, pong
    <3>2. CASE Callback
      BY <3>2 DEF Callback, ready_sets, ready_copies, ready_clears, ready_sends, receives,
                  receive_fails, relay_ends
    <3>3. CASE Timer
      BY <3>3 DEF Timer, timer_fires, timer_cancels, finish_reads, finish_writes
    <3>4. CASE UNCHANGED client
      BY <3>4 DEF client
    <3> QED BY <2>1, <3>1, <3>2, <3>3, <3>4
            DEF Next, Worker, RelayAccepts, RelaySends, RelayEnds, Breaks
  <2> QED BY <1>1, <2>2 DEF BeforeStart
<1>2. CASE mode = "none"
  <2>1. link = "none" /\ sending = "no" /\ handler = "no" /\ timer = "off"
    BY <1>2 DEF BeforeStart
  <2>2. ~(send \/ send_acts \/ close \/ pong)
    BY <1>2, <2>1 DEF send, send_acts, close, pong
  <2>3. ~Callback
    BY <1>2, <2>1 DEF Callback, ready_sets, ready_copies, ready_clears, ready_sends, receives,
                      receive_fails, relay_ends
  <2>4. ~Timer
    BY <2>1 DEF Timer, timer_fires, timer_cancels, finish_reads, finish_writes
  <2>5. ~(RelayAccepts \/ RelaySends \/ RelayEnds \/ Breaks)
    BY <1>2, <2>1 DEF RelayAccepts, RelaySends, RelayEnds, Breaks
  <2>6. startPipe
    BY <1>2, <2>2, <2>3, <2>4, <2>5 DEF Next, Worker
  <2>7. mode' # "none"
    BY <2>6 DEF startPipe
  <2> QED BY <1>2, <2>6, <2>7 DEF BeforeStart
<1> QED BY <1>1, <1>2

\* A step that moves none of the frames on their way to the relay.
RelayStays == UNCHANGED <<mode, handler, relayReady, relayPending, head, sending, up, sends>>

\* A connection that is given up stays so, and is not a relay's business any more.
LEMMA RelayKept ==
  ASSUME RelayLine, RelayStays, held' => held, raced' <=> raced,
         link' = "broken" \/ link # "broken"
  PROVE  RelayLine'
<1> SUFFICES ASSUME mode' = "relay", held', link' # "broken", ~raced'
             PROVE  /\ handler' = "no" => Waiting'
                    /\ handler' \in {"ready", "head", "cleared"} => Copying' /\ relayReady'
                    /\ handler' = "done" => Through'
                    /\ handler' \in {"no", "ready", "head", "cleared", "done"}
                    /\ sending' # "no" => sends' >= 1
  BY DEF RelayLine
<1>1. mode = "relay" /\ held /\ link # "broken" /\ ~raced
  BY DEF RelayStays
<1>2. Waiting' <=> Waiting
  BY DEF RelayStays, Waiting, Handed
<1>3. Copying' <=> Copying
  BY DEF RelayStays, Copying
<1>4. Through' <=> Through
  BY DEF RelayStays, Through, Handed
<1> QED BY <1>1, <1>2, <1>3, <1>4 DEF RelayLine, RelayStays

\* The session hands a frame over, before and after the handler.
LEMMA RelaySend ==
  ASSUME Data, RelayLine, send \/ send_acts
  PROVE  RelayLine'
<1> SUFFICES ASSUME mode' = "relay", held', link' # "broken", ~raced'
             PROVE  /\ handler' = "no" => Waiting'
                    /\ handler' \in {"ready", "head", "cleared"} => Copying' /\ relayReady'
                    /\ handler' = "done" => Through'
                    /\ handler' \in {"no", "ready", "head", "cleared", "done"}
                    /\ sending' # "no" => sends' >= 1
  BY DEF RelayLine
<1>1. /\ UNCHANGED <<mode, handler, head, relayReady, held, link>>
      /\ mode = "relay" /\ held /\ link # "broken"
  <2>1. CASE send
    BY <2>1 DEF send
  <2>2. CASE send_acts
    BY <2>2 DEF send_acts
  <2> QED BY <2>1, <2>2
<1>2. sends \in Nat /\ sends' \in Nat
  <2>1. sends' = sends + 1 \/ sends' = sends
    BY DEF send, send_acts
  <2> QED BY <2>1 DEF Data
<1>3. CASE send
  <2>1. /\ sending = "no" /\ sends' = sends + 1 /\ UNCHANGED <<up, relayPending>>
        /\ sending' = IF relayReady THEN "direct" ELSE "append"
        /\ raced' = (raced \/ (held /\ HandlerRuns))
    BY <1>1, <1>3 DEF send
  <2>2. ~raced /\ ~HandlerRuns
    BY <1>1, <2>1
  <2>3. /\ handler \in {"no", "done"}
        /\ handler = "no" => Waiting
        /\ handler = "done" => Through
    BY <1>1, <2>2 DEF RelayLine, HandlerRuns
  <2>4. Handed = sends /\ Handed' = sends
    BY <1>2, <2>1 DEF Handed
  <2>5. handler = "no" => Waiting'
    BY <1>1, <2>1, <2>3, <2>4 DEF Waiting
  <2>6. handler = "done" => Through'
    BY <1>1, <2>1, <2>3, <2>4 DEF Through
  <2> QED BY <1>1, <1>2, <2>1, <2>3, <2>5, <2>6
<1>4. CASE send_acts
  <2>1. sending # "no" /\ sending' = "no" /\ UNCHANGED <<sends, raced>>
    BY <1>4 DEF send_acts
  <2>2. /\ handler \in {"no", "done"} /\ sends >= 1
        /\ handler = "no" => Waiting
        /\ handler = "done" => Through
    BY <1>1, <2>1 DEF RelayLine, Copying
  <2>3. Handed = sends - 1 /\ Handed' = sends /\ sends - 1 \in Nat /\ (sends - 1) + 1 = sends
    BY <1>2, <2>1, <2>2 DEF Handed
  <2>4. CountTo(sends - 1) \o <<sends>> = CountTo(sends) /\ Append(CountTo(sends - 1), sends) = CountTo(sends)
        /\ CountTo(sends - 1) \in Seq(Nat)
    BY <2>3, CountFacts
  <2>5. CASE handler = "no"
    <3>1. sending \in {"no", "append"} /\ relayPending = CountTo(sends - 1) /\ up = <<>> /\ ~relayReady
      BY <2>2, <2>3, <2>5 DEF Waiting
    <3>2. relayPending' = Append(relayPending, sends) /\ up' = up
      BY <1>4, <3>1 DEF send_acts
    <3>3. relayPending' = CountTo(sends)
      BY <2>4, <3>1, <3>2
    <3>4. Waiting'
      BY <1>1, <2>1, <2>3, <3>1, <3>2, <3>3 DEF Waiting
    <3> QED BY <1>1, <2>1, <2>5, <3>4
  <2>6. CASE handler = "done"
    <3>1. sending \in {"no", "direct"} /\ relayPending = <<>> /\ up = <<0>> \o CountTo(sends - 1) /\ relayReady
      BY <2>2, <2>3, <2>6 DEF Through
    <3>2. sending = "direct" => up' = up \o <<sends>> /\ relayPending' = relayPending
      BY <1>1, <1>4 DEF send_acts, OnWire
    <3>3. (<<0>> \o CountTo(sends - 1)) \o <<sends>> = <<0>> \o CountTo(sends)
      <4>1. <<0>> \in Seq(Nat) /\ <<sends>> \in Seq(Nat)
        BY <1>2
      <4>2. (<<0>> \o CountTo(sends - 1)) \o <<sends>> = <<0>> \o (CountTo(sends - 1) \o <<sends>>)
        BY <2>4, <4>1, ConcatAssociative
      <4> QED BY <2>4, <4>2
    <3>4. sending = "direct" => Through'
      BY <1>1, <2>1, <2>3, <3>1, <3>2, <3>3 DEF Through
    <3> QED BY <1>1, <2>1, <2>6, <3>1, <3>4
  <2> QED BY <2>2, <2>5, <2>6
<1> QED BY <1>3, <1>4

\* The handler: what has waited goes behind the first line.
LEMMA RelayHandler ==
  ASSUME Data, RelayLine, ready_sets \/ ready_copies \/ ready_clears \/ ready_sends
  PROVE  RelayLine'
<1> SUFFICES ASSUME mode' = "relay", held', link' # "broken", ~raced'
             PROVE  /\ handler' = "no" => Waiting'
                    /\ handler' \in {"ready", "head", "cleared"} => Copying' /\ relayReady'
                    /\ handler' = "done" => Through'
                    /\ handler' \in {"no", "ready", "head", "cleared", "done"}
                    /\ sending' # "no" => sends' >= 1
  BY DEF RelayLine
<1>1. /\ UNCHANGED <<sends, sending>> /\ mode = "relay" /\ held /\ link # "broken"
  <2>1. CASE ready_sets \/ ready_copies \/ ready_clears
    BY <2>1 DEF ready_sets, ready_copies, ready_clears, wire
  <2>2. CASE ready_sends
    BY <2>2 DEF ready_sends
  <2> QED BY <2>1, <2>2
<1>2. CASE ready_sets
  <2>1. /\ handler = "no" /\ handler' = "ready" /\ relayReady' /\ raced' = (raced \/ sending # "no")
        /\ UNCHANGED <<relayPending, head, up>>
    BY <1>2 DEF ready_sets, wire
  <2>2. ~raced /\ sending = "no"
    BY <2>1
  <2>3. Waiting
    BY <1>1, <2>1, <2>2 DEF RelayLine
  <2>4. Copying'
    BY <1>1, <2>1, <2>2, <2>3 DEF Waiting, Copying, Handed
  <2> QED BY <1>1, <2>1, <2>2, <2>4
<1>3. CASE ready_copies \/ ready_clears
  <2>1. UNCHANGED <<relayReady, up, raced>>
    BY <1>3 DEF ready_copies, ready_clears, wire
  <2>2. handler \in {"ready", "head"} /\ handler' \in {"head", "cleared"}
    BY <1>3 DEF ready_copies, ready_clears
  <2>3. Copying /\ relayReady
    BY <1>1, <2>1, <2>2 DEF RelayLine
  <2>4. CASE ready_copies
    BY <1>1, <2>1, <2>3, <2>4 DEF ready_copies, Copying
  <2>5. CASE ready_clears
    BY <1>1, <2>1, <2>3, <2>5 DEF ready_clears, Copying
  <2>6. Copying' /\ sending' = "no"
    BY <1>1, <1>3, <2>3, <2>4, <2>5 DEF Copying, ready_copies, ready_clears
  <2> QED BY <2>1, <2>2, <2>3, <2>6
<1>4. CASE ready_sends
  <2>1. /\ UNCHANGED <<relayReady, relayPending, raced>>
        /\ handler = "cleared" /\ handler' = "done"
        /\ OnWire(head)
    BY <1>4 DEF ready_sends
  <2>2. /\ relayReady /\ sending = "no" /\ up = <<>>
        /\ head = <<0>> \o CountTo(sends) /\ relayPending = <<>>
    BY <1>1, <2>1 DEF RelayLine, Copying
  <2>3. head \in Seq(Nat)
    BY DEF Data
  <2>4. up' = up \o head
    BY <1>1, <2>1 DEF OnWire
  <2>5. up' = head
    BY <2>2, <2>3, <2>4, ConcatEmptySeq
  <2>6. Through'
    BY <1>1, <2>1, <2>2, <2>5 DEF Through, Handed
  <2> QED BY <1>1, <2>1, <2>2, <2>6
<1> QED BY <1>2, <1>3, <1>4

\* Every step keeps the line of a relay.
LEMMA RelayLineStep ==
  ASSUME Data, BeforeStart, RelayLine, Next
  PROVE  RelayLine'
<1>1. CASE mode' # "relay"
  BY <1>1 DEF RelayLine
<1>2. CASE mode = "none"
  <2>1. startPipe /\ sends = 0 /\ sending = "no" /\ handler = "no" /\ ~relayReady /\ up = <<>> /\ relayPending = <<>>
    BY <1>2, BeforeStartStep DEF BeforeStart
  <2>2. UNCHANGED <<sends, sending, handler, relayReady, up, relayPending>>
    BY <2>1 DEF startPipe
  <2>3. Waiting' /\ handler' = "no" /\ sending' = "no"
    BY <2>1, <2>2, CountFacts DEF Waiting, Handed
  <2> QED BY <2>3 DEF RelayLine
<1>3. CASE mode = "relay"
  <2>1. CASE send \/ send_acts
    BY <2>1, RelaySend
  <2>2. CASE ready_sets \/ ready_copies \/ ready_clears \/ ready_sends
    BY <2>2, RelayHandler
  <2>3. CASE close \/ pong \/ receives \/ receive_fails \/ relay_ends \/ Timer
    <3>1. RelayStays /\ raced' = raced
      BY <2>3 DEF RelayStays, close, pong, receives, receive_fails, relay_ends, Timer, timer_fires,
                  timer_cancels, finish_reads, finish_writes, wire
    <3>2. (held' = held \/ held' = FALSE) /\ (link' = link \/ link' = "broken")
      BY <2>3 DEF close, pong, receives, receive_fails, relay_ends, Timer, timer_fires,
                  timer_cancels, finish_reads, finish_writes, wire
    <3> QED BY <3>1, <3>2, RelayKept
  <2>4. CASE RelayAccepts \/ RelaySends \/ RelayEnds \/ Breaks
    <3>1. RelayStays /\ raced' = raced /\ held' = held
      BY <2>4 DEF RelayStays, RelayAccepts, RelaySends, RelayEnds, Breaks, client
    <3>2. link' = link \/ link' = "broken" \/ link = "connecting"
      BY <2>4 DEF RelayAccepts, RelaySends, RelayEnds, Breaks
    <3> QED BY <3>1, <3>2, RelayKept
  <2> QED BY <1>3, <2>1, <2>2, <2>3, <2>4 DEF Next, Callback, Worker, startPipe
<1> QED BY <1>1, <1>2, <1>3, BeforeStartStep

\* The state before startPipe.
LEMMA InitFacts == Init => Data /\ BeforeStart /\ RelayLine
BY DEF Init, WorkerInit, Data, BeforeStart, RelayLine

\* WSClient.swift:316: the relay gets its first line, then every frame in order.
\* For any number of frames and any interleaving of the session, the .ready
\* handler, the timer and the network, unless a send() overlaps the handler.
THEOREM RelayGetsAll == Spec => []RelayUpstream
<1> DEFINE IInv == Data /\ BeforeStart /\ RelayLine
<1>1. IInv /\ [Next]_vars => IInv'
  <2>1. IInv /\ Next => IInv'
    BY DataStep, BeforeStartStep, RelayLineStep
  <2>2. ASSUME IInv, UNCHANGED vars PROVE IInv'
    <3>1. UNCHANGED <<dcSent, down, got, converting, writer, dcGot, dcIn>> /\ RelayStays
          /\ UNCHANGED <<held, raced, link, timer>>
      BY <2>2 DEF vars, client, wire, worker, RelayStays
    <3>2. Data'
      BY <2>2, <3>1 DEF Data, RelayStays
    <3>3. BeforeStart'
      BY <2>2, <3>1 DEF BeforeStart, RelayStays
    <3> QED BY <2>2, <3>1, <3>2, <3>3, RelayKept
  <2> QED BY <2>1, <2>2
<1>2. IInv => RelayUpstream
  <2> SUFFICES ASSUME IInv, mode = "relay", held, link # "broken", sending = "no", ~raced
               PROVE  CASE handler = "no" -> relayPending = Sent /\ up = <<>>
                        [] handler = "done" -> relayPending = <<>> /\ up = <<0>> \o Sent
                        [] OTHER -> up = <<>>
    BY DEF RelayUpstream
  <2>1. Sent = CountTo(sends) /\ Handed = sends
    BY DEF Sent, CountTo, Handed
  <2>2. CASE handler = "no"
    BY <2>1, <2>2 DEF RelayLine, Waiting
  <2>3. CASE handler = "done"
    BY <2>1, <2>3 DEF RelayLine, Through
  <2>4. CASE handler \notin {"no", "done"}
    BY <2>4 DEF RelayLine, Copying
  <2> QED BY <2>2, <2>3, <2>4
<1> QED BY <1>1, <1>2, InitFacts, PTL DEF Spec

-----------------------------------------------------------------------------
(* The end of a pipe *)

\* What the DC or the relay has sent is received, on the wire, or waits in the worker.
AllDown == dcEnd # "rst" => (got \o down) \o dcIn = CountTo(dcSent)

\* Who closes the socket and the WebSocket of a worker, and in which order.
Sockets ==
  /\ link \in {"none", "connecting"} => sock = "none" /\ server = "none"
  /\ sock # "none" => mode = "pipe"
  /\ sock = "none" => dcIn = <<>>
  /\ sock \in {"none", "connecting", "open", "failed"} => dcEnd = "no"
  /\ failTimer => dcEnd = "no" /\ sock \in {"connecting", "failed", "closed"}
  /\ reading => sock # "none" /\ server # "1000"
  /\ flushing => link = "broken"
  /\ reading /\ sock = "closed" /\ link # "broken" => dcEnd = "no"
  /\ sock \in {"none", "connecting", "open", "failed", "ended", "closed"}

\* A clean close of the WebSocket: the read loop has seen all of the DC's stream.
Clean ==
  /\ mode = "pipe" /\ server = "1000" => sock = "closed"
  /\ mode = "pipe" /\ server = "1000" /\ link # "broken" /\ dcEnd = "fin" => dcIn = <<>>
  /\ closeCode = "1000" => sock = "closed" /\ link = "broken"
  /\ closeCode = "1000" /\ dcEnd = "fin" => dcIn = <<>> /\ down = <<>>

\* Frames downstream move; only a reset loses some.
LEMMA AllDownStep ==
  ASSUME Data, Sockets, AllDown, Next
  PROVE  AllDown'
<1>1. ASSUME UNCHANGED <<got, down, dcIn, dcSent, dcEnd>> PROVE AllDown'
  BY <1>1 DEF AllDown
<1>2. CASE startPipe \/ send \/ send_acts \/ close \/ pong \/ Timer
  BY <1>1, <1>2 DEF startPipe, send, send_acts, close, pong, Timer, timer_fires, timer_cancels,
                    finish_reads, finish_writes, wire, worker
<1>3. CASE Callback /\ ~receives
  BY <1>1, <1>3 DEF Callback, ready_sets, ready_copies, ready_clears, ready_sends, receive_fails,
                    relay_ends, wire, worker
<1>4. CASE receives
  <2>1. /\ down # <<>> /\ down' = Tail(down) /\ got' = Append(got, Head(down))
        /\ UNCHANGED <<dcIn, dcSent, dcEnd>>
    BY <1>4 DEF receives, worker
  <2>2. got' \o down' = got \o down
    <3>1. got \in Seq(Nat) /\ down \in Seq(Nat)
      BY DEF Data
    <3>2. Append(got, Head(down)) \o Tail(down) = got \o down
      BY <2>1, <3>1, MoveHead, Zenon
    <3> QED BY <2>1, <3>2, Zenon
  <2> QED BY <2>1, <2>2 DEF AllDown
<1>5. CASE RelayAccepts \/ RelayEnds \/ Breaks \/ Worker(fetch) \/ Worker(fetch_refuses)
  BY <1>1, <1>5 DEF RelayAccepts, RelayEnds, Breaks, Worker, fetch, fetch_refuses, worker, client
<1>6. CASE RelaySends
  <2>1. /\ down' = Append(down, dcSent + 1) /\ dcSent' = dcSent + 1
        /\ UNCHANGED <<got, dcIn, dcEnd>>
    BY <1>6 DEF RelaySends, client
  <2>2. dcIn = <<>>
    BY <1>6 DEF RelaySends, Sockets
  <2>3. /\ dcSent \in Nat /\ dcSent + 1 \in Nat /\ down \in Seq(Nat) /\ got \in Seq(Nat)
        /\ <<dcSent + 1>> \in Seq(Nat)
    BY DEF Data
  <2>4. down' = down \o <<dcSent + 1>>
    BY <2>1, <2>3, AppendIsConcat
  <2>5. got \o (down \o <<dcSent + 1>>) = (got \o down) \o <<dcSent + 1>>
    BY <2>3, Assoc
  <2>6. got \o down \in Seq(Nat) /\ got \o down' \in Seq(Nat)
    BY <2>3, <2>4
  <2>7. (got \o down) \o dcIn = got \o down /\ (got \o down') \o dcIn' = got \o down'
    BY <2>1, <2>2, <2>6, ConcatEmptySeq
  <2>8. dcEnd # "rst" => got \o down' = CountTo(dcSent + 1)
    BY <2>3, <2>4, <2>5, <2>7, CountFacts DEF AllDown
  <2> QED BY <2>1, <2>7, <2>8 DEF AllDown
<1>7. CASE Worker(WorkerRuns)
  <2>1. got' = got
    BY <1>7 DEF Worker, client
  <2>2. CASE WorkerRuns /\ ~readLoop
    <3>1. CASE failTimer_fires \/ opened_rejects \/ write_fails \/ onClose \/ onClose_done \/ readLoop_ends
      BY <1>1, <2>1, <3>1 DEF failTimer_fires, opened_rejects, write_fails, onClose, onClose_done,
                              readLoop_ends, wire
    <3>2. CASE onMessage \/ \E k \in 1 .. MaxSends : toBytes_done(k)
      BY <1>1, <2>1, <3>2 DEF onMessage, toBytes_done, wire
    <3> QED BY <2>2, <3>1, <3>2 DEF WorkerRuns
  <2>3. CASE readLoop
    <3>1. CASE server = "open"
      <4>1. /\ dcIn # <<>> /\ dcIn' = Tail(dcIn) /\ down' = Append(down, Head(dcIn))
            /\ UNCHANGED <<dcSent, dcEnd>>
        BY <2>3, <3>1 DEF readLoop
      <4> got \in Seq(Nat) /\ down \in Seq(Nat) /\ dcIn \in Seq(Nat)
        BY DEF Data
      <4>2. /\ Append(down, Head(dcIn)) \o Tail(dcIn) = down \o dcIn
            /\ Append(down, Head(dcIn)) \in Seq(Nat) /\ Tail(dcIn) \in Seq(Nat)
        BY <4>1, MoveHead, Zenon
      <4>3. down' \o dcIn' = down \o dcIn /\ down' \in Seq(Nat) /\ dcIn' \in Seq(Nat)
        BY <4>1, <4>2, Zenon
      <4>4. (got \o down') \o dcIn' = got \o (down' \o dcIn')
        BY <4>3, Assoc, Zenon
      <4>5. (got \o down) \o dcIn = got \o (down \o dcIn)
        BY Assoc, Zenon
      <4>6. (got \o down') \o dcIn' = (got \o down) \o dcIn
        BY <4>3, <4>4, <4>5, Zenon
      <4> QED BY <2>1, <4>1, <4>6 DEF AllDown
    <3>2. CASE server # "open"
      BY <1>1, <2>1, <2>3, <3>2 DEF readLoop
    <3> QED BY <3>1, <3>2
  <2> QED BY <1>7, <2>2, <2>3 DEF Worker
<1>8. CASE Worker(DcActs)
  <2>1. got' = got
    BY <1>8 DEF Worker, client
  <2>2. CASE opened_resolves \/ DcRefuses \/ writer_drains
    BY <1>1, <2>1, <2>2 DEF opened_resolves, DcRefuses, writer_drains, wire
  <2>3. CASE DcSends
    <3>1. dcIn' = Append(dcIn, dcSent + 1) /\ dcSent' = dcSent + 1 /\ UNCHANGED <<down, dcEnd>>
      BY <2>3 DEF DcSends, wire
    <3>2. /\ dcSent \in Nat /\ dcSent + 1 \in Nat /\ dcIn \in Seq(Nat) /\ got \o down \in Seq(Nat)
          /\ <<dcSent + 1>> \in Seq(Nat)
      BY DEF Data
    <3>3. dcIn' = dcIn \o <<dcSent + 1>>
      BY <3>1, <3>2, AppendIsConcat
    <3>4. (got \o down) \o (dcIn \o <<dcSent + 1>>) = ((got \o down) \o dcIn) \o <<dcSent + 1>>
      BY <3>2, Assoc
    <3>5. CountTo(dcSent) \o <<dcSent + 1>> = CountTo(dcSent + 1)
      BY <3>2, CountFacts
    <3>6. dcEnd # "rst" => (got \o down) \o dcIn' = CountTo(dcSent')
      BY <3>1, <3>3, <3>4, <3>5 DEF AllDown
    <3> QED BY <2>1, <3>1, <3>6 DEF AllDown
  <2>4. ASSUME NEW how \in {"fin", "rst"}, DcEnds(how) PROVE AllDown'
    <3>1. dcEnd = "no"
      BY <2>4 DEF DcEnds, Sockets
    <3>2. dcEnd' = how /\ UNCHANGED <<down, dcSent>> /\ (how = "fin" => dcIn' = dcIn)
      BY <2>4 DEF DcEnds, wire
    <3> QED BY <2>1, <3>1, <3>2 DEF AllDown
  <2> QED BY <1>8, <2>2, <2>3, <2>4 DEF Worker, DcActs
<1> QED BY <1>2, <1>3, <1>4, <1>5, <1>6, <1>7, <1>8 DEF Next

\* A step that leaves the worker alone, or breaks the connection.
LEMMA SocketsKept ==
  ASSUME Sockets, Clean, UNCHANGED <<worker, server, closeCode, down>>, mode' = mode,
         link' = link \/ link' = "broken"
  PROVE  Sockets' /\ Clean'
<1>1. UNCHANGED <<sock, failTimer, flushing, reading, dcIn, dcEnd>>
  BY DEF worker
<1>2. Sockets'
  BY <1>1 DEF Sockets
<1>3. Clean'
  BY <1>1 DEF Clean
<1> QED BY <1>2, <1>3

\* The steps of the client, the relay and the network.
LEMMA SocketsClient ==
  ASSUME Sockets, Clean, BeforeStart, Next,
         ~(Worker(fetch) \/ Worker(fetch_refuses) \/ Worker(WorkerRuns) \/ Worker(DcActs))
  PROVE  Sockets' /\ Clean'
<1>1. CASE startPipe
  <2>1. link = "none" /\ sock = "none" /\ server = "none"
    BY <1>1 DEF startPipe, BeforeStart, Sockets
  <2>2. UNCHANGED <<server, sock, failTimer, flushing, reading, dcIn, dcEnd, closeCode, down>>
    BY <1>1 DEF startPipe, worker
  <2>3. link' \in {"none", "connecting"}
    BY <1>1, <2>1 DEF startPipe, connectPipe, connectRelay, BadAddress, Connects
  <2>4. Sockets'
    BY <2>1, <2>2, <2>3 DEF Sockets
  <2>5. Clean'
    BY <2>1, <2>2, <2>3 DEF Clean
  <2> QED BY <2>4, <2>5
<1>2. CASE send \/ send_acts \/ close \/ pong
  <2>1. /\ UNCHANGED <<worker, server, closeCode, down>> /\ mode' = mode
        /\ link' = link \/ link' = "broken"
    BY <1>2 DEF send, send_acts, close, pong, wire
  <2> QED BY <2>1, SocketsKept
<1>3. CASE Timer
  <2>1. /\ UNCHANGED <<worker, server, closeCode, down>> /\ mode' = mode
        /\ link' = link \/ link' = "broken"
    BY <1>3 DEF Timer, timer_fires, timer_cancels, finish_reads, finish_writes, wire
  <2> QED BY <2>1, SocketsKept
<1>4. CASE ready_sets \/ ready_copies \/ ready_clears \/ ready_sends \/ relay_ends \/ Breaks
  <2>1. /\ UNCHANGED <<worker, server, closeCode, down>> /\ mode' = mode
        /\ link' = link \/ link' = "broken"
    BY <1>4 DEF ready_sets, ready_copies, ready_clears, ready_sends, relay_ends, Breaks, wire, client
  <2> QED BY <2>1, SocketsKept
<1>5. CASE receives
  <2>1. /\ link = "open"
        /\ UNCHANGED <<link, mode, server, closeCode, sock, failTimer, flushing, reading, dcIn, dcEnd>>
    BY <1>5 DEF receives, worker
  <2>2. Sockets'
    BY <2>1 DEF Sockets
  <2>3. closeCode # "1000"
    BY <2>1 DEF Clean
  <2>4. Clean'
    BY <2>1, <2>3 DEF Clean
  <2> QED BY <2>2, <2>4
<1>6. CASE receive_fails
  <2>1. /\ mode = "pipe" /\ Ended /\ link' = "broken"
        /\ closeCode' = IF link = "open" THEN server ELSE closeCode
        /\ UNCHANGED <<mode, server, down, sock, failTimer, flushing, reading, dcIn, dcEnd>>
    BY <1>6 DEF receive_fails, worker
  <2>2. Sockets'
    BY <2>1 DEF Sockets
  <2>3. closeCode' = "1000" => sock = "closed"
    BY <2>1 DEF Clean
  <2>4. closeCode' = "1000" /\ dcEnd = "fin" => dcIn = <<>> /\ down = <<>>
    BY <2>1 DEF Clean, Ended
  <2> QED BY <2>1, <2>2, <2>3, <2>4 DEF Clean
<1>7. CASE RelayAccepts \/ RelayEnds \/ RelaySends
  <2>1. /\ mode = "relay" /\ UNCHANGED <<mode, closeCode>>
        /\ UNCHANGED <<sock, failTimer, flushing, reading, dcIn, dcEnd>>
        /\ link' = link \/ (link = "connecting" /\ link' = "open")
    BY <1>7 DEF RelayAccepts, RelayEnds, RelaySends, worker, client
  <2>2. server' = server \/ link' \notin {"none", "connecting"}
    BY <1>7 DEF RelayAccepts, RelayEnds, RelaySends, Sockets
  <2>3. sock = "none" /\ ~reading /\ ~failTimer /\ closeCode # "1000"
    BY <2>1 DEF Sockets, Clean
  <2>4. Sockets'
    BY <2>1, <2>2, <2>3 DEF Sockets
  <2>5. Clean'
    BY <2>1, <2>3 DEF Clean
  <2> QED BY <2>4, <2>5
<1> QED BY <1>1, <1>2, <1>3, <1>4, <1>5, <1>6, <1>7 DEF Next, Callback

\* The steps of the worker and its socket.
LEMMA SocketsWorker ==
  ASSUME Sockets, Clean,
         Worker(fetch) \/ Worker(fetch_refuses) \/ Worker(WorkerRuns) \/ Worker(DcActs)
  PROVE  Sockets' /\ Clean'
<1>1. mode = "pipe" /\ mode' = mode /\ closeCode' = closeCode
  BY DEF Worker, client
<1>2. CASE fetch
  <2>1. link = "connecting" /\ sock = "none" /\ server = "none"
    BY <1>2 DEF fetch, Sockets
  <2>2. /\ link' = "open" /\ server' = "open" /\ sock' = "connecting"
        /\ UNCHANGED <<flushing, dcIn, dcEnd, down>>
    BY <1>2 DEF fetch
  <2>3. dcEnd = "no" /\ ~flushing /\ closeCode # "1000"
    BY <2>1 DEF Sockets, Clean
  <2>4. Sockets'
    BY <1>1, <2>2, <2>3 DEF Sockets
  <2>5. Clean'
    BY <1>1, <2>2, <2>3 DEF Clean
  <2> QED BY <2>4, <2>5
<1>3. CASE fetch_refuses
  <2>1. UNCHANGED <<worker, server, down>> /\ link' = "broken"
    BY <1>3 DEF fetch_refuses
  <2> QED BY <1>1, <2>1, SocketsKept
<1>4. CASE failTimer_fires \/ opened_rejects
  <2>1. /\ failTimer /\ ~failTimer' /\ sock' = "closed" /\ CloseWith("1002")
        /\ UNCHANGED <<link, down, flushing, reading, dcIn, dcEnd>>
    BY <1>4 DEF failTimer_fires, opened_rejects
  <2>2. dcEnd = "no" /\ sock # "none" /\ link \notin {"none", "connecting"}
    BY <2>1 DEF Sockets
  <2>3. server' = server \/ server' = "1002"
    BY <2>1 DEF CloseWith
  <2>4. Sockets'
    BY <1>1, <2>1, <2>2, <2>3 DEF Sockets
  <2>5. Clean'
    BY <1>1, <2>1, <2>2, <2>3 DEF Clean
  <2> QED BY <2>4, <2>5
<1>5. CASE onMessage \/ \E k \in 1 .. MaxSends : toBytes_done(k)
  <2>1. UNCHANGED <<link, down, sock, failTimer, flushing, reading, dcIn, dcEnd>>
    BY <1>5 DEF onMessage, toBytes_done
  <2>2. server' = server \/ (server' = "1011" /\ server = "open")
    BY <1>5 DEF onMessage, toBytes_done, write, CloseWith
  <2>3. Sockets'
    BY <1>1, <2>1, <2>2 DEF Sockets
  <2>4. Clean'
    BY <1>1, <2>1, <2>2 DEF Clean
  <2> QED BY <2>3, <2>4
<1>6. CASE write_fails \/ onClose
  <2>1. UNCHANGED <<link, down, sock, failTimer, reading, dcIn, dcEnd>>
    BY <1>6 DEF write_fails, onClose, wire
  <2>2. server' = server \/ (server' = "1011" /\ server = "open")
    BY <1>6 DEF write_fails, onClose, wire, CloseWith
  <2>3. flushing' = flushing \/ link = "broken"
    BY <1>6 DEF write_fails, onClose
  <2>4. Sockets'
    BY <1>1, <2>1, <2>2, <2>3 DEF Sockets
  <2>5. Clean'
    BY <1>1, <2>1, <2>2 DEF Clean
  <2> QED BY <2>4, <2>5
<1>7. CASE onClose_done
  <2>1. /\ flushing /\ sock' = "closed" /\ sock # "closed"
        /\ UNCHANGED <<link, server, down, failTimer, flushing, reading, dcIn, dcEnd>>
    BY <1>7 DEF onClose_done, wire
  <2>2. link = "broken"
    BY <2>1 DEF Sockets
  <2>3. Sockets'
    BY <1>1, <2>1, <2>2 DEF Sockets
  <2>4. Clean'
    BY <1>1, <2>1, <2>2 DEF Clean
  <2> QED BY <2>3, <2>4
<1>8. CASE readLoop
  <2>1. reading /\ sock \in {"open", "ended"} /\ UNCHANGED <<link, server, failTimer, flushing, dcEnd>>
    BY <1>8 DEF readLoop
  <2>2. server # "1000" /\ ~failTimer /\ link \notin {"none", "connecting"} /\ closeCode # "1000"
    BY <2>1 DEF Sockets, Clean
  <2>3. \/ UNCHANGED <<reading, sock>>
        \/ ~reading' /\ sock' = "closed"
    BY <1>8 DEF readLoop
  <2>4. Sockets'
    BY <1>1, <2>1, <2>2, <2>3 DEF Sockets
  <2>5. Clean'
    BY <1>1, <2>1, <2>2 DEF Clean
  <2> QED BY <2>4, <2>5
<1>9. CASE readLoop_ends
  <2>1. /\ reading /\ ~reading' /\ sock' = "closed" /\ CloseWith("1000")
        /\ sock \in {"failed", "closed"} \/ (sock = "ended" /\ dcIn = <<>>)
        /\ UNCHANGED <<link, down, failTimer, flushing, dcIn, dcEnd>>
    BY <1>9 DEF readLoop_ends
  <2>2. link \notin {"none", "connecting"}
    BY <2>1 DEF Sockets
  <2>3. link # "broken" /\ dcEnd = "fin" => dcIn = <<>>
    BY <2>1 DEF Sockets
  <2>4. Sockets'
    BY <1>1, <2>1, <2>2 DEF Sockets
  <2>5. Clean'
    BY <1>1, <2>1, <2>3 DEF Clean
  <2> QED BY <2>4, <2>5
<1>10. CASE DcActs
  <2>1. UNCHANGED <<link, server, down, flushing, reading>>
    BY <1>10 DEF DcActs, opened_resolves, DcRefuses, writer_drains, DcSends, DcEnds, wire
  <2>2. CASE opened_resolves \/ DcRefuses
    <3>1. /\ sock = "connecting" /\ sock' \in {"open", "failed"} /\ UNCHANGED <<dcIn, dcEnd>>
          /\ (sock' = "open" /\ ~failTimer') \/ (sock' = "failed" /\ failTimer' = failTimer)
      BY <2>2 DEF opened_resolves, DcRefuses
    <3>2. link \notin {"none", "connecting"} /\ dcEnd = "no" /\ server # "1000" /\ closeCode # "1000"
      BY <1>1, <3>1 DEF Sockets, Clean
    <3>3. Sockets'
      BY <1>1, <2>1, <3>1, <3>2 DEF Sockets
    <3>4. Clean'
      BY <1>1, <2>1, <3>2 DEF Clean
    <3> QED BY <3>3, <3>4
  <2>3. CASE writer_drains
    BY <1>1, <2>1, <2>3 DEF writer_drains, Sockets, Clean
  <2>4. ASSUME sock = "open", sock' \in {"open", "ended"}, failTimer' = failTimer,
               dcEnd' = dcEnd \/ sock' = "ended"
        PROVE  Sockets' /\ Clean'
    <3>1. link \notin {"none", "connecting"} /\ ~failTimer /\ server # "1000" /\ closeCode # "1000"
      BY <1>1, <2>4 DEF Sockets, Clean
    <3>2. Sockets'
      BY <1>1, <2>1, <2>4, <3>1 DEF Sockets
    <3>3. Clean'
      BY <1>1, <2>1, <3>1 DEF Clean
    <3> QED BY <3>2, <3>3
  <2>5. CASE DcSends \/ \E how \in {"fin", "rst"} : DcEnds(how)
    BY <2>4, <2>5 DEF DcSends, DcEnds
  <2> QED BY <1>10, <2>2, <2>3, <2>5 DEF DcActs
<1> QED BY <1>2, <1>3, <1>4, <1>5, <1>6, <1>7, <1>8, <1>9, <1>10 DEF Worker, WorkerRuns

\* Stuttering.
LEMMA StreamStutter ==
  ASSUME Data, BeforeStart, AllDown, Sockets, Clean, UNCHANGED vars
  PROVE  Data' /\ BeforeStart' /\ AllDown' /\ Sockets' /\ Clean'
<1>1. /\ UNCHANGED <<link, up, down, server, sock, failTimer, blobs, converting, writer, flushing>>
      /\ UNCHANGED <<reading, dcGot, dcIn, dcSent, dcEnd, mode, relayReady, relayPending, handler>>
      /\ UNCHANGED <<head, sending, timer, got, closeCode, sends, worker>>
  BY DEF vars, wire, worker, client
<1>2. Data'
  BY <1>1 DEF Data
<1>3. BeforeStart'
  BY <1>1 DEF BeforeStart
<1>4. AllDown'
  BY <1>1 DEF AllDown
<1> QED BY <1>1, <1>2, <1>3, <1>4, SocketsKept

StreamInv == Data /\ BeforeStart /\ AllDown /\ Sockets /\ Clean

\* It holds at the start and every step keeps it.
LEMMA StreamInvariant == (Init => StreamInv) /\ (StreamInv /\ [Next]_vars => StreamInv')
<1>1. ASSUME Init PROVE StreamInv
  <2>1. Data /\ BeforeStart
    BY <1>1, InitFacts
  <2>2. AllDown
    <3>1. got = <<>> /\ down = <<>> /\ dcIn = <<>> /\ dcSent = 0
      BY <1>1 DEF Init, WorkerInit
    <3> QED BY <3>1, CountNone, Zenon DEF AllDown
  <2>3. Sockets /\ Clean
    BY <1>1 DEF Init, WorkerInit, Sockets, Clean
  <2> QED BY <2>1, <2>2, <2>3 DEF StreamInv
<1>2. ASSUME StreamInv, Next PROVE StreamInv'
  <2>1. Data' /\ BeforeStart' /\ AllDown'
    BY <1>2, DataStep, BeforeStartStep, AllDownStep DEF StreamInv
  <2>2. Sockets' /\ Clean'
    BY <1>2, SocketsClient, SocketsWorker DEF StreamInv
  <2> QED BY <2>1, <2>2 DEF StreamInv
<1>3. ASSUME StreamInv, UNCHANGED vars PROVE StreamInv'
  BY <1>3, StreamStutter DEF StreamInv
<1> QED BY <1>1, <1>2, <1>3

\* worker-pipe.js:87: after a close with code 1000 that follows the DC's FIN, the
\* session has received everything the DC sent, for any number of frames and
\* whatever closes, breaks or times out in between.
THEOREM CleanCloseMeansComplete == Spec => []CleanCloseComplete
<1>1. StreamInv => CleanCloseComplete
  <2> SUFFICES ASSUME StreamInv, closeCode = "1000", dcEnd = "fin" PROVE got = CountTo(dcSent)
    BY DEF CleanCloseComplete, CountTo
  <2>1. dcIn = <<>> /\ down = <<>> /\ got \in Seq(Nat)
    BY DEF StreamInv, Clean, Data
  <2>2. (got \o down) \o dcIn = CountTo(dcSent)
    BY DEF StreamInv, AllDown
  <2>3. (got \o <<>>) \o <<>> = got
    BY <2>1, ConcatEmptySeq
  <2> QED BY <2>1, <2>2, <2>3
<1> QED BY <1>1, StreamInvariant, PTL DEF Spec

-----------------------------------------------------------------------------
(* Upstream through the pipe *)

PipeOpen ==
  /\ mode = "pipe" /\ held /\ link # "broken" /\ server \in {"none", "open"}
  /\ sock \in {"none", "connecting", "open"}

\* ArrayBuffers: the frames are in order, in the DC, the writer and on the wire.
InOrder == converting = <<>> /\ (dcGot \o writer) \o up = CountTo(sends)

\* Blobs: each of them is in one place.
AllThere ==
  /\ ((ToSet(dcGot) \cup ToSet(writer)) \cup ToSet(converting)) \cup ToSet(up) = 1 .. sends
  /\ ((Len(dcGot) + Len(writer)) + Len(converting)) + Len(up) = sends

Piped == PipeOpen => IF blobs THEN AllThere ELSE InOrder

\* A step that moves no frame.
LEMMA PipedKept ==
  ASSUME Piped, UNCHANGED <<dcGot, writer, converting, up, sends, blobs>>, PipeOpen' => PipeOpen
  PROVE  Piped'
BY DEF Piped, AllThere, InOrder

\* The session sends a frame, which goes on the wire.
LEMMA PipedSend ==
  ASSUME Data, Piped, send, mode = "pipe"
  PROVE  Piped'
<1> SUFFICES ASSUME PipeOpen' PROVE (IF blobs THEN AllThere ELSE InOrder)'
  BY DEF Piped
<1>1. /\ UNCHANGED <<mode, held, link, server, sock, blobs, dcGot, writer, converting>>
      /\ sends' = sends + 1
  BY DEF send, worker
<1>2. PipeOpen
  BY <1>1 DEF PipeOpen
<1>3. up' = up \o <<sends + 1>>
  BY <1>2 DEF send, OnWire, PipeOpen
<1>4. /\ sends \in Nat /\ sends + 1 \in Nat /\ up \in Seq(Nat) /\ <<sends + 1>> \in Seq(Nat)
      /\ dcGot \in Seq(Nat) /\ writer \in Seq(Nat) /\ converting \in Seq(Nat)
  BY DEF Data
<1>5. CASE blobs
  <2>1. AllThere
    BY <1>2, <1>5 DEF Piped
  <2>2. up' = Append(up, sends + 1)
    BY <1>3, <1>4, AppendIsConcat
  <2>3. ToSet(up') = ToSet(up) \cup {sends + 1}
    BY <1>4, <2>2, AppendSet
  <2>4. Len(up') = Len(up) + 1
    BY <1>4, <2>2
  <2>5. 1 .. sends + 1 = (1 .. sends) \cup {sends + 1}
    BY <1>4
  <2>6. ((ToSet(dcGot) \cup ToSet(writer)) \cup ToSet(converting)) \cup ToSet(up') = 1 .. sends + 1
    BY <2>1, <2>3, <2>5 DEF AllThere
  <2>7. ((Len(dcGot) + Len(writer)) + Len(converting)) + Len(up') = sends + 1
    <3>1. Len(dcGot) \in Nat /\ Len(writer) \in Nat /\ Len(converting) \in Nat /\ Len(up) \in Nat
      BY <1>4
    <3> QED BY <1>4, <2>1, <2>4, <3>1 DEF AllThere
  <2> QED BY <1>1, <1>5, <2>6, <2>7 DEF AllThere
<1>6. CASE ~blobs
  <2>1. InOrder
    BY <1>2, <1>6 DEF Piped
  <2>2. dcGot \o writer \in Seq(Nat)
    BY <1>4
  <2>3. (dcGot \o writer) \o (up \o <<sends + 1>>) = ((dcGot \o writer) \o up) \o <<sends + 1>>
    BY <1>4, <2>2, Assoc
  <2>4. CountTo(sends) \o <<sends + 1>> = CountTo(sends + 1)
    BY <1>4, CountFacts
  <2>5. (dcGot \o writer) \o up' = CountTo(sends')
    BY <1>1, <1>3, <2>1, <2>3, <2>4 DEF InOrder
  <2> QED BY <1>1, <1>6, <2>1, <2>5 DEF InOrder
<1> QED BY <1>5, <1>6

\* The worker takes a message, a conversion ends, or the writer sends a frame to the DC.
LEMMA PipedMoves ==
  ASSUME Data, Sockets, Piped, UNCHANGED client,
         onMessage \/ (\E k \in 1 .. MaxSends : toBytes_done(k)) \/ writer_drains
  PROVE  Piped'
<1> SUFFICES ASSUME PipeOpen' PROVE (IF blobs THEN AllThere ELSE InOrder)'
  BY DEF Piped
<1>0. UNCHANGED <<mode, held, sends, link, sock, blobs, flushing>>
  BY DEF client, onMessage, toBytes_done, writer_drains, wire
<1>3. ~flushing
  BY <1>0 DEF PipeOpen, Sockets
<1>1. UNCHANGED <<mode, held, sends, link, server, sock, blobs, flushing>>
  BY <1>0, <1>3 DEF onMessage, toBytes_done, write, writer_drains, wire
<1>2. PipeOpen
  BY <1>1 DEF PipeOpen
<1>4. /\ sends \in Nat /\ up \in Seq(Nat)
      /\ dcGot \in Seq(Nat) /\ writer \in Seq(Nat) /\ converting \in Seq(Nat)
  BY DEF Data
<1>5. Len(dcGot) \in Nat /\ Len(writer) \in Nat /\ Len(converting) \in Nat /\ Len(up) \in Nat
  BY <1>4
<1>6. CASE onMessage
  <2>1. up # <<>> /\ up' = Tail(up) /\ dcGot' = dcGot
    BY <1>6 DEF onMessage
  <2>2. /\ ToSet(up) = {Head(up)} \cup ToSet(up') /\ Len(up') = Len(up) - 1
        /\ up' \in Seq(Nat) /\ Head(up) \in Nat
    BY <1>4, <2>1, TailSet
  <2>3. CASE blobs
    <3>1. converting' = Append(converting, Head(up)) /\ writer' = writer
      BY <1>6, <2>3 DEF onMessage
    <3>2. ToSet(converting') = ToSet(converting) \cup {Head(up)} /\ Len(converting') = Len(converting) + 1
      BY <1>4, <2>2, <3>1, AppendSet
    <3>3. AllThere
      BY <1>2, <2>3 DEF Piped
    <3>4. ((ToSet(dcGot) \cup ToSet(writer)) \cup ToSet(converting')) \cup ToSet(up') = 1 .. sends
      BY <2>2, <3>2, <3>3 DEF AllThere
    <3>5. ((Len(dcGot) + Len(writer)) + Len(converting')) + Len(up') = sends
      BY <1>5, <2>2, <3>2, <3>3 DEF AllThere
    <3> QED BY <1>1, <2>1, <2>3, <3>1, <3>4, <3>5 DEF AllThere
  <2>4. CASE ~blobs
    <3>1. writer' = Append(writer, Head(up)) /\ converting' = converting
      BY <1>3, <1>6, <2>4 DEF onMessage, write
    <3>2. /\ Append(writer, Head(up)) \o Tail(up) = writer \o up
          /\ Append(writer, Head(up)) \in Seq(Nat) /\ Tail(up) \in Seq(Nat)
      BY <1>4, <2>1, MoveHead, Zenon
    <3>3. writer' \o up' = writer \o up /\ writer' \in Seq(Nat)
      BY <2>1, <3>1, <3>2, Zenon
    <3>4. (dcGot \o writer') \o up' = dcGot \o (writer' \o up')
      BY <1>4, <2>2, <3>3, Assoc, Zenon
    <3>5. (dcGot \o writer) \o up = dcGot \o (writer \o up)
      BY <1>4, Assoc, Zenon
    <3>6. (dcGot \o writer') \o up' = (dcGot \o writer) \o up
      BY <3>3, <3>4, <3>5, Zenon
    <3>7. InOrder
      BY <1>2, <2>4 DEF Piped
    <3> QED BY <1>1, <2>1, <2>4, <3>1, <3>6, <3>7 DEF InOrder
  <2> QED BY <2>3, <2>4
<1>7. ASSUME NEW k \in 1 .. MaxSends, toBytes_done(k) PROVE (IF blobs THEN AllThere ELSE InOrder)'
  <2>1. /\ k \in DOMAIN converting /\ converting' = RemoveAt(converting, k)
        /\ writer' = Append(writer, converting[k]) /\ UNCHANGED <<up, dcGot>>
    BY <1>3, <1>7 DEF toBytes_done, write
  <2>2. /\ converting[k] \in Nat /\ Len(converting') = Len(converting) - 1
        /\ ToSet(converting') \cup {converting[k]} = ToSet(converting)
    BY <1>4, <2>1, RemoveAtFacts
  <2>3. ToSet(writer') = ToSet(writer) \cup {converting[k]} /\ Len(writer') = Len(writer) + 1
    BY <1>4, <2>1, <2>2, AppendSet
  <2>4. blobs
    <3>1. converting # <<>>
      BY <2>1
    <3> QED BY <1>2, <3>1 DEF Piped, InOrder
  <2>5. AllThere
    BY <1>2, <2>4 DEF Piped
  <2>6. ((ToSet(dcGot) \cup ToSet(writer')) \cup ToSet(converting')) \cup ToSet(up) = 1 .. sends
    BY <2>2, <2>3, <2>5 DEF AllThere
  <2>7. ((Len(dcGot) + Len(writer')) + Len(converting')) + Len(up) = sends
    BY <1>5, <2>2, <2>3, <2>5 DEF AllThere
  <2> QED BY <1>1, <2>1, <2>4, <2>6, <2>7 DEF AllThere
<1>8. CASE writer_drains
  <2>1. /\ writer # <<>> /\ writer' = Tail(writer) /\ dcGot' = Append(dcGot, Head(writer))
        /\ UNCHANGED <<up, converting>>
    BY <1>8 DEF writer_drains, wire
  <2>2. CASE blobs
    <3>1. /\ ToSet(writer) = {Head(writer)} \cup ToSet(writer') /\ Len(writer') = Len(writer) - 1
          /\ Head(writer) \in Nat
      BY <1>4, <2>1, TailSet
    <3>2. ToSet(dcGot') = ToSet(dcGot) \cup {Head(writer)} /\ Len(dcGot') = Len(dcGot) + 1
      BY <1>4, <2>1, <3>1, AppendSet
    <3>3. AllThere
      BY <1>2, <2>2 DEF Piped
    <3>4. ((ToSet(dcGot') \cup ToSet(writer')) \cup ToSet(converting)) \cup ToSet(up) = 1 .. sends
      BY <3>1, <3>2, <3>3 DEF AllThere
    <3>5. ((Len(dcGot') + Len(writer')) + Len(converting)) + Len(up) = sends
      BY <1>5, <3>1, <3>2, <3>3 DEF AllThere
    <3> QED BY <1>1, <2>1, <2>2, <3>4, <3>5 DEF AllThere
  <2>3. CASE ~blobs
    <3>1. Append(dcGot, Head(writer)) \o Tail(writer) = dcGot \o writer
      BY <1>4, <2>1, MoveHead, Zenon
    <3>2. dcGot' \o writer' = dcGot \o writer
      BY <2>1, <3>1, Zenon
    <3>3. InOrder
      BY <1>2, <2>3 DEF Piped
    <3> QED BY <1>1, <2>1, <2>3, <3>2, <3>3 DEF InOrder
  <2> QED BY <2>2, <2>3
<1> QED BY <1>6, <1>7, <1>8

\* A pipe has no use for what a relay waits with.
PipeIdle == mode = "pipe" => sending = "no" /\ handler = "no"

\* Only the handler of a relay and its send() work in two steps.
LEMMA PipeIdleStep ==
  ASSUME BeforeStart, PipeIdle, Next
  PROVE  PipeIdle'
<1>1. CASE mode = "none"
  <2>1. startPipe /\ sending = "no" /\ handler = "no"
    BY <1>1, BeforeStartStep DEF BeforeStart
  <2> QED BY <2>1 DEF startPipe, PipeIdle
<1>2. CASE mode = "relay"
  BY <1>2, BeforeStartStep DEF PipeIdle
<1>3. CASE mode = "pipe"
  <2>1. sending = "no" /\ handler = "no"
    BY <1>3 DEF PipeIdle
  <2>2. CASE send \/ close \/ pong
    BY <1>3, <2>1, <2>2 DEF PipeIdle, send, close, pong
  <2>3. CASE Callback
    BY <1>3, <2>1, <2>3 DEF PipeIdle, Callback, ready_sets, ready_copies, ready_clears, ready_sends,
                             receives, receive_fails, relay_ends
  <2>4. CASE Timer
    BY <1>3, <2>1, <2>4 DEF PipeIdle, Timer, timer_fires, timer_cancels, finish_reads, finish_writes
  <2>5. CASE UNCHANGED client
    BY <1>3, <2>1, <2>5 DEF PipeIdle, client
  <2> QED BY <1>3, <2>1, <2>2, <2>3, <2>4, <2>5
          DEF Next, startPipe, send_acts, Worker, RelayAccepts, RelaySends, RelayEnds, Breaks
<1>4. CASE mode \notin {"none", "pipe", "relay"}
  BY <1>4, BeforeStartStep DEF PipeIdle
<1> QED BY <1>1, <1>2, <1>3, <1>4

\* Every step keeps the stream of a pipe, or the pipe is over.
LEMMA PipedStep ==
  ASSUME StreamInv, PipeIdle, Piped, Next
  PROVE  Piped'
<1> Data /\ BeforeStart /\ Sockets
  BY DEF StreamInv
<1>1. CASE mode = "none"
  <2>1. /\ startPipe /\ sends = 0 /\ up = <<>> /\ writer = <<>> /\ converting = <<>> /\ dcGot = <<>>
    BY <1>1, BeforeStartStep DEF BeforeStart
  <2>2. UNCHANGED <<sends, up, writer, converting, dcGot>>
    BY <2>1 DEF startPipe, worker
  <2>3. sends' = 0 /\ up' = <<>> /\ writer' = <<>> /\ converting' = <<>> /\ dcGot' = <<>>
    BY <2>1, <2>2
  <2>5. ToSet(<<>>) = {} /\ Len(<<>>) = 0 /\ 1 .. 0 = {}
    BY DEF ToSet
  <2>6. InOrder'
    BY <2>3, CountNone, Zenon DEF InOrder
  <2>7. AllThere'
    BY <2>3, <2>5 DEF AllThere
  <2> QED BY <2>6, <2>7 DEF Piped
<1>2. CASE mode = "relay"
  BY <1>2, BeforeStartStep DEF Piped, PipeOpen
<1>3. CASE mode = "pipe"
  <2>1. CASE send
    BY <1>3, <2>1, PipedSend
  <2>2. CASE Worker(WorkerRuns) /\ (onMessage \/ (\E k \in 1 .. MaxSends : toBytes_done(k)))
    BY <2>2, PipedMoves DEF Worker
  <2>3. CASE Worker(writer_drains)
    BY <2>3, PipedMoves DEF Worker
  <2>4. sending = "no" /\ handler = "no"
    BY <1>3 DEF PipeIdle
  <2>5. CASE close \/ pong \/ Timer
    <3>1. UNCHANGED <<dcGot, writer, converting, up, sends, blobs, mode, server, sock>>
      BY <2>5 DEF close, pong, Timer, timer_fires, timer_cancels, finish_reads, finish_writes,
                  wire, worker
    <3>2. (held' = held \/ held' = FALSE) /\ (link' = link \/ link' = "broken")
      BY <2>5 DEF close, pong, Timer, timer_fires, timer_cancels, finish_reads, finish_writes, wire
    <3>3. PipeOpen' => PipeOpen
      BY <3>1, <3>2 DEF PipeOpen
    <3> QED BY <3>1, <3>3, PipedKept
  <2>6. CASE Callback
    <3>1. receives \/ receive_fails
      BY <1>3, <2>4, <2>6 DEF Callback, ready_sets, ready_copies, ready_clears, ready_sends, relay_ends
    <3>2. /\ UNCHANGED <<dcGot, writer, converting, up, sends, blobs, mode, server, sock, held>>
          /\ link' = link \/ link' = "broken"
      BY <3>1 DEF receives, receive_fails, worker
    <3>3. PipeOpen' => PipeOpen
      BY <3>2 DEF PipeOpen
    <3> QED BY <3>2, <3>3, PipedKept
  <2>7. CASE Breaks \/ Worker(fetch) \/ Worker(fetch_refuses)
    <3>1. UNCHANGED <<dcGot, writer, converting, up, sends, blobs, mode, held>>
      BY <2>7 DEF Breaks, Worker, fetch, fetch_refuses, worker, client
    <3>2. \/ link' = "broken"
          \/ link = "connecting"
      BY <2>7 DEF Breaks, Worker, fetch, fetch_refuses
    <3>3. PipeOpen' => PipeOpen
      BY <3>1, <3>2 DEF PipeOpen, Sockets
    <3> QED BY <3>1, <3>3, PipedKept
  <2>8. CASE Worker(failTimer_fires \/ opened_rejects \/ onClose_done \/ readLoop_ends)
    <3>1. sock' = "closed"
      BY <2>8 DEF Worker, failTimer_fires, opened_rejects, onClose_done, readLoop_ends
    <3> QED BY <3>1 DEF Piped, PipeOpen
  <2>9. CASE Worker(write_fails)
    <3>1. sock' \notin {"none", "connecting", "open"}
      BY <2>9 DEF Worker, write_fails
    <3> QED BY <3>1 DEF Piped, PipeOpen
  <2>10. CASE Worker(onClose \/ readLoop)
    <3>1. UNCHANGED <<dcGot, writer, converting, up, sends, blobs, mode, held, link, server>>
      BY <2>10 DEF Worker, onClose, readLoop, wire, client
    <3>2. sock' = sock \/ sock' = "closed"
      BY <2>10 DEF Worker, onClose, readLoop
    <3>3. PipeOpen' => PipeOpen
      BY <3>1, <3>2 DEF PipeOpen
    <3> QED BY <3>1, <3>3, PipedKept
  <2>11. CASE Worker(opened_resolves \/ DcRefuses \/ DcSends \/ \E how \in {"fin", "rst"} : DcEnds(how))
    <3>1. UNCHANGED <<dcGot, writer, converting, up, sends, blobs, mode, held, link, server>>
      BY <2>11 DEF Worker, opened_resolves, DcRefuses, DcSends, DcEnds, wire, client
    <3>2. sock \in {"connecting", "open"}
      BY <2>11 DEF Worker, opened_resolves, DcRefuses, DcSends, DcEnds
    <3>3. PipeOpen' => PipeOpen
      BY <3>1, <3>2 DEF PipeOpen
    <3> QED BY <3>1, <3>3, PipedKept
  <2>12. CASE Worker(WorkerRuns)
    BY <2>2, <2>8, <2>9, <2>10, <2>12 DEF Worker, WorkerRuns
  <2>13. CASE Worker(DcActs)
    BY <2>3, <2>11, <2>13 DEF Worker, DcActs
  <2> QED BY <1>3, <2>1, <2>4, <2>5, <2>6, <2>7, <2>12, <2>13
          DEF Next, startPipe, send_acts, RelayAccepts, RelaySends, RelayEnds
<1>4. CASE mode \notin {"none", "pipe", "relay"}
  BY <1>4, BeforeStartStep DEF Piped, PipeOpen
<1> QED BY <1>1, <1>2, <1>3, <1>4

\* worker-pipe.js:56: the pipe neither loses nor repeats what the session sends, and
\* keeps its order if the runtime delivers ArrayBuffers, for any number of frames and
\* however slowly the DC connection opens.
THEOREM PipeGetsAll == Spec => []PipeUpstream
<1> DEFINE IInv == StreamInv /\ PipeIdle /\ Piped
<1>1. Init => IInv
  <2>1. Init => PipeIdle /\ Piped
    BY DEF Init, PipeIdle, Piped, PipeOpen
  <2> QED BY <2>1, StreamInvariant
<1>2. IInv /\ [Next]_vars => IInv'
  <2>1. ASSUME IInv, Next PROVE IInv'
    BY <2>1, StreamInvariant, PipeIdleStep, PipedStep DEF StreamInv
  <2>2. ASSUME IInv, UNCHANGED vars PROVE IInv'
    <3>1. /\ UNCHANGED <<dcGot, writer, converting, up, sends, blobs>>
          /\ UNCHANGED <<mode, held, link, server, sock, sending, handler>>
      BY <2>2 DEF vars, wire, worker, client
    <3>2. PipeIdle' /\ (PipeOpen' => PipeOpen)
      BY <2>2, <3>1 DEF PipeIdle, PipeOpen
    <3> QED BY <2>2, <3>1, <3>2, StreamInvariant, PipedKept
  <2> QED BY <2>1, <2>2
<1>3. IInv => PipeUpstream
  <2> DEFINE all == ((dcGot \o writer) \o converting) \o up
  <2> SUFFICES ASSUME IInv, mode = "pipe", held, link = "open", server = "open", sock \in {"connecting", "open"}
               PROVE  IF blobs THEN ToSet(all) = 1 .. sends /\ Len(all) = sends ELSE all = Sent
    BY DEF PipeUpstream
  <2>1. /\ sends \in Nat /\ up \in Seq(Nat)
        /\ dcGot \in Seq(Nat) /\ writer \in Seq(Nat) /\ converting \in Seq(Nat)
    BY DEF StreamInv, Data
  <2>2. PipeOpen
    BY DEF PipeOpen
  <2>3. CASE blobs
    <3>1. AllThere
      BY <2>2, <2>3 DEF Piped
    <3>2. dcGot \o writer \in Seq(Nat) /\ (dcGot \o writer) \o converting \in Seq(Nat)
      BY <2>1
    <3>3. ToSet(dcGot \o writer) = ToSet(dcGot) \cup ToSet(writer)
      BY <2>1, ConcatSet, Zenon
    <3>4. ToSet((dcGot \o writer) \o converting) = ToSet(dcGot \o writer) \cup ToSet(converting)
      BY <2>1, <3>2, ConcatSet, Zenon
    <3>5. ToSet(all) = ToSet((dcGot \o writer) \o converting) \cup ToSet(up)
      BY <2>1, <3>2, ConcatSet, Zenon
    <3>6. Len(all) = ((Len(dcGot) + Len(writer)) + Len(converting)) + Len(up)
      BY <2>1, <3>2
    <3> HIDE DEF all
    <3> QED BY <2>3, <3>1, <3>3, <3>4, <3>5, <3>6 DEF AllThere
  <2>4. CASE ~blobs
    <3>1. InOrder
      BY <2>2, <2>4 DEF Piped
    <3>2. converting = <<>> /\ (dcGot \o writer) \o up = CountTo(sends) /\ Sent = CountTo(sends)
      BY <3>1 DEF InOrder, Sent, CountTo
    <3>3. dcGot \o writer \in Seq(Nat)
      BY <2>1
    <3>4. (dcGot \o writer) \o <<>> = dcGot \o writer
      BY <3>3, ConcatEmptySeq
    <3>5. all = Sent
      BY <3>2, <3>4, Zenon
    <3> QED BY <2>4, <3>5
  <2> QED BY <2>3, <2>4
<1> QED BY <1>1, <1>2, <1>3, PTL DEF Spec
=============================================================================
