--------------------------- MODULE UpstreamProofs ---------------------------
(***************************************************************************)
(* The client's bytes go out whole and in order, one packet a frame, for   *)
(* every byte size, header length and length of the stream, and however    *)
(* TCP cuts it.                                                            *)
(*                                                                         *)
(* From the bottom: what a little-endian header says and that it says the  *)
(* same whatever follows it; the loop of split as a function that exists   *)
(* at every offset (JumpExists), and what its cuts make of the buffer;     *)
(* what FlattenSeq makes of the frames; then UpInv, the stream from the    *)
(* frames to the buffers as one line of positions, and a lemma for every   *)
(* kind of step.                                                           *)
(***************************************************************************)
EXTENDS Upstream, Induction, SequenceTheorems, TLAPS

-----------------------------------------------------------------------------
(* Little-endian numbers *)

\* The values of a little-endian number from each of its digits on.
Digits(f, s, n) ==
  /\ f \in [1 .. n + 1 -> Nat] /\ f[n + 1] = 0
  /\ \A i \in 1 .. n : f[i] = s[i] + Base * f[i + 1]

\* LittleEndian adds up the digits it should.
LEMMA LittleEndianIs ==
  ASSUME NEW n \in Nat, NEW s \in [1 .. n -> Nat]
  PROVE  \E f : Digits(f, s, n) /\ LittleEndian(s) = f[1]
<1> DEFINE step == [i \in 1 .. n |-> [x \in Nat |-> s[i] + Base * x]]
           Is(g) == g = [T \in SUBSET DOMAIN s |->
                           IF T = {} THEN 0 ELSE s[Min(T)] + Base * g[T \ {Min(T)}]]
           fold == CHOOSE g : Is(g)
<1>0. \A a, x \in Nat : a + Base * x \in Nat
  <2>1. Base \in Nat
    BY UpstreamAssumption
  <2>2. \A b, a, x \in Nat : a + b * x \in Nat
    OBVIOUS
  <2> QED BY <2>1, <2>2
<1>1. /\ step \in [1 .. n -> [Nat -> Nat]] /\ 0 \in Nat
      /\ \A i \in 1 .. n : \A x \in Nat : step[i][x] = s[i] + Base * x
  <2>1. \A i \in 1 .. n : s[i] \in Nat
    OBVIOUS
  <2> QED BY <1>0, <2>1
<1> HIDE DEF step
<1>2. PICK g \in [SUBSET (1 .. n) -> Nat] : IsFold(g, n, 0, step)
  <2>1. step \in [1 .. n -> [Nat -> Nat]] /\ 0 \in Nat
    BY <1>1
  <2> QED BY <2>1, FoldExists, Zenon
<1>3. DOMAIN s = 1 .. n
  OBVIOUS
<1>4. ASSUME NEW T \in SUBSET (1 .. n), T # {}
      PROVE  Min(T) \in 1 .. n /\ g[T] = s[Min(T)] + Base * g[T \ {Min(T)}]
  <2>1. T \in SUBSET Nat
    OBVIOUS
  <2>2. Min(T) \in 1 .. n
    BY <1>4, <2>1, MinExists
  <2>3. T \ {Min(T)} \in SUBSET (1 .. n)
    OBVIOUS
  <2>4. g[T \ {Min(T)}] \in Nat
    BY <2>3
  <2> QED BY <1>1, <1>2, <1>4, <2>2, <2>4 DEF IsFold
<1>5. Is(g)
  BY <1>2, <1>3, <1>4 DEF IsFold
<1>6. Is(fold)
  <2> HIDE DEF Is
  <2> QED BY <1>5, Zenon
<1>7. LittleEndian(s) = fold[DOMAIN s]
  BY Zenon DEF LittleEndian, FoldRight, MapThenFoldSet
<1> HIDE DEF fold
<1>8. /\ fold[{}] = 0
      /\ \A T \in SUBSET (1 .. n) : T # {} => fold[T] = s[Min(T)] + Base * fold[T \ {Min(T)}]
  BY <1>3, <1>6
<1> DEFINE f == [i \in 1 .. n + 1 |-> fold[i .. n]]
<1>9. f[n + 1] = 0 /\ f[1] = fold[DOMAIN s]
  <2>1. n + 1 .. n = {} /\ n + 1 \in 1 .. n + 1 /\ 1 \in 1 .. n + 1
    OBVIOUS
  <2> QED BY <1>3, <1>8, <2>1
<1>10. ASSUME NEW i \in 1 .. n PROVE f[i] = s[i] + Base * f[i + 1]
  <2>1. i .. n \in SUBSET (1 .. n) /\ i .. n \in SUBSET Nat /\ i \in i .. n
    OBVIOUS
  <2>2. Min(i .. n) = i
    <3>1. Min(i .. n) \in i .. n /\ Min(i .. n) <= i
      BY <2>1, MinExists
    <3> QED BY <3>1
  <2>3. (i .. n) \ {i} = i + 1 .. n
    OBVIOUS
  <2>4. fold[i .. n] = s[i] + Base * fold[i + 1 .. n]
    BY <1>8, <2>1, <2>2, <2>3
  <2>5. i \in 1 .. n + 1 /\ i + 1 \in 1 .. n + 1
    OBVIOUS
  <2> QED BY <2>4, <2>5
<1>11. f = [i \in 1 .. n + 1 |-> f[i]]
  OBVIOUS
<1> HIDE DEF f
<1> DEFINE P == {m \in 0 .. n : f[n + 1 - m] \in Nat}
<1>12. \A m \in 0 .. n : m \in P
  <2>1. 0 \in P
    BY <1>9
  <2>2. ASSUME NEW m \in 0 .. n - 1, m \in P PROVE m + 1 \in P
    <3>1. n - m \in 1 .. n /\ (n - m) + 1 = n + 1 - m /\ n + 1 - (m + 1) = n - m
      OBVIOUS
    <3>2. f[n - m] = s[n - m] + Base * f[n + 1 - m]
      BY <1>10, <3>1
    <3>3. PICK a \in Nat, x \in Nat : a = s[n - m] /\ x = f[n + 1 - m]
      BY <2>2, <3>1
    <3>4. f[n - m] \in Nat
      BY <1>0, <3>2, <3>3, Zenon
    <3> QED BY <3>1, <3>4
  <2> HIDE DEF P
  <2> QED BY <2>1, <2>2, InductionUpTo
<1>13. \A i \in 1 .. n + 1 : f[i] \in Nat
  <2> TAKE i \in 1 .. n + 1
  <2>1. n + 1 - i \in 0 .. n /\ n + 1 - (n + 1 - i) = i
    OBVIOUS
  <2> QED BY <1>12, <2>1
<1>14. f \in [1 .. n + 1 -> Nat]
  BY <1>11, <1>13
<1> QED BY <1>7, <1>9, <1>10, <1>14 DEF Digits

\* A number of at least one digit is below twice that of the top bit.
LEMMA TopBitIsHalf ==
  /\ TopBit \in Nat \ {0}
  /\ \A s \in [1 .. Hdr -> 0 .. Base - 1] :
       LittleEndian(s) \in Nat /\ LittleEndian(s) < TopBit + TopBit
<1> DEFINE h == [i \in 1 .. Hdr |-> IF i = Hdr THEN Half ELSE 0]
<1>1. Half \in Nat \ {0} /\ Base = Half + Half /\ Hdr \in Nat \ {0} /\ Base \in Nat
  BY UpstreamAssumption DEF Half
<1>2. h \in [1 .. Hdr -> Nat] /\ \A i \in 1 .. Hdr : h[i] = IF i = Hdr THEN Half ELSE 0
  BY <1>1
<1>3. TopBit = LittleEndian(h)
  BY Zenon DEF TopBit
<1> HIDE DEF h
<1>4. PICK t : Digits(t, h, Hdr) /\ TopBit = t[1]
  BY <1>1, <1>2, <1>3, LittleEndianIs
<1>5. t[Hdr] = Half
  <2>1. Hdr \in 1 .. Hdr /\ t[Hdr + 1] = 0 /\ h[Hdr] = Half
    BY <1>1, <1>2, <1>4 DEF Digits
  <2>2. t[Hdr] = h[Hdr] + Base * t[Hdr + 1]
    BY <1>4, <2>1 DEF Digits
  <2> QED BY <1>1, <2>1, <2>2
<1>6. ASSUME NEW i \in 1 .. Hdr - 1 PROVE t[i] = Base * t[i + 1] /\ t[i] \in Nat /\ t[i + 1] \in Nat
  <2>1. i \in 1 .. Hdr /\ i # Hdr /\ i \in 1 .. Hdr + 1 /\ i + 1 \in 1 .. Hdr + 1
    BY <1>1
  <2>2. t[i] = h[i] + Base * t[i + 1] /\ h[i] = 0 /\ t[i] \in Nat /\ t[i + 1] \in Nat
    BY <1>2, <1>4, <2>1 DEF Digits
  <2> QED BY <1>1, <2>2
<1>7. ASSUME NEW s \in [1 .. Hdr -> 0 .. Base - 1]
      PROVE  LittleEndian(s) \in Nat /\ LittleEndian(s) < TopBit + TopBit
  <2>1. s \in [1 .. Hdr -> Nat]
    BY <1>1
  <2>2. PICK f : Digits(f, s, Hdr) /\ LittleEndian(s) = f[1]
    BY <1>1, <2>1, LittleEndianIs
  <2> DEFINE P == {m \in 0 .. Hdr - 1 : f[Hdr - m] < t[Hdr - m] + t[Hdr - m]}
  <2>3. 0 \in P
    <3>1. Hdr \in 1 .. Hdr /\ Hdr - 0 = Hdr /\ f[Hdr + 1] = 0 /\ s[Hdr] \in 0 .. Base - 1
      BY <1>1, <2>2 DEF Digits
    <3>2. f[Hdr] = s[Hdr] + Base * f[Hdr + 1]
      BY <2>2, <3>1 DEF Digits
    <3>3. f[Hdr] < t[Hdr] + t[Hdr]
      BY <1>1, <1>5, <3>1, <3>2
    <3> QED BY <1>1, <3>1, <3>3
  <2>4. ASSUME NEW m \in 0 .. Hdr - 1 - 1, m \in P PROVE m + 1 \in P
    <3>1. PICK i \in 1 .. Hdr - 1 : i = Hdr - (m + 1)
      BY <1>1
    <3>2. i + 1 = Hdr - m /\ m + 1 \in 0 .. Hdr - 1 /\ i \in 1 .. Hdr /\ i + 1 \in 1 .. Hdr + 1
      BY <1>1, <3>1
    <3>3. f[i] = s[i] + Base * f[i + 1] /\ f[i + 1] \in Nat
      BY <2>2, <3>2 DEF Digits
    <3>4. PICK a \in 0 .. Base - 1 : a = s[i]
      BY <3>2
    <3>5. PICK b \in Nat, c \in Nat : b = f[i + 1] /\ c = t[i + 1]
      BY <1>6, <3>3
    <3>6. b < c + c
      BY <2>4, <3>2, <3>5
    <3>7. a + Base * b < Base * c + Base * c
      <4>1. b + 1 <= c + c
        BY <3>6
      <4>2. Base * (b + 1) <= Base * (c + c)
        BY <1>1, <4>1
      <4>3. Base * (b + 1) = Base * b + Base /\ Base * (c + c) = Base * c + Base * c
        BY <1>1
      <4>4. Base * b \in Nat /\ Base * c \in Nat
        BY <1>1
      <4> QED BY <1>1, <4>2, <4>3, <4>4
    <3>8. f[i] < t[i] + t[i]
      BY <1>6, <3>3, <3>4, <3>5, <3>7
    <3> QED BY <3>1, <3>2, <3>8
  <2>5. \A m \in 0 .. Hdr - 1 : m \in P
    <3> HIDE DEF P
    <3>1. Hdr - 1 \in Nat
      BY <1>1
    <3> QED BY <2>3, <2>4, <3>1, InductionUpTo
  <2>6. Hdr - 1 \in P /\ Hdr - (Hdr - 1) = 1 /\ 1 \in 1 .. Hdr + 1
    <3> HIDE DEF P
    <3>1. Hdr - 1 \in 0 .. Hdr - 1 /\ Hdr - (Hdr - 1) = 1 /\ 1 \in 1 .. Hdr + 1
      BY <1>1
    <3> QED BY <2>5, <3>1
  <2>7. f[1] < t[1] + t[1]
    BY <2>6
  <2>8. f[1] \in Nat
    BY <2>2, <2>6 DEF Digits
  <2> QED BY <1>4, <2>2, <2>7, <2>8
<1>8. TopBit \in Nat \ {0}
  <2> DEFINE z == [i \in 1 .. Hdr |-> 0]
  <2>1. z \in [1 .. Hdr -> 0 .. Base - 1]
    BY <1>1
  <2>2. LittleEndian(z) \in Nat /\ LittleEndian(z) < TopBit + TopBit
    BY <1>7, <2>1
  <2>3. TopBit \in Nat
    <3>1. 1 \in 1 .. Hdr + 1
      BY <1>1
    <3> QED BY <1>4, <3>1 DEF Digits
  <2> QED BY <2>2, <2>3
<1> QED BY <1>7, <1>8

-----------------------------------------------------------------------------
(* Headers of packets *)

\* What the header at the beginning of v says.
Short(tag, v) == tag = "abridged" /\ v[1] \notin {Half - 1, Base - 1}
HeaderLen(tag, v) == IF Short(tag, v) THEN 1 ELSE Hdr
PayloadLen(tag, v) ==
  IF Short(tag, v) THEN Unit * (v[1] % Half)
  ELSE IF tag = "abridged" THEN Unit * LittleEndian(SubSeq(v, 2, Hdr))
  ELSE LittleEndian(SubSeq(v, 1, Hdr)) % TopBit

Plain(frame) == [i \in DOMAIN frame |-> frame[i].val]

\* The first value is a number.
LEMMA FirstValue ==
  ASSUME NEW v \in Seq(Values), v # <<>>
  PROVE  v[1] \in Nat
<1>1. \A x \in 0 .. Base - 1 : x \in Nat
  BY UpstreamAssumption
<1>2. 1 \in 1 .. Len(v)
  OBVIOUS
<1>3. v[1] \in Values
  BY <1>2, ElementOfSeq
<1> QED BY <1>1, <1>3, UpstreamAssumption, Zenon

\* What stands in a header.
LEMMA HeaderBytes ==
  ASSUME NEW v \in Seq(Values), Len(v) >= Hdr
  PROVE  /\ Hdr \in Nat \ {0} /\ Half \in Nat \ {0} /\ Unit \in Nat \ {0}
         /\ LittleEndian(SubSeq(v, 2, Hdr)) \in Nat
         /\ LittleEndian(SubSeq(v, 1, Hdr)) \in Nat
         /\ LittleEndian(SubSeq(v, 1, Hdr)) < TopBit + TopBit
         /\ TopBit \in Nat \ {0}
<1>1. Half \in Nat \ {0} /\ Hdr \in Nat \ {0} /\ Unit \in Nat \ {0} /\ Base \in Nat
  BY UpstreamAssumption DEF Half
<1>2. \A i \in 1 .. Hdr : v[i] \in 0 .. Base - 1
  <2>1. \A i \in 1 .. Hdr : v[i] \in Values
    BY <1>1
  <2> QED BY <2>1, UpstreamAssumption
<1>3. SubSeq(v, 1, Hdr) \in [1 .. Hdr -> 0 .. Base - 1]
  <2> DEFINE h == SubSeq(v, 1, Hdr)
             D == 0 .. Base - 1
  <2>1. 1 \in Int /\ Hdr \in Int /\ \A i \in 1 .. Hdr : v[i] \in D
    BY <1>1, <1>2
  <2> HIDE DEF D
  <2>2. h \in Seq(D) /\ Len(h) = IF 1 <= Hdr THEN Hdr - 1 + 1 ELSE 0
    BY <2>1, SubSeqProperties
  <2>3. Len(h) = Hdr
    BY <1>1, <2>2
  <2> HIDE DEF h
  <2>4. h \in [1 .. Hdr -> D]
    BY <2>2, <2>3, LenProperties
  <2> QED BY <2>4 DEF h, D
<1>4. PICK n \in Nat : n = Hdr - 1
  BY <1>1
<1>5. SubSeq(v, 2, Hdr) \in [1 .. n -> Nat]
  <2> DEFINE h == SubSeq(v, 2, Hdr)
  <2>1. 2 \in Int /\ Hdr \in Int /\ \A i \in 2 .. Hdr : v[i] \in Nat
    BY <1>1, <1>2
  <2>2. h \in Seq(Nat) /\ Len(h) = IF 2 <= Hdr THEN Hdr - 2 + 1 ELSE 0
    BY <2>1, SubSeqProperties
  <2>3. Len(h) = n
    BY <1>1, <1>4, <2>2
  <2> HIDE DEF h
  <2>4. h \in [1 .. n -> Nat]
    BY <2>2, <2>3, LenProperties
  <2> QED BY <2>4 DEF h
<1>6. LittleEndian(SubSeq(v, 2, Hdr)) \in Nat
  <2>1. PICK f : Digits(f, SubSeq(v, 2, Hdr), n) /\ LittleEndian(SubSeq(v, 2, Hdr)) = f[1]
    BY <1>5, LittleEndianIs
  <2>2. 1 \in 1 .. n + 1
    BY <1>4
  <2> QED BY <2>1, <2>2 DEF Digits
<1>7. /\ LittleEndian(SubSeq(v, 1, Hdr)) \in Nat
      /\ LittleEndian(SubSeq(v, 1, Hdr)) < TopBit + TopBit
  BY <1>3, TopBitIsHalf, Zenon
<1> QED BY <1>1, <1>6, <1>7, TopBitIsHalf

\* Without its top bit a number below twice that bit is what is left of it.
LEMMA WithoutTopBit ==
  ASSUME NEW t \in Nat \ {0}, NEW x \in Nat, x < t + t
  PROVE  x % t = IF x < t THEN x ELSE x - t
<1>1. x % t \in 0 .. t - 1 /\ x = t * (x \div t) + (x % t) /\ x \div t \in Int
  OBVIOUS
<1>2. PICK q \in Int, r \in 0 .. t - 1 : r = x % t /\ x = t * q + r
  BY <1>1
<1>3. q >= 0
  <2>1. SUFFICES ASSUME q <= -1 PROVE FALSE
    OBVIOUS
  <2>2. t * q <= t * (-1)
    BY <2>1
  <2> QED BY <1>2, <2>2
<1>4. q <= 1
  <2>1. SUFFICES ASSUME q >= 2 PROVE FALSE
    OBVIOUS
  <2>2. t * q >= t * 2
    BY <2>1
  <2> QED BY <1>2, <2>2
<1>5. CASE q = 0
  BY <1>2, <1>5
<1>6. CASE q = 1
  BY <1>2, <1>6
<1> QED BY <1>2, <1>3, <1>4, <1>5, <1>6

\* The types of what a header says.
LEMMA HeaderType ==
  ASSUME NEW tag, NEW v \in Seq(Values), v # <<>>, Len(v) >= HeaderLen(tag, v)
  PROVE  HeaderLen(tag, v) \in Nat \ {0} /\ PayloadLen(tag, v) \in Nat
<1>1. Half \in Nat \ {0} /\ Hdr \in Nat \ {0} /\ Unit \in Nat \ {0}
  BY UpstreamAssumption DEF Half
<1>2. CASE Short(tag, v)
  <2>1. v[1] \in Nat
    BY FirstValue
  <2>2. v[1] % Half \in Nat
    BY <1>1, <2>1
  <2>3. Unit * (v[1] % Half) \in Nat
    BY <1>1, <2>2
  <2> QED BY <1>2, <2>3 DEF HeaderLen, PayloadLen
<1>3. CASE ~Short(tag, v)
  <2>1. Len(v) >= Hdr
    BY <1>3 DEF HeaderLen
  <2>2. /\ LittleEndian(SubSeq(v, 2, Hdr)) \in Nat /\ LittleEndian(SubSeq(v, 1, Hdr)) \in Nat
        /\ TopBit \in Nat \ {0}
    BY <2>1, HeaderBytes
  <2>3. LittleEndian(SubSeq(v, 1, Hdr)) % TopBit \in Nat
    BY <2>2
  <2>4. Unit * LittleEndian(SubSeq(v, 2, Hdr)) \in Nat
    BY <1>1, <2>2
  <2> QED BY <1>1, <1>3, <2>3, <2>4 DEF HeaderLen, PayloadLen
<1> QED BY <1>2, <1>3

\* nextPacketLen reads the header.
LEMMA NextPacketLenIs ==
  ASSUME NEW tag \in Protos, NEW v \in Seq(Values), v # <<>>
  PROVE  nextPacketLen(tag, v) =
           IF Len(v) < HeaderLen(tag, v) THEN nil ELSE Whole(v, HeaderLen(tag, v), PayloadLen(tag, v))
<1>1. Half \in Nat \ {0} /\ Hdr \in Nat \ {0} /\ Unit \in Nat \ {0} /\ Len(v) \in Nat \ {0}
  BY UpstreamAssumption DEF Half
<1>2. CASE Short(tag, v)
  <2>1. ~(v[1] \in {Half - 1, Base - 1}) /\ tag = "abridged"
    BY <1>2 DEF Short
  <2>2. v[1] % Half \in Int
    <3>1. v[1] \in Nat
      BY FirstValue
    <3> QED BY <1>1, <3>1
  <2>3. (v[1] % Half) * Unit = Unit * (v[1] % Half)
    BY <1>1, <2>2
  <2>4. nextPacketLen(tag, v) = Whole(v, 1, Unit * (v[1] % Half))
    BY <2>1, <2>3, Zenon DEF nextPacketLen, nextAbridgedLen
  <2>5. HeaderLen(tag, v) = 1 /\ PayloadLen(tag, v) = Unit * (v[1] % Half) /\ ~(Len(v) < 1)
    BY <1>1, <1>2 DEF HeaderLen, PayloadLen
  <2> QED BY <2>4, <2>5
<1>3. CASE ~Short(tag, v) /\ Len(v) < Hdr
  <2>1. HeaderLen(tag, v) = Hdr
    BY <1>3 DEF HeaderLen
  <2>2. nextPacketLen(tag, v) = nil
    BY <1>3, Zenon DEF Short, nextPacketLen, nextAbridgedLen, nextIntermediateLen
  <2> QED BY <1>3, <2>1, <2>2
<1>4. CASE ~Short(tag, v) /\ ~(Len(v) < Hdr)
  <2>1. Len(v) >= Hdr
    BY <1>1, <1>4
  <2>2. LittleEndian(SubSeq(v, 2, Hdr)) \in Nat
    BY <2>1, HeaderBytes
  <2>3. LittleEndian(SubSeq(v, 2, Hdr)) * Unit = Unit * LittleEndian(SubSeq(v, 2, Hdr))
    BY <1>1, <2>2
  <2>4. HeaderLen(tag, v) = Hdr
    BY <1>4 DEF HeaderLen
  <2>5. nextPacketLen(tag, v) = Whole(v, Hdr, PayloadLen(tag, v))
    BY <1>4, <2>3, Zenon DEF Short, PayloadLen, nextPacketLen, nextAbridgedLen, nextIntermediateLen
  <2> QED BY <1>4, <2>4, <2>5
<1> QED BY <1>2, <1>3, <1>4

\* What it finds is more to wait for, a zero length or a packet that is all there.
LEMMA NextPacketLenType ==
  ASSUME NEW tag \in Protos, NEW v \in Seq(Values), v # <<>>
  PROVE  /\ nextPacketLen(tag, v) \in {nil, 0} \cup 1 .. Len(v)
         /\ nextPacketLen(tag, v) = nil =>
              \/ Len(v) < HeaderLen(tag, v)
              \/ Len(v) < HeaderLen(tag, v) + PayloadLen(tag, v)
         /\ nextPacketLen(tag, v) \in 1 .. Len(v) =>
              /\ Len(v) >= HeaderLen(tag, v) /\ PayloadLen(tag, v) > 0
              /\ nextPacketLen(tag, v) = HeaderLen(tag, v) + PayloadLen(tag, v)
<1> DEFINE h == HeaderLen(tag, v)
           p == PayloadLen(tag, v)
           len == nextPacketLen(tag, v)
<1>1. len = IF Len(v) < h THEN nil ELSE Whole(v, h, p)
  BY NextPacketLenIs
<1>2. Len(v) \in Nat /\ h \in Nat \ {0}
  BY UpstreamAssumption DEF HeaderLen
<1>3. Len(v) >= h => p \in Nat
  BY HeaderType
<1> HIDE DEF h, p, len
<1> SUFFICES /\ len \in {nil, 0} \cup 1 .. Len(v)
             /\ len = nil => Len(v) < h \/ Len(v) < h + p
             /\ len \in 1 .. Len(v) => Len(v) >= h /\ p > 0 /\ len = h + p
  BY DEF h, p, len
<1>4. CASE Len(v) < h
  BY <1>1, <1>2, <1>4 DEF nil
<1>5. CASE Len(v) >= h
  <2>1. len = Whole(v, h, p) /\ p \in Nat
    BY <1>1, <1>2, <1>3, <1>5
  <2> QED BY <1>2, <1>5, <2>1 DEF Whole, nil
<1> QED BY <1>2, <1>4, <1>5

\* Sequences that begin alike have the same parts there.
LEMMA SameSubSeq ==
  ASSUME NEW S, NEW v \in Seq(S), NEW w \in Seq(S), NEW m \in Nat \ {0}, NEW n \in Nat,
         n <= Len(v), n <= Len(w), \A i \in 1 .. n : w[i] = v[i]
  PROVE  SubSeq(w, m, n) = SubSeq(v, m, n)
<1>1. \A i \in m .. n : i \in 1 .. n /\ i \in 1 .. Len(v) /\ i \in 1 .. Len(w)
  OBVIOUS
<1>2. \A i \in m .. n : v[i] \in S /\ w[i] \in S
  BY <1>1, ElementOfSeq
<1>3. m \in Int /\ n \in Int
  OBVIOUS
<1> DEFINE a == SubSeq(v, m, n)
           b == SubSeq(w, m, n)
<1>4. /\ a \in Seq(S) /\ Len(a) = IF m <= n THEN n - m + 1 ELSE 0
      /\ \A i \in 1 .. n - m + 1 : a[i] = v[m + i - 1]
  BY <1>2, <1>3, SubSeqProperties
<1>5. /\ b \in Seq(S) /\ Len(b) = IF m <= n THEN n - m + 1 ELSE 0
      /\ \A i \in 1 .. n - m + 1 : b[i] = w[m + i - 1]
  BY <1>2, <1>3, SubSeqProperties
<1> HIDE DEF a, b
<1>6. \A i \in 1 .. Len(b) : b[i] = a[i]
  <2> TAKE i \in 1 .. Len(b)
  <2>1. i \in 1 .. n - m + 1 /\ m + i - 1 \in 1 .. n
    BY <1>5
  <2> QED BY <1>4, <1>5, <2>1
<1>7. a = b
  BY <1>4, <1>5, <1>6, SeqEqual
<1> QED BY <1>7 DEF a, b

\* A header says the same whatever follows it.
LEMMA HeaderSame ==
  ASSUME NEW tag, NEW v \in Seq(Values), NEW w \in Seq(Values), v # <<>>,
         Len(v) <= Len(w), \A i \in 1 .. Len(v) : w[i] = v[i]
  PROVE  /\ HeaderLen(tag, w) = HeaderLen(tag, v)
         /\ Len(v) >= HeaderLen(tag, v) => PayloadLen(tag, w) = PayloadLen(tag, v)
<1>1. w[1] = v[1]
  <2>1. 1 \in 1 .. Len(v)
    OBVIOUS
  <2> QED BY <2>1
<1>2. Short(tag, w) = Short(tag, v)
  BY <1>1 DEF Short
<1>3. HeaderLen(tag, w) = HeaderLen(tag, v)
  BY <1>2 DEF HeaderLen
<1>4. ASSUME Len(v) >= HeaderLen(tag, v) PROVE PayloadLen(tag, w) = PayloadLen(tag, v)
  <2>1. CASE Short(tag, v)
    BY <1>1, <1>2, <2>1 DEF PayloadLen
  <2>2. CASE ~Short(tag, v)
    <3>1. Hdr \in Nat /\ Hdr <= Len(v) /\ Hdr <= Len(w) /\ \A i \in 1 .. Hdr : w[i] = v[i]
      BY <1>4, <2>2, UpstreamAssumption DEF HeaderLen
    <3>2. 1 \in Nat \ {0} /\ 2 \in Nat \ {0}
      OBVIOUS
    <3>3. SubSeq(w, 1, Hdr) = SubSeq(v, 1, Hdr)
      BY <3>1, <3>2, SameSubSeq
    <3>4. SubSeq(w, 2, Hdr) = SubSeq(v, 2, Hdr)
      BY <3>1, <3>2, SameSubSeq
    <3> QED BY <1>2, <2>2, <3>3, <3>4, Zenon DEF PayloadLen
  <2> QED BY <2>1, <2>2
<1> QED BY <1>3, <1>4

\* The plain values of some bytes.
LEMMA PlainType ==
  ASSUME NEW s \in Seq(Byte)
  PROVE  /\ Plain(s) \in Seq(Values) /\ Len(Plain(s)) = Len(s)
         /\ \A i \in 1 .. Len(s) : Plain(s)[i] = s[i].val
<1>1. \A i \in 1 .. Len(s) : s[i].val \in Values
  <2>1. \A i \in 1 .. Len(s) : s[i] \in Byte
    BY ElementOfSeq
  <2> QED BY <2>1 DEF Byte
<1>2. DOMAIN s = 1 .. Len(s) /\ Len(s) \in Nat
  OBVIOUS
<1>3. Plain(s) = [i \in 1 .. Len(s) |-> s[i].val]
  BY <1>2, Zenon DEF Plain
<1>4. \A i \in 1 .. Len(s) : Plain(s)[i] = s[i].val
  BY <1>3
<1>5. Plain(s) \in Seq(Values)
  BY <1>1, <1>2, <1>3
<1> QED BY <1>2, <1>3, <1>4, <1>5

\* A packet is what the lengths in its header say.
LEMMA IsPacketIs ==
  ASSUME NEW tag \in Protos, NEW frame \in Seq(Byte), frame # <<>>
  PROVE  IsPacket(tag, frame) <=>
           /\ Len(frame) >= HeaderLen(tag, Plain(frame)) /\ PayloadLen(tag, Plain(frame)) > 0
           /\ Len(frame) = HeaderLen(tag, Plain(frame)) + PayloadLen(tag, Plain(frame))
<1> DEFINE v == Plain(frame)
           H == HeaderLen(tag, v)
           P == PayloadLen(tag, v)
           long == tag = "abridged" /\ v[1] \in {Half - 1, Base - 1}
           short == tag = "abridged" /\ ~long
           Says(h, p) ==
             /\ h + p = Len(frame)
             /\ \/ short /\ h = 1 /\ p = Unit * (v[1] % Half)
                \/ long /\ h = Hdr /\ p = Unit * LittleEndian(SubSeq(v, 2, Hdr))
                \/ /\ tag # "abridged" /\ h = Hdr /\ p < TopBit
                   /\ \E flag \in {0, TopBit} : LittleEndian(SubSeq(v, 1, Hdr)) = flag + p
<1>1. IsPacket(tag, frame) <=> \E h \in {1, Hdr}, p \in 1 .. Len(frame) : Says(h, p)
  BY Zenon DEF IsPacket, Plain
<1>2. v \in Seq(Values) /\ v # <<>> /\ Len(v) = Len(frame) /\ Len(frame) \in Nat \ {0}
  BY PlainType
<1> HIDE DEF v
<1>3. Hdr \in Nat \ {0} /\ short = Short(tag, v) /\ H \in {1, Hdr}
  BY UpstreamAssumption DEF Short, HeaderLen
<1>4. ASSUME NEW h \in {1, Hdr}, NEW p \in 1 .. Len(frame), Says(h, p)
      PROVE  Len(frame) >= H /\ P > 0 /\ Len(frame) = H + P
  <2>0. h + p = Len(frame) /\ h \in Nat /\ p \in Nat \ {0}
    BY <1>2, <1>3, <1>4
  <2>1. CASE short
    <3>1. h = 1 /\ p = Unit * (v[1] % Half)
      BY <1>4, <2>1, Zenon
    <3>2. H = 1 /\ P = Unit * (v[1] % Half)
      BY <1>3, <2>1, Zenon DEF HeaderLen, PayloadLen
    <3> QED BY <2>0, <3>1, <3>2
  <2>2. CASE long
    <3>1. h = Hdr /\ p = Unit * LittleEndian(SubSeq(v, 2, Hdr))
      BY <1>4, <2>2, Zenon
    <3>2. H = Hdr /\ P = Unit * LittleEndian(SubSeq(v, 2, Hdr))
      BY <1>3, <2>2, Zenon DEF HeaderLen, PayloadLen
    <3> QED BY <2>0, <3>1, <3>2
  <2>3. CASE tag # "abridged"
    <3>1. h = Hdr /\ H = Hdr /\ p < TopBit /\ Len(v) >= Hdr
      <4>1. h = Hdr /\ p < TopBit
        BY <1>4, <2>3, Zenon
      <4>2. H = Hdr
        BY <1>3, <2>3, Zenon DEF HeaderLen
      <4> QED BY <1>2, <2>0, <4>1, <4>2
    <3>2. TopBit \in Nat \ {0} /\ LittleEndian(SubSeq(v, 1, Hdr)) \in Nat
      BY <1>2, <3>1, HeaderBytes
    <3>3. PICK x \in Nat, t \in Nat \ {0} : x = LittleEndian(SubSeq(v, 1, Hdr)) /\ t = TopBit
      BY <3>2
    <3>4. PICK flag \in {0, t} : x = flag + p
      BY <1>4, <2>3, <3>3
    <3>5. x < t + t /\ x % t = p
      <4>1. x < t + t /\ p = (IF x < t THEN x ELSE x - t)
        BY <3>1, <3>3, <3>4
      <4> QED BY <4>1, WithoutTopBit
    <3>6. P = p
      BY <1>3, <2>3, <3>3, <3>5 DEF PayloadLen, Short
    <3> QED BY <2>0, <3>1, <3>6
  <2> QED BY <2>1, <2>2, <2>3
<1>5. ASSUME Len(frame) >= H, P > 0, Len(frame) = H + P
      PROVE  \E h \in {1, Hdr}, p \in 1 .. Len(frame) : Says(h, p)
  <2>1. P \in Nat
    BY <1>2, <1>5, HeaderType
  <2>2. H \in {1, Hdr} /\ P \in 1 .. Len(frame) /\ H + P = Len(frame)
    BY <1>2, <1>3, <1>5, <2>1
  <2>3. Says(H, P)
    <3>1. CASE short
      BY <1>3, <2>2, <3>1 DEF HeaderLen, PayloadLen
    <3>2. CASE long
      BY <1>3, <2>2, <3>2 DEF HeaderLen, PayloadLen
    <3>3. CASE tag # "abridged"
      <4>1. H = Hdr /\ Len(v) >= Hdr
        BY <1>2, <1>3, <1>5, <3>3 DEF HeaderLen, Short
      <4>2. PICK x \in Nat, t \in Nat \ {0} :
              x = LittleEndian(SubSeq(v, 1, Hdr)) /\ t = TopBit /\ x < t + t
        BY <1>2, <4>1, HeaderBytes
      <4>3. P = x % t
        BY <1>3, <3>3, <4>2 DEF PayloadLen, Short
      <4>4. P = IF x < t THEN x ELSE x - t
        BY <4>2, <4>3, WithoutTopBit
      <4>5. P < t /\ \E flag \in {0, t} : x = flag + P
        BY <4>2, <4>4
      <4> QED BY <2>2, <3>3, <4>1, <4>2, <4>5
    <3> QED BY <3>1, <3>2, <3>3
  <2> QED BY <2>2, <2>3
<1>6. (\E h \in {1, Hdr}, p \in 1 .. Len(frame) : Says(h, p)) <=>
        Len(frame) >= H /\ P > 0 /\ Len(frame) = H + P
  <2> HIDE DEF Says
  <2> QED BY <1>4, <1>5
<1> QED BY <1>1, <1>6, Zenon DEF v

\* What nextPacketLen cuts off is a packet, and while it waits for more there is none.
LEMMA PacketsAreCut ==
  ASSUME NEW tag \in Protos, NEW w \in Seq(Values), w # <<>>,
         NEW frame \in Seq(Byte), frame # <<>>, Len(frame) <= Len(w),
         \A i \in 1 .. Len(frame) : frame[i].val = w[i]
  PROVE  /\ nextPacketLen(tag, w) = Len(frame) => IsPacket(tag, frame)
         /\ nextPacketLen(tag, w) = nil => ~IsPacket(tag, frame)
<1> DEFINE v == Plain(frame)
<1>1. v \in Seq(Values) /\ v # <<>> /\ Len(v) = Len(frame) /\ Len(v) \in Nat \ {0}
  BY PlainType
<1>2. \A i \in 1 .. Len(v) : w[i] = v[i]
  BY <1>1, PlainType
<1>3. IsPacket(tag, frame) <=> /\ Len(v) >= HeaderLen(tag, v) /\ PayloadLen(tag, v) > 0
                               /\ Len(v) = HeaderLen(tag, v) + PayloadLen(tag, v)
  BY <1>1, IsPacketIs
<1> HIDE DEF v
<1>4. /\ HeaderLen(tag, w) = HeaderLen(tag, v) /\ HeaderLen(tag, w) \in Nat
      /\ Len(v) >= HeaderLen(tag, v) => PayloadLen(tag, w) = PayloadLen(tag, v)
  <2>1. /\ HeaderLen(tag, w) = HeaderLen(tag, v)
        /\ Len(v) >= HeaderLen(tag, v) => PayloadLen(tag, w) = PayloadLen(tag, v)
    BY <1>1, <1>2, HeaderSame
  <2> QED BY <2>1, UpstreamAssumption DEF HeaderLen
<1>5. ASSUME nextPacketLen(tag, w) = Len(frame) PROVE IsPacket(tag, frame)
  <2>1. nextPacketLen(tag, w) \in 1 .. Len(w)
    BY <1>1, <1>5
  <2>2. /\ PayloadLen(tag, w) > 0
        /\ Len(v) = HeaderLen(tag, w) + PayloadLen(tag, w)
        /\ Len(w) >= HeaderLen(tag, w)
    BY <1>1, <1>5, <2>1, NextPacketLenType
  <2>3. PayloadLen(tag, w) \in Nat
    BY <2>2, HeaderType
  <2>4. Len(v) >= HeaderLen(tag, v)
    BY <1>1, <1>4, <2>2, <2>3
  <2> QED BY <1>3, <1>4, <2>2, <2>4
<1>6. ASSUME nextPacketLen(tag, w) = nil, IsPacket(tag, frame) PROVE FALSE
  <2>1. \/ Len(w) < HeaderLen(tag, w)
        \/ Len(w) < HeaderLen(tag, w) + PayloadLen(tag, w)
    BY <1>6, NextPacketLenType
  <2>2. /\ Len(v) >= HeaderLen(tag, w)
        /\ Len(v) = HeaderLen(tag, w) + PayloadLen(tag, w)
    BY <1>3, <1>4, <1>6
  <2>3. Len(v) <= Len(w) /\ Len(w) \in Nat
    BY <1>1
  <2>4. HeaderLen(tag, w) + PayloadLen(tag, w) = Len(v)
    BY <2>2
  <2> QED BY <1>1, <1>4, <2>1, <2>2, <2>3, <2>4
<1> QED BY <1>5, <1>6

-----------------------------------------------------------------------------
(* The loop of split *)

\* Where the i-th packet begins, after offset o.
Start(ends, o, i) == IF i = 1 THEN o ELSE ends[i - 1]

Left(plain, o) == SubSeq(plain, o + 1, Len(plain))

\* What the loop of split finds from offset o on: packets one after another, then a
\* zero length, or less than a packet.
CutFrom(tag, plain, o, r) ==
  /\ r \in [ends : Seq(0 .. Len(plain)), disabled : BOOLEAN]
  /\ \A i \in 1 .. Len(r.ends) :
       /\ Start(r.ends, o, i) < r.ends[i]
       /\ (i < Len(r.ends) \/ ~r.disabled) =>
            nextPacketLen(tag, Left(plain, Start(r.ends, o, i))) = r.ends[i] - Start(r.ends, o, i)
  /\ r.disabled => r.ends # <<>> /\ r.ends[Len(r.ends)] = Len(plain)
  /\ ~r.disabled => LET last == Start(r.ends, o, Len(r.ends) + 1)
                    IN  last = Len(plain) \/ nextPacketLen(tag, Left(plain, last)) = nil

\* What is left from offset o on.
LEMMA LeftType ==
  ASSUME NEW S, NEW plain \in Seq(S), NEW o \in 0 .. Len(plain)
  PROVE  /\ Left(plain, o) \in Seq(S) /\ Len(Left(plain, o)) = Len(plain) - o
         /\ \A i \in 1 .. Len(plain) - o : Left(plain, o)[i] = plain[o + i]
         /\ Left(plain, o) = <<>> <=> o = Len(plain)
<1>1. o + 1 \in Int /\ Len(plain) \in Int /\ \A i \in o + 1 .. Len(plain) : i \in 1 .. Len(plain)
  OBVIOUS
<1>2. \A i \in o + 1 .. Len(plain) : plain[i] \in S
  BY <1>1, ElementOfSeq
<1>3. /\ Left(plain, o) \in Seq(S)
      /\ Len(Left(plain, o)) = IF o + 1 <= Len(plain) THEN Len(plain) - (o + 1) + 1 ELSE 0
      /\ \A i \in 1 .. Len(plain) - (o + 1) + 1 : Left(plain, o)[i] = plain[o + 1 + i - 1]
  BY <1>1, <1>2, SubSeqProperties DEF Left
<1>4. Len(Left(plain, o)) = Len(plain) - o
  BY <1>1, <1>3
<1>5. \A i \in 1 .. Len(plain) - o : Left(plain, o)[i] = plain[o + i]
  <2> TAKE i \in 1 .. Len(plain) - o
  <2>1. i \in 1 .. Len(plain) - (o + 1) + 1 /\ o + 1 + i - 1 = o + i
    BY <1>1
  <2> QED BY <1>3, <2>1
<1>6. Left(plain, o) = <<>> <=> Len(Left(plain, o)) = 0
  BY <1>3
<1> QED BY <1>1, <1>3, <1>4, <1>5, <1>6

\* The length at offset o.
LenAt(tag, plain, o) ==
  IF Left(plain, o) = <<>> THEN nil ELSE nextPacketLen(tag, Left(plain, o))

\* The only lengths there are.
LEMMA LenAtType ==
  ASSUME NEW tag \in Protos, NEW plain \in Seq(Values), NEW o \in 0 .. Len(plain)
  PROVE  /\ LenAt(tag, plain, o) \in {nil, 0} \cup 1 .. Len(plain) - o
         /\ o = Len(plain) => LenAt(tag, plain, o) = nil
<1>1. CASE Left(plain, o) = <<>>
  BY <1>1 DEF LenAt
<1>2. CASE Left(plain, o) # <<>>
  <2>1. Left(plain, o) \in Seq(Values) /\ Len(Left(plain, o)) = Len(plain) - o /\ o # Len(plain)
    BY <1>2, LeftType
  <2> QED BY <1>2, <2>1, NextPacketLenType DEF LenAt
<1> QED BY <1>1, <1>2

\* The loop of split has a result, from every offset.
LEMMA CutsLoop ==
  ASSUME NEW tag \in Protos, NEW plain \in Seq(Values)
  PROVE  \E f : /\ Cuts(tag, plain) = f[0]
                /\ \A o \in 0 .. Len(plain) : f[o] =
                     CASE LenAt(tag, plain, o) = nil -> [ends |-> <<>>, disabled |-> FALSE]
                       [] LenAt(tag, plain, o) = 0 -> [ends |-> <<Len(plain)>>, disabled |-> TRUE]
                       [] OTHER -> [f[o + LenAt(tag, plain, o)] EXCEPT
                                      !.ends = <<o + LenAt(tag, plain, o)>> \o @]
<1> DEFINE n == Len(plain)
           len(o) == LenAt(tag, plain, o)
           R == [ends : Seq(Nat), disabled : BOOLEAN]
           next == [o \in 0 .. n |-> IF len(o) = nil \/ len(o) = 0 THEN o ELSE o + len(o)]
           base == [o \in 0 .. n |-> IF len(o) = nil THEN [ends |-> <<>>, disabled |-> FALSE]
                                     ELSE [ends |-> <<n>>, disabled |-> TRUE]]
           step == [o \in 0 .. n |-> [r \in R |-> [r EXCEPT !.ends = <<next[o]>> \o @]]]
           Body(g, o) == CASE len(o) = nil -> [ends |-> <<>>, disabled |-> FALSE]
                           [] len(o) = 0 -> [ends |-> <<n>>, disabled |-> TRUE]
                           [] OTHER -> [g[o + len(o)] EXCEPT !.ends = <<o + len(o)>> \o @]
           Is(g) == g = [o \in 0 .. n |-> Body(g, o)]
           f == CHOOSE g : Is(g)
<1>1. n \in Nat
  OBVIOUS
<1>2. \A o \in 0 .. n : len(o) \in {nil, 0} \cup 1 .. n - o
  BY LenAtType
<1>3. /\ next \in [0 .. n -> 0 .. n]
      /\ \A o \in 0 .. n : /\ (next[o] > o) = ~(len(o) = nil \/ len(o) = 0)
                           /\ next[o] > o => next[o] = o + len(o)
  <2> HIDE DEF len
  <2>1. \A o \in 0 .. n : \/ o + len(o) \in 0 .. n /\ o + len(o) > o
                          \/ len(o) = nil
                          \/ len(o) = 0
    BY <1>1, <1>2
  <2> QED BY <1>1, <2>1
<1>4. base \in [0 .. n -> R]
  <2>1. <<>> \in Seq(Nat) /\ <<n>> \in Seq(Nat)
    BY <1>1
  <2> QED BY <2>1
<1>5. step \in [0 .. n -> [R -> R]]
  <2>1. ASSUME NEW o \in 0 .. n, NEW r \in R PROVE [r EXCEPT !.ends = <<next[o]>> \o @] \in R
    <3>1. next[o] \in Nat /\ <<next[o]>> \in Seq(Nat) /\ r.ends \in Seq(Nat)
      BY <1>3
    <3>2. <<next[o]>> \o r.ends \in Seq(Nat)
      BY <3>1, ConcatProperties
    <3> QED BY <3>2
  <2> HIDE DEF R
  <2> QED BY <2>1
<1> HIDE DEF R
<1>6. \A o \in 0 .. n : \A r \in R : step[o][r] = [r EXCEPT !.ends = <<next[o]>> \o @]
  OBVIOUS
<1> HIDE DEF next, base, step, f
<1>7. PICK g \in [0 .. n -> R] :
        \A o \in 0 .. n : g[o] = IF next[o] > o THEN step[o][g[next[o]]] ELSE base[o]
  <2>1. \E g \in [0 .. n -> R] : IsJump(g, n, next, base, step)
    BY <1>1, <1>3, <1>4, <1>5, JumpExists
  <2> QED BY <2>1, Zenon DEF IsJump
<1>8. ASSUME NEW o \in 0 .. n PROVE g[o] = Body(g, o)
  <2>1. CASE len(o) = nil
    <3>1. ~(next[o] > o) /\ base[o] = [ends |-> <<>>, disabled |-> FALSE]
      BY <1>3, <2>1 DEF base
    <3> HIDE DEF len
    <3> QED BY <1>7, <2>1, <3>1 DEF nil
  <2>2. CASE len(o) # nil /\ len(o) = 0
    <3>1. ~(next[o] > o) /\ base[o] = [ends |-> <<n>>, disabled |-> TRUE]
      BY <1>3, <2>2 DEF base
    <3> QED BY <1>7, <2>2, <3>1
  <2>3. CASE len(o) # nil /\ len(o) # 0
    <3>1. next[o] > o /\ next[o] = o + len(o) /\ next[o] \in 0 .. n
      BY <1>3, <2>3
    <3>2. g[next[o]] \in R
      BY <3>1
    <3>3. g[o] = [g[next[o]] EXCEPT !.ends = <<next[o]>> \o @]
      BY <1>6, <1>7, <3>1, <3>2
    <3> HIDE DEF len
    <3> QED BY <2>3, <3>1, <3>3
  <2> QED BY <2>1, <2>2, <2>3
<1>9. Is(g)
  <2> HIDE DEF Body
  <2> QED BY <1>8
<1>10. Is(f)
  <2> HIDE DEF Is
  <2> QED BY <1>9, Zenon DEF f
<1>11. Cuts(tag, plain) = f[0]
  BY Zenon DEF Cuts, f, LenAt, Left
<1>12. \A o \in 0 .. n : f[o] = Body(f, o)
  <2> HIDE DEF Body
  <2> QED BY <1>10
<1> QED BY <1>11, <1>12, Zenon

\* A sequence of one element.
LEMMA OneElement ==
  ASSUME NEW S, NEW x \in S
  PROVE  <<x>> \in Seq(S) /\ Len(<<x>>) = 1 /\ <<x>>[1] = x
OBVIOUS

\* The change that "from" makes to the result of the rest.
LEMMA AddCut ==
  ASSUME NEW S, NEW r \in [ends : Seq(S), disabled : BOOLEAN], NEW x \in Seq(S)
  PROVE  [r EXCEPT !.ends = x \o @] = [ends |-> x \o r.ends, disabled |-> r.disabled]
<1>1. PICK y \in Seq(S) : y = x \o r.ends
  BY ConcatProperties
<1>2. [r EXCEPT !.ends = y] = [ends |-> y, disabled |-> r.disabled]
  OBVIOUS
<1> QED BY <1>1, <1>2

\* A packet before those that are found after it.
LEMMA CutBefore ==
  ASSUME NEW tag \in Protos, NEW plain \in Seq(Values),
         NEW o \in 0 .. Len(plain), NEW len \in 1 .. Len(plain) - o,
         nextPacketLen(tag, Left(plain, o)) = len,
         NEW r, CutFrom(tag, plain, o + len, r)
  PROVE  CutFrom(tag, plain, o, [r EXCEPT !.ends = <<o + len>> \o @])
<1> DEFINE ends == <<o + len>> \o r.ends
           D == 0 .. Len(plain)
           R == [r EXCEPT !.ends = <<o + len>> \o @]
<1>1. r.ends \in Seq(D) /\ o + len \in D /\ <<o + len>> \in Seq(D) /\ Len(plain) \in Nat
  <2>1. r.ends \in Seq(D)
    BY DEF CutFrom
  <2>2. o + len \in D /\ Len(plain) \in Nat
    OBVIOUS
  <2> HIDE DEF D
  <2> QED BY <2>1, <2>2, OneElement
<1>2. R = [ends |-> ends, disabled |-> r.disabled]
  <2>1. r \in [ends : Seq(D), disabled : BOOLEAN]
    BY DEF CutFrom
  <2> HIDE DEF D
  <2> QED BY <1>1, <2>1, AddCut
<1>3. /\ ends \in Seq(D) /\ Len(ends) = Len(r.ends) + 1
      /\ ends[1] = o + len /\ \A i \in 1 .. Len(r.ends) : ends[i + 1] = r.ends[i]
  <2> HIDE DEF D
  <2>1. PICK a \in Seq(D) : a = <<o + len>> /\ Len(a) = 1 /\ a[1] = o + len
    BY <1>1
  <2>2. PICK e \in Seq(D) : e = a \o r.ends
    BY <1>1, ConcatProperties
  <2>3. /\ Len(e) = 1 + Len(r.ends)
        /\ \A i \in 1 .. 1 + Len(r.ends) : e[i] = IF i <= 1 THEN a[i] ELSE r.ends[i - 1]
    BY <1>1, <2>1, <2>2, ConcatProperties
  <2>4. Len(r.ends) \in Nat
    BY <1>1
  <2>5. \A i \in 1 .. Len(r.ends) : i + 1 \in 1 .. 1 + Len(r.ends) /\ ~(i + 1 <= 1) /\ i + 1 - 1 = i
    BY <2>4
  <2>6. \A i \in 1 .. Len(r.ends) : e[i + 1] = r.ends[i]
    BY <2>3, <2>5
  <2>7. 1 \in 1 .. 1 + Len(r.ends)
    BY <2>4
  <2> QED BY <2>1, <2>2, <2>3, <2>4, <2>6, <2>7
<1> HIDE DEF ends, R
<1>4. PICK m \in Nat : m = Len(r.ends)
  BY <1>1
<1>5. \A i \in 1 .. m + 1 : Start(ends, o, i + 1) = Start(r.ends, o + len, i)
  <2> TAKE i \in 1 .. m + 1
  <2>1. i + 1 # 1 /\ i + 1 - 1 = i
    BY <1>4
  <2>2. Start(ends, o, i + 1) = ends[i]
    BY <2>1 DEF Start
  <2>3. CASE i = 1
    BY <1>3, <2>2, <2>3 DEF Start
  <2>4. CASE i # 1
    <3>1. i - 1 \in 1 .. m /\ i - 1 + 1 = i
      BY <1>4, <2>4
    <3>2. ends[i] = r.ends[i - 1]
      BY <1>3, <1>4, <3>1
    <3> QED BY <2>2, <2>4, <3>2 DEF Start
  <2> QED BY <2>3, <2>4
<1>6. ASSUME NEW i \in 1 .. Len(ends)
      PROVE  /\ Start(ends, o, i) < ends[i]
             /\ (i < Len(ends) \/ ~r.disabled) =>
                  nextPacketLen(tag, Left(plain, Start(ends, o, i))) = ends[i] - Start(ends, o, i)
  <2>1. CASE i = 1
    <3>1. Start(ends, o, i) = o /\ ends[i] = o + len /\ (o + len) - o = len /\ o < o + len
      BY <1>3, <2>1 DEF Start
    <3> QED BY <3>1
  <2>2. CASE i # 1
    <3>1. PICK j \in 1 .. m : i = j + 1
      <4>1. i - 1 \in 1 .. m /\ i = (i - 1) + 1
        BY <1>3, <1>4, <2>2
      <4> QED BY <4>1
    <3>2. ends[i] = r.ends[j] /\ Start(ends, o, i) = Start(r.ends, o + len, j)
      <4>1. j \in 1 .. m + 1
        BY <1>4
      <4> QED BY <1>3, <1>4, <1>5, <3>1, <4>1
    <3>3. i < Len(ends) => j < Len(r.ends)
      BY <1>3, <1>4, <3>1
    <3>4. /\ Start(r.ends, o + len, j) < r.ends[j]
          /\ (j < Len(r.ends) \/ ~r.disabled) =>
               nextPacketLen(tag, Left(plain, Start(r.ends, o + len, j)))
                 = r.ends[j] - Start(r.ends, o + len, j)
      BY <1>4, Zenon DEF CutFrom
    <3> QED BY <3>2, <3>3, <3>4
  <2> QED BY <2>1, <2>2
<1>7. r.disabled => ends # <<>> /\ ends[Len(ends)] = Len(plain)
  <2>1. ASSUME r.disabled PROVE ends[Len(ends)] = Len(plain)
    <3>1. r.ends # <<>> /\ r.ends[Len(r.ends)] = Len(plain)
      BY <2>1 DEF CutFrom
    <3>2. Len(r.ends) \in 1 .. Len(r.ends)
      BY <1>1, <3>1
    <3> QED BY <1>3, <3>1, <3>2
  <2>2. ends # <<>>
    BY <1>3, <1>4
  <2> QED BY <2>1, <2>2
<1>8. ~r.disabled => \/ Start(ends, o, Len(ends) + 1) = Len(plain)
                     \/ nextPacketLen(tag, Left(plain, Start(ends, o, Len(ends) + 1))) = nil
  <2>1. Start(ends, o, Len(ends) + 1) = Start(r.ends, o + len, Len(r.ends) + 1)
    <3>1. Len(ends) = m + 1 /\ m + 1 \in 1 .. m + 1
      BY <1>3, <1>4
    <3> QED BY <1>4, <1>5, <3>1
  <2> QED BY <2>1 DEF CutFrom
<1>9. R.ends = ends /\ R.disabled = r.disabled /\ r.disabled \in BOOLEAN
  BY <1>2 DEF CutFrom
<1>10. CutFrom(tag, plain, o, R)
  BY <1>2, <1>3, <1>6, <1>7, <1>8, <1>9, Zenon DEF CutFrom, D
<1> QED BY <1>10 DEF R

\* What the loop of split finds, from every offset.
LEMMA CutsEverywhere ==
  ASSUME NEW tag \in Protos, NEW plain \in Seq(Values)
  PROVE  \E f : /\ Cuts(tag, plain) = f[0]
                /\ \A o \in 0 .. Len(plain) :
                     /\ CutFrom(tag, plain, o, f[o])
                     /\ f[o] =
                          CASE LenAt(tag, plain, o) = nil -> [ends |-> <<>>, disabled |-> FALSE]
                            [] LenAt(tag, plain, o) = 0 ->
                                 [ends |-> <<Len(plain)>>, disabled |-> TRUE]
                            [] OTHER -> [f[o + LenAt(tag, plain, o)] EXCEPT
                                           !.ends = <<o + LenAt(tag, plain, o)>> \o @]
<1>1. PICK f :
        /\ Cuts(tag, plain) = f[0]
        /\ \A o \in 0 .. Len(plain) : f[o] =
             CASE LenAt(tag, plain, o) = nil -> [ends |-> <<>>, disabled |-> FALSE]
               [] LenAt(tag, plain, o) = 0 -> [ends |-> <<Len(plain)>>, disabled |-> TRUE]
               [] OTHER -> [f[o + LenAt(tag, plain, o)] EXCEPT
                              !.ends = <<o + LenAt(tag, plain, o)>> \o @]
  BY CutsLoop, Zenon
<1>2. PICK n \in Nat : n = Len(plain)
  OBVIOUS
<1> DEFINE P == {m \in 0 .. n : \A o \in n - m .. n : CutFrom(tag, plain, o, f[o])}
<1>3. ASSUME NEW o \in 0 .. n, \A q \in o + 1 .. n : CutFrom(tag, plain, q, f[q])
      PROVE  CutFrom(tag, plain, o, f[o])
  <2>1. PICK len \in {nil, 0} \cup 1 .. n - o :
          len = LenAt(tag, plain, o) /\ (o = n => len = nil)
    BY <1>2, LenAtType
  <2>0. f[o] = CASE len = nil -> [ends |-> <<>>, disabled |-> FALSE]
                 [] len = 0 -> [ends |-> <<n>>, disabled |-> TRUE]
                 [] OTHER -> [f[o + len] EXCEPT !.ends = <<o + len>> \o @]
    BY <1>1, <1>2, <2>1, Zenon
  <2>2. CASE len = nil
    <3>1. f[o] = [ends |-> <<>>, disabled |-> FALSE]
      BY <2>0, <2>2 DEF nil
    <3>2. o = n \/ nextPacketLen(tag, Left(plain, o)) = nil
      BY <1>2, <2>1, <2>2, LeftType DEF LenAt
    <3> QED BY <1>2, <3>1, <3>2 DEF CutFrom, Start
  <2>3. CASE len = 0
    <3>1. f[o] = [ends |-> <<n>>, disabled |-> TRUE] /\ o # n
      <4>1. f[o] = [ends |-> <<n>>, disabled |-> TRUE]
        BY <2>0, <2>3 DEF nil
      <4>2. o # n
        BY <2>1, <2>3 DEF nil
      <4> QED BY <4>1, <4>2
    <3>2. PICK e \in Seq(0 .. n) : e = <<n>> /\ Len(e) = 1 /\ e[1] = n
      <4>1. n \in 0 .. n
        OBVIOUS
      <4> QED BY <4>1, OneElement
    <3>3. \A i \in 1 .. Len(e) : i = 1 /\ Start(e, o, i) = o /\ e[i] = n /\ o < n /\ ~(i < Len(e))
      BY <3>1, <3>2 DEF Start
    <3>4. f[o].ends = e /\ f[o].disabled = TRUE /\ e # <<>> /\ e[Len(e)] = Len(plain)
      BY <1>2, <3>1, <3>2
    <3>5. f[o] \in [ends : Seq(0 .. n), disabled : BOOLEAN]
      BY <3>1, <3>2
    <3> QED BY <1>2, <3>2, <3>3, <3>4, <3>5 DEF CutFrom
  <2>4. CASE len \notin {nil, 0}
    <3>1. len \in 1 .. n - o /\ f[o] = [f[o + len] EXCEPT !.ends = <<o + len>> \o @]
      BY <2>0, <2>1, <2>4
    <3>2. nextPacketLen(tag, Left(plain, o)) = len
      BY <2>1, <2>4 DEF LenAt
    <3>3. o + len \in o + 1 .. n
      BY <1>2, <3>1
    <3>4. CutFrom(tag, plain, o + len, f[o + len])
      BY <1>3, <3>3
    <3>5. o \in 0 .. Len(plain) /\ len \in 1 .. Len(plain) - o
      BY <1>2, <3>1
    <3>6. CutFrom(tag, plain, o, [f[o + len] EXCEPT !.ends = <<o + len>> \o @])
      BY <3>2, <3>4, <3>5, CutBefore, Zenon
    <3> QED BY <3>1, <3>6, Zenon
  <2> QED BY <2>2, <2>3, <2>4
<1>4. 0 \in P
  <2>1. n \in 0 .. n /\ \A q \in n + 1 .. n : FALSE
    OBVIOUS
  <2>2. \A q \in n + 1 .. n : CutFrom(tag, plain, q, f[q])
    BY <2>1, Zenon
  <2>3. CutFrom(tag, plain, n, f[n])
    BY <1>3, <2>1, <2>2, Zenon
  <2>4. \A o \in n - 0 .. n : o = n
    OBVIOUS
  <2> QED BY <2>1, <2>3, <2>4
<1>5. ASSUME NEW m \in 0 .. n - 1, m \in P PROVE m + 1 \in P
  <2>1. PICK k \in 0 .. n : k = n - (m + 1) /\ n - m = k + 1
    BY <1>2
  <2>2. \A q \in k + 1 .. n : CutFrom(tag, plain, q, f[q])
    BY <1>5, <2>1
  <2>3. CutFrom(tag, plain, k, f[k])
    BY <1>3, <2>2
  <2>4. \A q \in k .. n : q = k \/ q \in k + 1 .. n
    BY <1>2
  <2>5. \A q \in k .. n : CutFrom(tag, plain, q, f[q])
    BY <2>2, <2>3, <2>4
  <2> QED BY <2>1, <2>5
<1>6. \A m \in 0 .. n : m \in P
  <2> HIDE DEF P
  <2> QED BY <1>4, <1>5, InductionUpTo
<1>7. n \in P /\ n - n = 0 /\ 0 \in 0 .. n
  <2> HIDE DEF P
  <2> QED BY <1>6
<1>8. \A o \in 0 .. n : CutFrom(tag, plain, o, f[o])
  <2>1. \A o \in n - n .. n : CutFrom(tag, plain, o, f[o])
    BY <1>7
  <2> QED BY <1>7, <2>1, Zenon
<1> QED BY <1>1, <1>2, <1>8, Zenon

\* From the beginning.
LEMMA CutsFound ==
  ASSUME NEW tag \in Protos, NEW plain \in Seq(Values)
  PROVE  CutFrom(tag, plain, 0, Cuts(tag, plain))
<1>1. PICK f : /\ Cuts(tag, plain) = f[0]
              /\ \A o \in 0 .. Len(plain) : CutFrom(tag, plain, o, f[o])
  BY CutsEverywhere, Zenon
<1>2. 0 \in 0 .. Len(plain)
  OBVIOUS
<1> QED BY <1>1, <1>2, Zenon

-----------------------------------------------------------------------------
(* Frames and buffers as one sequence *)

\* f joins the sequences of seqs, from the first on.
Joins(f, seqs) ==
  /\ f[1] = seqs[1]
  /\ \A i \in 2 .. Len(seqs) : f[i] = f[i - 1] \o seqs[i]

\* FlattenSeq is the last of the sequences that join the given ones.
LEMMA FlattenIs ==
  ASSUME NEW S, NEW seqs \in Seq(S), seqs # <<>>,
         NEW g, g = [i \in 1 .. Len(seqs) |-> g[i]], Joins(g, seqs)
  PROVE  FlattenSeq(seqs) = g[Len(seqs)]
<1> DEFINE n == Len(seqs)
           Body(f, i) == IF i = 1 THEN seqs[i] ELSE f[i - 1] \o seqs[i]
           Is(f) == f = [i \in 1 .. n |-> Body(f, i)]
           chosen == CHOOSE f : Is(f)
<1>1. n \in Nat \ {0}
  OBVIOUS
<1>2. \A i \in 1 .. n : g[i] = Body(g, i)
  <2> TAKE i \in 1 .. n
  <2>1. CASE i = 1
    BY <2>1, Zenon DEF Joins
  <2>2. CASE i # 1
    <3>1. i \in 2 .. n
      BY <2>2
    <3> QED BY <2>2, <3>1, Zenon DEF Joins
  <2> QED BY <2>1, <2>2
<1>3. Is(g)
  <2> HIDE DEF Body
  <2> QED BY <1>2, Zenon
<1>4. Is(chosen)
  <2> HIDE DEF Is
  <2> QED BY <1>3, Zenon
<1>5. FlattenSeq(seqs) = chosen[n]
  BY <1>1, ~(Len(seqs) = 0), Zenon DEF FlattenSeq
<1> HIDE DEF chosen
<1>6. \A i \in 1 .. n : chosen[i] = Body(chosen, i)
  <2> HIDE DEF Body
  <2> QED BY <1>4
<1> DEFINE P == {m \in 0 .. n - 1 : chosen[m + 1] = g[m + 1]}
<1>7. 0 \in P
  <2>1. 1 \in 1 .. n /\ 0 + 1 = 1 /\ 0 \in 0 .. n - 1
    BY <1>1
  <2>2. chosen[1] = seqs[1] /\ g[1] = seqs[1]
    BY <1>2, <1>6, <2>1, Zenon
  <2> QED BY <2>1, <2>2
<1>8. ASSUME NEW m \in 0 .. n - 1 - 1, m \in P PROVE m + 1 \in P
  <2>1. PICK j \in 1 .. n : /\ j = m + 1 + 1 /\ j # 1 /\ j - 1 = m + 1
                            /\ m + 1 \in 0 .. n - 1
    BY <1>1
  <2>2. chosen[j] = chosen[j - 1] \o seqs[j] /\ g[j] = g[j - 1] \o seqs[j]
    BY <1>2, <1>6, <2>1, Zenon
  <2>3. chosen[j - 1] = g[j - 1]
    BY <1>8, <2>1
  <2>4. chosen[j] = g[j]
    BY <2>2, <2>3, Zenon
  <2> QED BY <2>1, <2>4
<1>9. n - 1 \in P
  <2> HIDE DEF P
  <2>1. n - 1 \in Nat /\ n - 1 \in 0 .. n - 1
    BY <1>1
  <2>2. \A i \in 0 .. n - 1 : i \in P
    BY <1>7, <1>8, <2>1, InductionUpTo
  <2> QED BY <2>1, <2>2
<1>10. n - 1 + 1 = n
  BY <1>1
<1>11. chosen[n] = g[n]
  BY <1>9, <1>10
<1> QED BY <1>5, <1>11

\* There are such sequences.
LEMMA JoinsExist ==
  ASSUME NEW S, NEW seqs \in Seq(Seq(S)), seqs # <<>>
  PROVE  \E g \in [1 .. Len(seqs) -> Seq(S)] : Joins(g, seqs)
<1> DEFINE n == Len(seqs)
           T == Seq(S)
           step == [i \in 1 .. n |-> [x \in T |-> IF i = 1 THEN seqs[i] ELSE x \o seqs[i]]]
<1>1. n \in Nat \ {0}
  OBVIOUS
<1>2. \A i \in 1 .. n : seqs[i] \in T
  BY ElementOfSeq
<1>3. \A i \in 1 .. n : \A x \in T : (IF i = 1 THEN seqs[i] ELSE x \o seqs[i]) \in T
  BY <1>2, ConcatProperties
<1>4. <<>> \in T
  OBVIOUS
<1> HIDE DEF n, T
<1>5. /\ step \in [1 .. n -> [T -> T]]
      /\ \A i \in 1 .. n : \A x \in T : step[i][x] = IF i = 1 THEN seqs[i] ELSE x \o seqs[i]
  BY <1>3
<1> HIDE DEF step
<1>6. PICK f \in [0 .. n -> T] : IsLoop(f, n, <<>>, step)
  BY <1>1, <1>4, <1>5, LoopExists
<1> DEFINE g == [i \in 1 .. n |-> f[i]]
<1>7. g \in [1 .. n -> T] /\ \A i \in 1 .. n : g[i] = f[i]
  BY <1>1
<1> HIDE DEF g
<1>8. \A i \in 1 .. n : f[i] = IF i = 1 THEN seqs[i] ELSE f[i - 1] \o seqs[i]
  <2> TAKE i \in 1 .. n
  <2>1. f[i] = step[i][f[i - 1]]
    BY <1>6, Zenon DEF IsLoop
  <2>2. f[i - 1] \in T
    <3>1. i - 1 \in 0 .. n
      BY <1>1
    <3> QED BY <1>6, <3>1
  <2> QED BY <1>5, <2>1, <2>2
<1>9. Joins(g, seqs)
  <2>1. g[1] = seqs[1]
    <3>1. 1 \in 1 .. n
      BY <1>1
    <3> QED BY <1>7, <1>8, <3>1
  <2>2. \A i \in 2 .. n : g[i] = g[i - 1] \o seqs[i]
    <3> TAKE i \in 2 .. n
    <3>1. i \in 1 .. n /\ i - 1 \in 1 .. n /\ i # 1
      BY <1>1
    <3> QED BY <1>7, <1>8, <3>1
  <2> QED BY <2>1, <2>2 DEF Joins, n
<1> QED BY <1>7, <1>9 DEF n, T

\* The bytes of some frames, and those of one frame more before them.
LEMMA FlattenFirst ==
  ASSUME NEW S, NEW seqs \in Seq(Seq(S)), NEW x \in Seq(S)
  PROVE  /\ FlattenSeq(seqs) \in Seq(S)
         /\ <<x>> \o seqs \in Seq(Seq(S))
         /\ FlattenSeq(<<x>> \o seqs) = x \o FlattenSeq(seqs)
<1> DEFINE T == Seq(S)
           n == Len(seqs)
           more == <<x>> \o seqs
<1>0. \A a, b, c \in Seq(S) : (a \o b) \o c = a \o (b \o c)
  BY ConcatAssociative
<1>1. PICK one \in Seq(T) : one = <<x>> /\ Len(one) = 1 /\ one[1] = x
  BY OneElement
<1>2. n \in Nat /\ seqs \in Seq(T)
  <2>1. n \in Nat
    BY LenProperties
  <2> QED BY <2>1
<1>3. /\ more \in Seq(T) /\ Len(more) = 1 + n
      /\ \A i \in 1 .. 1 + n : more[i] = IF i <= 1 THEN one[i] ELSE seqs[i - 1]
  <2> HIDE DEF T
  <2> QED BY <1>1, <1>2, ConcatProperties
<1> HIDE DEF more
<1>4. more[1] = x /\ \A i \in 2 .. 1 + n : more[i] = seqs[i - 1] /\ i - 1 \in 1 .. n
  BY <1>1, <1>2, <1>3
<1>5. FlattenSeq(seqs) \in T /\ FlattenSeq(more) = x \o FlattenSeq(seqs)
  <2>1. CASE seqs = <<>>
    <3>1. n = 0 /\ FlattenSeq(seqs) = <<>> /\ Len(more) = 1 /\ more # <<>>
      <4>1. n = 0
        BY <2>1
      <4>2. FlattenSeq(seqs) = <<>>
        BY <2>1, <4>1, Zenon DEF FlattenSeq
      <4>3. Len(more) = 1
        BY <1>3, <4>1
      <4>4. Len(<<>>) # 1
        OBVIOUS
      <4> QED BY <4>1, <4>2, <4>3, <4>4, Zenon
    <3> DEFINE h == [i \in 1 .. 1 |-> x]
    <3>2. h[1] = x /\ h = [i \in 1 .. 1 |-> h[i]] /\ 2 .. 1 = {}
      OBVIOUS
    <3> HIDE DEF h
    <3>3. Joins(h, more)
      BY <1>4, <3>1, <3>2 DEF Joins
    <3>4. FlattenSeq(more) = h[1]
      BY <1>3, <3>1, <3>2, <3>3, FlattenIs
    <3> QED BY <3>1, <3>2, <3>4
  <2>2. CASE seqs # <<>>
    <3>1. PICK g \in [1 .. n -> T] : Joins(g, seqs)
      BY <2>2, JoinsExist
    <3>2. n \in Nat \ {0} /\ n \in 1 .. n /\ 1 \in 1 .. n
      <4>1. n \in Nat \ {0}
        BY <2>2, EmptySeq
      <4> QED BY <4>1
    <3>3. FlattenSeq(seqs) = g[n]
      <4>1. g = [i \in 1 .. n |-> g[i]]
        BY <3>1
      <4> QED BY <1>2, <2>2, <3>1, <4>1, FlattenIs
    <3> DEFINE h == [i \in 1 .. 1 + n |-> IF i = 1 THEN x ELSE x \o g[i - 1]]
    <3>4. /\ h[1] = x /\ \A i \in 1 .. 1 + n : h[i] = IF i = 1 THEN x ELSE x \o g[i - 1]
          /\ h = [i \in 1 .. 1 + n |-> h[i]]
      <4>1. 1 \in 1 .. 1 + n
        BY <3>2
      <4> HIDE DEF n
      <4> QED BY <4>1
    <3> HIDE DEF h
    <3>5. ASSUME NEW i \in 2 .. 1 + n PROVE h[i] = h[i - 1] \o more[i]
      <4>1. i - 1 \in 1 .. n /\ i # 1 /\ i \in 1 .. 1 + n /\ i - 1 \in 1 .. 1 + n
        BY <3>2
      <4>2. h[i] = x \o g[i - 1] /\ more[i] = seqs[i - 1]
        BY <1>4, <3>4, <4>1
      <4>3. CASE i = 2
        <5>1. i - 1 = 1 /\ g[1] = seqs[1] /\ h[i - 1] = x
          BY <3>1, <3>4, <4>3 DEF Joins
        <5> QED BY <4>2, <5>1
      <4>4. CASE i # 2
        <5>1. i - 1 \in 2 .. n /\ i - 1 - 1 \in 1 .. n /\ i - 1 # 1
          BY <3>2, <4>1, <4>4
        <5>2. g[i - 1] = g[i - 1 - 1] \o seqs[i - 1]
          BY <3>1, <5>1 DEF Joins
        <5>3. h[i - 1] = x \o g[i - 1 - 1]
          BY <3>4, <4>1, <5>1
        <5>4. g[i - 1 - 1] \in Seq(S) /\ seqs[i - 1] \in Seq(S)
          BY <4>1, <5>1, <3>1, ElementOfSeq
        <5>5. (x \o g[i - 1 - 1]) \o seqs[i - 1] = x \o (g[i - 1 - 1] \o seqs[i - 1])
          <6>1. PICK y \in Seq(S), z \in Seq(S) : y = g[i - 1 - 1] /\ z = seqs[i - 1]
            BY <5>4
          <6> QED BY <1>0, <6>1, Zenon
        <5> QED BY <4>2, <5>2, <5>3, <5>5
      <4> QED BY <4>3, <4>4
    <3>6. Joins(h, more)
      BY <1>3, <1>4, <3>4, <3>5 DEF Joins
    <3>7. FlattenSeq(more) = h[1 + n]
      <4>1. more # <<>> /\ Len(more) = 1 + n
        BY <1>2, <1>3
      <4> QED BY <1>3, <3>4, <3>6, <4>1, FlattenIs
    <3>8. h[1 + n] = x \o g[n]
      <4>1. PICK k \in 1 .. 1 + n : k = 1 + n /\ k # 1 /\ k - 1 = n
        BY <3>2
      <4>2. \A i \in 1 .. 1 + n : h[i] = IF i = 1 THEN x ELSE x \o g[i - 1]
        BY <3>4, Zenon
      <4>3. h[k] = IF k = 1 THEN x ELSE x \o g[k - 1]
        BY <4>2, Zenon
      <4> QED BY <4>1, <4>3, Zenon
    <3> QED BY <3>1, <3>2, <3>3, <3>7, <3>8
  <2> QED BY <2>1, <2>2
<1> QED BY <1>3, <1>5 DEF more

\* Slices of a sequence, one after another, make up its beginning.
LEMMA FlattenSlices ==
  ASSUME NEW S, NEW s \in Seq(S), NEW seqs \in Seq(Seq(S)),
         NEW at \in [0 .. Len(seqs) -> 0 .. Len(s)], at[0] = 0,
         \A i \in 1 .. Len(seqs) : /\ at[i - 1] <= at[i]
                                   /\ seqs[i] = SubSeq(s, at[i - 1] + 1, at[i])
  PROVE  FlattenSeq(seqs) = SubSeq(s, 1, at[Len(seqs)])
<1> DEFINE n == Len(seqs)
<1>1. CASE seqs = <<>>
  <2>1. n = 0 /\ FlattenSeq(seqs) = <<>>
    BY <1>1 DEF FlattenSeq
  <2>2. SubSeq(s, 1, 0) = <<>>
    BY SubSeqEmpty
  <2> QED BY <2>1, <2>2
<1>2. CASE seqs # <<>>
  <2>1. n \in Nat \ {0} /\ 1 \in 1 .. n /\ n \in 1 .. n /\ 1 - 1 = 0
    BY <1>2
  <2> DEFINE g == [i \in 1 .. n |-> SubSeq(s, 1, at[i])]
  <2>2. g = [i \in 1 .. n |-> g[i]] /\ \A i \in 1 .. n : g[i] = SubSeq(s, 1, at[i])
    OBVIOUS
  <2> HIDE DEF g
  <2>3. g[1] = seqs[1]
    <3>1. seqs[1] = SubSeq(s, at[1 - 1] + 1, at[1])
      BY <2>1
    <3>2. at[1 - 1] + 1 = 1
      BY <2>1
    <3> QED BY <2>1, <2>2, <3>1, <3>2
  <2>4. ASSUME NEW i \in 2 .. n PROVE g[i] = g[i - 1] \o seqs[i]
    <3>1. i \in 1 .. n /\ i - 1 \in 1 .. n /\ i \in 0 .. n /\ i - 1 \in 0 .. n
      BY <2>1
    <3>2. PICK a \in 0 .. Len(s), b \in 0 .. Len(s) :
            a = at[i - 1] /\ b = at[i] /\ a <= b /\ seqs[i] = SubSeq(s, a + 1, b)
      <4>1. /\ at[i - 1] \in 0 .. Len(s) /\ at[i] \in 0 .. Len(s) /\ at[i - 1] <= at[i]
            /\ seqs[i] = SubSeq(s, at[i - 1] + 1, at[i])
        BY <3>1
      <4> QED BY <4>1, Zenon
    <3>3. 1 \in 1 .. Len(s) + 1 /\ a \in 1 - 1 .. Len(s) /\ b \in a .. Len(s)
      BY <3>2
    <3>4. SubSeq(s, 1, a) \o SubSeq(s, a + 1, b) = SubSeq(s, 1, b)
      BY <3>3, ConcatAdjacentSubSeq
    <3> QED BY <2>2, <3>1, <3>2, <3>4
  <2>5. Joins(g, seqs)
    BY <2>3, <2>4 DEF Joins
  <2>6. FlattenSeq(seqs) = g[n]
    BY <1>2, <2>2, <2>5, FlattenIs
  <2> QED BY <2>1, <2>2, <2>6
<1> QED BY <1>1, <1>2

\* The ends of the packets of a buffer, one after another.
Ends(buf, ends) ==
  /\ ends \in Seq(0 .. Len(buf))
  /\ \A i \in 1 .. Len(ends) : Start(ends, 0, i) < ends[i]

\* Where packets start is in the buffer.
LEMMA StartType ==
  ASSUME NEW S, NEW buf \in Seq(S), NEW ends, Ends(buf, ends), NEW i \in 1 .. Len(ends) + 1
  PROVE  Start(ends, 0, i) \in 0 .. Len(buf)
<1>1. CASE i = 1
  BY <1>1, LenProperties DEF Start
<1>2. CASE i # 1
  <2>1. i - 1 \in 1 .. Len(ends)
    BY <1>2, LenProperties DEF Ends
  <2>2. ends[i - 1] \in 0 .. Len(buf)
    BY <2>1, ElementOfSeq DEF Ends
  <2> QED BY <1>2, <2>2 DEF Start
<1> QED BY <1>1, <1>2

\* part is what buf holds after offset o and up to offset e.
IsPart(part, buf, o, e) ==
  Len(part) = e - o /\ \A j \in 1 .. e - o : part[j] = buf[o + j]

\* What Parts and Trim make of the buffer.
LEMMA PartsAre ==
  ASSUME NEW S, NEW buf \in Seq(S), NEW ends, Ends(buf, ends)
  PROVE  /\ Parts(buf, ends) \in Seq(Seq(S)) /\ Len(Parts(buf, ends)) = Len(ends)
         /\ \A i \in 1 .. Len(ends) :
              /\ Parts(buf, ends)[i] \in Seq(S)
              /\ IsPart(Parts(buf, ends)[i], buf, Start(ends, 0, i), ends[i])
         /\ Trim(buf, ends) = Left(buf, Start(ends, 0, Len(ends) + 1))
         /\ FlattenSeq(Parts(buf, ends)) \o Trim(buf, ends) = buf
<1> DEFINE n == Len(ends)
           at(i) == Start(ends, 0, i + 1)
           D == 0 .. Len(buf)
           parts == Parts(buf, ends)
<1>1. n \in Nat /\ DOMAIN ends = 1 .. n /\ Len(buf) \in Nat /\ ends \in Seq(D)
  <2> HIDE DEF D
  <2>1. ends \in Seq(D)
    BY DEF Ends, D
  <2> QED BY <2>1, LenProperties
<1>2. at(0) = 0 /\ \A i \in 1 .. n : at(i) = ends[i]
  <2>1. 0 + 1 = 1 /\ \A i \in 1 .. n : i + 1 # 1 /\ i + 1 - 1 = i
    BY <1>1
  <2> QED BY <2>1 DEF Start
<1>3. \A i \in 0 .. n : at(i) \in D
  <2> TAKE i \in 0 .. n
  <2>1. i + 1 \in 1 .. n + 1
    BY <1>1
  <2> QED BY <2>1, StartType
<1>4. \A i \in 1 .. n : at(i - 1) = Start(ends, 0, i) /\ at(i - 1) < at(i) /\ i - 1 \in 0 .. n
  <2> TAKE i \in 1 .. n
  <2>1. i - 1 + 1 = i /\ i - 1 \in 0 .. n
    BY <1>1
  <2>2. Start(ends, 0, i) < ends[i]
    BY DEF Ends
  <2> QED BY <1>2, <2>1, <2>2
<1>5. parts = [i \in 1 .. n |-> SubSeq(buf, Start(ends, 0, i) + 1, ends[i])]
  <2>1. \A i \in 1 .. n : (IF i = 1 THEN 1 ELSE ends[i - 1] + 1) = Start(ends, 0, i) + 1
    BY DEF Start
  <2> QED BY <1>1, <2>1 DEF Parts
<1>6. \A i \in 1 .. n : parts[i] = SubSeq(buf, at(i - 1) + 1, at(i))
  <2> TAKE i \in 1 .. n
  <2>1. parts[i] = SubSeq(buf, Start(ends, 0, i) + 1, ends[i])
    BY <1>5
  <2> QED BY <1>2, <1>4, <2>1
<1>7. parts = [i \in 1 .. n |-> parts[i]]
  BY <1>5
<1> HIDE DEF n, parts, at
<1>8. ASSUME NEW i \in 1 .. n
      PROVE  parts[i] \in Seq(S) /\ IsPart(parts[i], buf, at(i - 1), at(i))
  <2>1. PICK a \in 0 .. Len(buf), b \in 0 .. Len(buf) : a = at(i - 1) /\ b = at(i) /\ a < b
    <3>1. i - 1 \in 0 .. n /\ i \in 0 .. n
      BY <1>4
    <3> QED BY <1>3, <1>4, <3>1
  <2>2. parts[i] = SubSeq(buf, a + 1, b)
    BY <1>6, <2>1
  <2>3. a + 1 \in Int /\ b \in Int /\ \A k \in a + 1 .. b : k \in 1 .. Len(buf)
    BY <1>1
  <2>4. \A k \in a + 1 .. b : buf[k] \in S
    BY <2>3, ElementOfSeq
  <2> DEFINE p == SubSeq(buf, a + 1, b)
  <2>5. /\ p \in Seq(S) /\ Len(p) = IF a + 1 <= b THEN b - (a + 1) + 1 ELSE 0
        /\ \A j \in 1 .. b - (a + 1) + 1 : p[j] = buf[a + 1 + j - 1]
    BY <2>3, <2>4, SubSeqProperties
  <2>6. \A j \in 1 .. b - a : j \in 1 .. b - (a + 1) + 1 /\ a + 1 + j - 1 = a + j
    OBVIOUS
  <2> HIDE DEF p
  <2>7. Len(p) = b - a
    BY <2>1, <2>5
  <2>8. ASSUME NEW j \in 1 .. b - a PROVE p[j] = buf[a + j]
    BY <2>5, <2>6
  <2>9. IsPart(p, buf, a, b)
    BY <2>7, <2>8 DEF IsPart
  <2> QED BY <2>1, <2>2, <2>5, <2>9, Zenon DEF p
<1>9. parts \in Seq(Seq(S)) /\ Len(parts) = n
  <2> DEFINE T == Seq(S)
  <2>1. \A i \in 1 .. n : parts[i] \in T
    BY <1>8
  <2> HIDE DEF T
  <2>2. parts \in Seq(T)
    BY <1>1, <1>7, <2>1
  <2>3. Len(parts) = n
    <3>1. DOMAIN parts = 1 .. n
      BY <1>7
    <3>2. DOMAIN parts = 1 .. Len(parts) /\ Len(parts) \in Nat
      BY <2>2, LenProperties
    <3> QED BY <1>1, <3>1, <3>2
  <2> QED BY <2>2, <2>3 DEF T
<1>10. Trim(buf, ends) = Left(buf, at(n))
  <2>1. CASE ends = <<>>
    <3>1. n = 0 /\ at(n) = 0 /\ Left(buf, 0) = SubSeq(buf, 1, Len(buf))
      BY <1>2, <2>1 DEF n, Left
    <3> QED BY <2>1, <3>1, SubSeqFull DEF Trim
  <2>2. CASE ends # <<>>
    <3>1. n \in 1 .. n /\ at(n) = ends[n]
      <4>1. n \in 1 .. n
        BY <1>1, <2>2, EmptySeq DEF n
      <4> QED BY <1>2, <4>1
    <3> QED BY <2>2, <3>1 DEF Trim, Left, Last, n
  <2> QED BY <2>1, <2>2
<1>11. FlattenSeq(parts) \o Left(buf, at(n)) = buf
  <2> DEFINE where == [i \in 0 .. n |-> at(i)]
  <2>1. where \in [0 .. n -> 0 .. Len(buf)] /\ \A i \in 0 .. n : where[i] = at(i)
    BY <1>3
  <2> HIDE DEF where
  <2>2. where[0] = 0 /\ where[n] = at(n) /\ n \in 0 .. n
    BY <1>1, <1>2, <2>1
  <2>3. ASSUME NEW i \in 1 .. n
        PROVE  where[i - 1] <= where[i] /\ parts[i] = SubSeq(buf, where[i - 1] + 1, where[i])
    <3>1. i - 1 \in 0 .. n /\ i \in 0 .. n /\ where[i - 1] = at(i - 1) /\ where[i] = at(i)
      BY <1>4, <2>1
    <3>2. at(i - 1) \in 0 .. Len(buf) /\ at(i) \in 0 .. Len(buf) /\ at(i - 1) < at(i)
      BY <1>3, <1>4, <3>1
    <3>3. where[i - 1] <= where[i]
      BY <3>1, <3>2
    <3> QED BY <1>6, <3>1, <3>3
  <2>4. FlattenSeq(parts) = SubSeq(buf, 1, where[n])
    BY <1>9, <2>1, <2>2, <2>3, FlattenSlices
  <2>5. PICK a \in 0 .. Len(buf) : a = where[n] /\ a = at(n)
    BY <2>1, <2>2
  <2>6. 1 \in 1 .. Len(buf) + 1 /\ a \in 1 - 1 .. Len(buf) /\ Len(buf) \in a .. Len(buf)
    BY <1>1
  <2>7. SubSeq(buf, 1, a) \o SubSeq(buf, a + 1, Len(buf)) = SubSeq(buf, 1, Len(buf))
    BY <2>6, ConcatAdjacentSubSeq
  <2>8. SubSeq(buf, 1, Len(buf)) = buf
    BY SubSeqFull
  <2> QED BY <2>4, <2>5, <2>7, <2>8 DEF Left
<1>12. Start(ends, 0, n + 1) = at(n)
  BY DEF at
<1>13. \A i \in 1 .. n : parts[i] \in Seq(S) /\ IsPart(parts[i], buf, Start(ends, 0, i), ends[i])
  BY <1>2, <1>4, <1>8, Zenon
<1> QED BY <1>9, <1>10, <1>11, <1>12, <1>13 DEF n, parts

\* What split trims of both copies of the stream.
LEMMA CutsTrimmed ==
  ASSUME NEW tag \in Protos, NEW buf \in Seq(Byte), NEW text \in Seq(Values), Len(text) = Len(buf),
         NEW cut, cut = Cuts(tag, text)
  PROVE  /\ Ends(buf, cut.ends) /\ Ends(text, cut.ends) /\ cut.disabled \in BOOLEAN
         /\ Trim(buf, cut.ends) \in Seq(Byte) /\ Trim(text, cut.ends) \in Seq(Values)
         /\ Len(Trim(text, cut.ends)) = Len(Trim(buf, cut.ends))
         /\ cut.disabled => Trim(buf, cut.ends) = <<>>
<1> DEFINE n == Len(cut.ends)
<1>1. CutFrom(tag, text, 0, cut)
  BY CutsFound
<1>2. Ends(text, cut.ends) /\ cut.disabled \in BOOLEAN
  BY <1>1 DEF CutFrom, Ends
<1>3. Ends(buf, cut.ends)
  BY <1>2 DEF Ends
<1>4. cut.ends \in Seq(0 .. Len(text))
  BY <1>2 DEF Ends
<1>5. PICK a \in 0 .. Len(buf) : a = Start(cut.ends, 0, n + 1)
  <2>1. n + 1 \in 1 .. n + 1
    BY <1>4, LenProperties
  <2> QED BY <1>3, <2>1, StartType
<1>6. Trim(buf, cut.ends) = Left(buf, a) /\ Trim(text, cut.ends) = Left(text, a)
  BY <1>2, <1>3, <1>5, PartsAre
<1>7. Left(buf, a) \in Seq(Byte) /\ Len(Left(buf, a)) = Len(buf) - a
      /\ (Left(buf, a) = <<>> <=> a = Len(buf))
  BY LeftType
<1>8. Left(text, a) \in Seq(Values) /\ Len(Left(text, a)) = Len(text) - a
  BY LeftType
<1>9. cut.disabled => a = Len(buf)
  <2>1. ASSUME cut.disabled PROVE a = Len(buf)
    <3>1. cut.ends # <<>> /\ cut.ends[n] = Len(text)
      BY <1>1, <2>1 DEF CutFrom
    <3>2. n \in Nat \ {0}
      BY <1>4, <3>1, EmptySeq
    <3>3. n + 1 # 1 /\ n + 1 - 1 = n
      BY <3>2
    <3> QED BY <1>5, <3>1, <3>3 DEF Start
  <2> QED BY <2>1
<1> QED BY <1>2, <1>3, <1>6, <1>7, <1>8, <1>9

\* The frames are packets, and what waits is less than one.
IsCut(tag, buf, text, cut) ==
  /\ \A i \in 1 .. Len(Trim(buf, cut.ends)) :
       Trim(text, cut.ends)[i] = Trim(buf, cut.ends)[i].val
  /\ ~cut.disabled => \A i \in 1 .. Len(cut.ends) : IsPacket(tag, Parts(buf, cut.ends)[i])
  /\ \A m \in 1 .. Len(Trim(buf, cut.ends)) : ~IsPacket(tag, SubSeq(Trim(buf, cut.ends), 1, m))

\* With a true decrypted copy the loop of split cuts like that.
LEMMA CutIntoPackets ==
  ASSUME NEW tag \in Protos, NEW buf \in Seq(Byte), NEW text \in Seq(Values), Len(text) = Len(buf),
         \A i \in 1 .. Len(buf) : text[i] = buf[i].val, NEW cut, cut = Cuts(tag, text)
  PROVE  IsCut(tag, buf, text, cut)
<1> DEFINE n == Len(cut.ends)
           ends == cut.ends
<1>1. CutFrom(tag, text, 0, cut)
  BY CutsFound
<1>2. Ends(text, ends) /\ Ends(buf, ends) /\ Len(buf) \in Nat
  BY CutsTrimmed
<1>3. n \in Nat
  BY <1>2, LenProperties DEF Ends
<1>4. ASSUME NEW i \in 1 .. n + 1
      PROVE  /\ Start(ends, 0, i) \in 0 .. Len(buf)
             /\ LET o == Start(ends, 0, i)
                IN  /\ Left(text, o) \in Seq(Values) /\ Len(Left(text, o)) = Len(buf) - o
                    /\ Left(text, o) # <<>> <=> o # Len(buf)
                    /\ \A j \in 1 .. Len(buf) - o : Left(text, o)[j] = buf[o + j].val
  <2>1. PICK o \in 0 .. Len(buf) : o = Start(ends, 0, i)
    BY <1>2, StartType
  <2>2. /\ Left(text, o) \in Seq(Values) /\ Len(Left(text, o)) = Len(buf) - o
        /\ Left(text, o) = <<>> <=> o = Len(buf)
        /\ \A j \in 1 .. Len(buf) - o : Left(text, o)[j] = text[o + j]
    BY LeftType
  <2>3. \A j \in 1 .. Len(buf) - o : o + j \in 1 .. Len(buf)
    BY <1>2
  <2>4. \A j \in 1 .. Len(buf) - o : Left(text, o)[j] = buf[o + j].val
    BY <2>2, <2>3
  <2> QED BY <2>1, <2>2, <2>4
<1>5. ASSUME ~cut.disabled, NEW i \in 1 .. n PROVE IsPacket(tag, Parts(buf, ends)[i])
  <2>1. PICK o \in 0 .. Len(buf), e \in 0 .. Len(buf) :
          /\ o = Start(ends, 0, i) /\ e = ends[i] /\ o < e
          /\ nextPacketLen(tag, Left(text, o)) = e - o
    <3>1. ends[i] \in 0 .. Len(buf)
      BY <1>2, ElementOfSeq DEF Ends
    <3>2. Start(ends, 0, i) \in 0 .. Len(buf)
      <4>1. i \in 1 .. n + 1
        BY <1>3
      <4> QED BY <1>4, <4>1
    <3>3. /\ Start(ends, 0, i) < ends[i]
          /\ nextPacketLen(tag, Left(text, Start(ends, 0, i))) = ends[i] - Start(ends, 0, i)
      BY <1>1, <1>5 DEF CutFrom
    <3> QED BY <3>1, <3>2, <3>3, Zenon
  <2>2. PICK p \in Seq(Byte) : /\ p = Parts(buf, ends)[i] /\ Len(p) = e - o
                               /\ \A j \in 1 .. e - o : p[j] = buf[o + j]
    <3>1. Parts(buf, ends)[i] \in Seq(Byte) /\ IsPart(Parts(buf, ends)[i], buf, o, e)
      BY <1>2, <2>1, PartsAre, Zenon
    <3> QED BY <3>1 DEF IsPart
  <2>3. p # <<>> /\ Len(p) \in 1 .. Len(buf) - o /\ e - o <= Len(buf) - o
    BY <1>2, <2>1, <2>2
  <2>4. PICK w \in Seq(Values) : /\ w = Left(text, o) /\ Len(w) = Len(buf) - o
                                 /\ \A j \in 1 .. Len(buf) - o : w[j] = buf[o + j].val
    <3>1. i \in 1 .. n + 1
      BY <1>3
    <3> QED BY <1>4, <2>1, <3>1
  <2>5. \A j \in 1 .. Len(p) : p[j].val = w[j]
    <3> TAKE j \in 1 .. Len(p)
    <3>1. j \in 1 .. e - o /\ j \in 1 .. Len(buf) - o
      BY <1>2, <2>2, <2>3
    <3>2. p[j] = buf[o + j] /\ w[j] = buf[o + j].val
      BY <2>2, <2>4, <3>1
    <3> QED BY <3>2
  <2>6. w # <<>> /\ Len(p) <= Len(w)
    BY <1>2, <2>3, <2>4
  <2>7. nextPacketLen(tag, w) = Len(p)
    BY <2>1, <2>2, <2>4
  <2> QED BY <2>2, <2>3, <2>5, <2>6, <2>7, PacketsAreCut
<1>6. PICK a \in 0 .. Len(buf) :
        /\ a = Start(ends, 0, n + 1) /\ Trim(buf, ends) = Left(buf, a) /\ Trim(text, ends) = Left(text, a)
        /\ \A j \in 1 .. Len(buf) - a : Left(text, a)[j] = buf[a + j].val
        /\ Left(text, a) \in Seq(Values) /\ Len(Left(text, a)) = Len(buf) - a
  <2>1. n + 1 \in 1 .. n + 1
    BY <1>3
  <2>2. Trim(buf, ends) = Left(buf, Start(ends, 0, n + 1))
        /\ Trim(text, ends) = Left(text, Start(ends, 0, n + 1))
    BY <1>2, PartsAre
  <2> QED BY <1>4, <2>1, <2>2
<1>7. PICK left \in Seq(Byte) : /\ left = Left(buf, a) /\ Len(left) = Len(buf) - a
                                /\ \A j \in 1 .. Len(buf) - a : left[j] = buf[a + j]
  BY LeftType
<1>8. \A j \in 1 .. Len(left) : Left(text, a)[j] = left[j].val
  <2> TAKE j \in 1 .. Len(left)
  <2>1. left[j] = buf[a + j] /\ Left(text, a)[j] = buf[a + j].val
    BY <1>6, <1>7
  <2> QED BY <2>1
<1>9. ASSUME NEW m \in 1 .. Len(left) PROVE ~IsPacket(tag, SubSeq(left, 1, m))
  <2>1. ~cut.disabled /\ a # Len(buf)
    <3>1. cut.disabled => left = <<>>
      BY <1>6, <1>7, CutsTrimmed
    <3>2. Len(left) # 0
      BY <1>7
    <3>3. left # <<>>
      BY <3>2
    <3> QED BY <1>2, <1>7, <3>1, <3>2, <3>3
  <2>2. PICK w \in Seq(Values) : /\ w = Left(text, a) /\ Len(w) = Len(left)
                                 /\ \A j \in 1 .. Len(left) : w[j] = left[j].val
    BY <1>6, <1>7, <1>8
  <2>3. nextPacketLen(tag, w) = nil
    <3>1. \/ Start(ends, 0, n + 1) = Len(text)
          \/ nextPacketLen(tag, Left(text, Start(ends, 0, n + 1))) = nil
      BY <1>1, <2>1 DEF CutFrom
    <3> QED BY <1>6, <2>1, <2>2, <3>1
  <2>4. PICK p \in Seq(Byte) : /\ p = SubSeq(left, 1, m) /\ Len(p) = m
                               /\ \A j \in 1 .. m : p[j] = left[j]
    <3> DEFINE p == SubSeq(left, 1, m)
    <3>1. 1 \in Int /\ m \in Int /\ 1 <= m /\ \A k \in 1 .. m : k \in 1 .. Len(left)
      BY <1>2, <1>7
    <3>2. \A k \in 1 .. m : left[k] \in Byte
      BY <3>1, ElementOfSeq
    <3>3. /\ p \in Seq(Byte) /\ Len(p) = IF 1 <= m THEN m - 1 + 1 ELSE 0
          /\ \A j \in 1 .. m - 1 + 1 : p[j] = left[1 + j - 1]
      BY <3>1, <3>2, SubSeqProperties
    <3> HIDE DEF p
    <3>4. \A j \in 1 .. m : j \in 1 .. m - 1 + 1 /\ 1 + j - 1 = j
      BY <3>1
    <3>5. Len(p) = m /\ \A j \in 1 .. m : p[j] = left[j]
      BY <3>1, <3>3, <3>4
    <3> QED BY <3>3, <3>5 DEF p
  <2>5. p # <<>> /\ w # <<>> /\ Len(p) <= Len(w)
    <3>1. Len(p) \in Nat \ {0} /\ Len(p) <= Len(w) /\ Len(w) \in Nat \ {0}
      BY <1>2, <1>7, <2>2, <2>4
    <3> QED BY <3>1, EmptySeq
  <2>6. \A j \in 1 .. Len(p) : p[j].val = w[j]
    BY <1>2, <1>7, <2>2, <2>4
  <2> QED BY <2>3, <2>4, <2>5, <2>6, PacketsAreCut
<1> QED BY <1>5, <1>6, <1>7, <1>8, <1>9 DEF IsCut

\* The bytes of some frames.
LEMMA FlattenType ==
  ASSUME NEW S, NEW seqs \in Seq(Seq(S))
  PROVE  FlattenSeq(seqs) \in Seq(S) /\ Len(FlattenSeq(seqs)) \in Nat
<1>1. PICK x \in Seq(S) : x = <<>>
  BY EmptySeq
<1>2. FlattenSeq(seqs) \in Seq(S)
  BY FlattenFirst
<1> QED BY <1>2, LenProperties

\* Bytes may be joined in any order.
LEMMA JoinedBytes ==
  \A a, b, c \in Seq(Byte) : (a \o b) \o c = a \o (b \o c)
BY ConcatAssociative

\* A single frame, and none.
LEMMA FlattenOne ==
  ASSUME NEW S, NEW x \in Seq(S)
  PROVE  /\ <<x>> \in Seq(Seq(S)) /\ FlattenSeq(<<x>>) = x
         /\ <<>> \in Seq(Seq(S)) /\ FlattenSeq(<<>>) = <<>>
<1> DEFINE T == Seq(S)
<1>1. <<>> \in Seq(T) /\ <<x>> \in Seq(T) /\ Len(<<>>) = 0
  <2> HIDE DEF T
  <2>1. x \in T
    BY DEF T
  <2> QED BY <2>1
<1>2. FlattenSeq(<<>>) = <<>>
  BY <1>1, Zenon DEF FlattenSeq
<1>3. FlattenSeq(<<x>> \o <<>>) = x \o FlattenSeq(<<>>)
  BY <1>1, FlattenFirst, Zenon
<1>4. <<x>> \o <<>> = <<x>>
  <2> HIDE DEF T
  <2> QED BY <1>1, ConcatEmptySeq
<1>5. x \o <<>> = x
  BY ConcatEmptySeq
<1> QED BY <1>1, <1>2, <1>3, <1>4, <1>5

\* st is s, of m elements, and then t, of n.
IsBoth(st, s, t, m, n) ==
  /\ st = s \o t /\ Len(st) = m + n
  /\ \A i \in 1 .. m + n : st[i] = IF i <= m THEN s[i] ELSE t[i - m]

\* The two of them together are that.
LEMMA BothSequences ==
  ASSUME NEW S, NEW s \in Seq(S), NEW t \in Seq(S), NEW m \in Nat, NEW n \in Nat,
         m = Len(s), n = Len(t)
  PROVE  \E st \in Seq(S) : IsBoth(st, s, t, m, n)
<1>1. /\ s \o t \in Seq(S) /\ Len(s \o t) = Len(s) + Len(t)
      /\ \A i \in 1 .. Len(s) + Len(t) : (s \o t)[i] = IF i <= Len(s) THEN s[i] ELSE t[i - Len(s)]
  BY ConcatProperties, Zenon
<1>2. IsBoth(s \o t, s, t, m, n)
  BY <1>1, Zenon DEF IsBoth
<1> QED BY <1>1, <1>2, Zenon

\* The positions of some bytes.
LEMMA PositionsType ==
  ASSUME NEW s \in Seq(Byte)
  PROVE  /\ Positions(s) \in Seq(1 .. MaxBytes) /\ Len(Positions(s)) = Len(s)
         /\ \A i \in 1 .. Len(s) : Positions(s)[i] = s[i].pos
<1>1. \A i \in 1 .. Len(s) : s[i].pos \in 1 .. MaxBytes
  <2>1. \A i \in 1 .. Len(s) : s[i] \in Byte
    BY ElementOfSeq
  <2> QED BY <2>1 DEF Byte
<1>2. DOMAIN s = 1 .. Len(s) /\ Len(s) \in Nat
  OBVIOUS
<1>3. Positions(s) = [i \in 1 .. Len(s) |-> s[i].pos]
  BY <1>2, Zenon DEF Positions
<1>4. \A i \in 1 .. Len(s) : Positions(s)[i] = s[i].pos
  BY <1>3
<1>5. Positions(s) \in Seq(1 .. MaxBytes)
  BY <1>1, <1>2, <1>3
<1> QED BY <1>2, <1>3, <1>4, <1>5

\* The positions of a sequence and then another.
LEMMA PositionsOfBoth ==
  ASSUME NEW s \in Seq(Byte), NEW t \in Seq(Byte)
  PROVE  Positions(s \o t) = Positions(s) \o Positions(t)
<1>1. PICK m \in Nat, n \in Nat : m = Len(s) /\ n = Len(t)
  OBVIOUS
<1>2. PICK st \in Seq(Byte) : IsBoth(st, s, t, m, n)
  BY <1>1, BothSequences, Zenon
<1> DEFINE P == 1 .. MaxBytes
<1>3. PICK p \in Seq(P) : p = Positions(s) /\ Len(p) = m /\ \A i \in 1 .. m : p[i] = s[i].pos
  BY <1>1, PositionsType
<1>4. PICK q \in Seq(P) : q = Positions(t) /\ Len(q) = n /\ \A i \in 1 .. n : q[i] = t[i].pos
  BY <1>1, PositionsType
<1>5. PICK r \in Seq(P) : /\ r = Positions(st) /\ Len(r) = m + n
                          /\ \A i \in 1 .. m + n : r[i] = st[i].pos
  BY <1>2, PositionsType DEF IsBoth
<1> HIDE DEF P
<1>6. PICK pq \in Seq(P) : IsBoth(pq, p, q, m, n)
  BY <1>1, <1>3, <1>4, BothSequences, Zenon
<1>7. \A i \in 1 .. m + n : r[i] = pq[i]
  <2> TAKE i \in 1 .. m + n
  <2>1. CASE i <= m
    <3>1. i \in 1 .. m
      BY <2>1
    <3>2. st[i] = s[i] /\ pq[i] = p[i]
      BY <1>2, <1>6, <2>1 DEF IsBoth
    <3>3. p[i] = s[i].pos /\ r[i] = st[i].pos
      BY <1>3, <1>5, <3>1
    <3> QED BY <3>2, <3>3
  <2>2. CASE ~(i <= m)
    <3>1. i - m \in 1 .. n
      BY <1>1, <2>2
    <3> QED BY <1>2, <1>4, <1>5, <1>6, <2>2, <3>1 DEF IsBoth
  <2> QED BY <2>1, <2>2
<1>8. r = pq
  BY <1>5, <1>6, <1>7, SeqEqual DEF IsBoth
<1> QED BY <1>2, <1>3, <1>4, <1>5, <1>6, <1>8 DEF IsBoth

\* p holds, in order, positions up to upto, no more of them than there are after
\* from, and all of those if it is whole.
IsLine(p, from, upto, whole) ==
  /\ \A i, j \in 1 .. Len(p) : i < j => p[i] < p[j]
  /\ \A i \in 1 .. Len(p) : p[i] <= upto
  /\ from + Len(p) <= upto
  /\ whole => from + Len(p) = upto /\ \A i \in 1 .. Len(p) : p[i] = from + i

\* The rest of a line is a line.
LEMMA LineTail ==
  ASSUME NEW a \in Seq(1 .. MaxBytes), NEW b \in Seq(1 .. MaxBytes), NEW from \in Nat,
         NEW upto \in Nat, NEW whole \in BOOLEAN, IsLine(a \o b, from, upto, whole)
  PROVE  IsLine(b, from + Len(a), upto, whole)
<1> DEFINE P == 1 .. MaxBytes
<1>1. PICK m \in Nat, n \in Nat : m = Len(a) /\ n = Len(b)
  OBVIOUS
<1>2. PICK ab \in Seq(P) : IsBoth(ab, a, b, m, n)
  <2>1. a \in Seq(P) /\ b \in Seq(P)
    OBVIOUS
  <2> HIDE DEF P
  <2> QED BY <1>1, <2>1, BothSequences, Zenon
<1>3. \A i \in 1 .. n : i + m \in 1 .. m + n /\ ab[i + m] = b[i]
  <2> TAKE i \in 1 .. n
  <2>1. PICK j \in 1 .. m + n : j = i + m /\ ~(j <= m) /\ j - m = i
    BY <1>1
  <2>2. ab[j] = IF j <= m THEN a[j] ELSE b[j - m]
    BY <1>2, Zenon DEF IsBoth
  <2> QED BY <2>1, <2>2
<1>4. IsLine(ab, from, upto, whole)
  BY <1>2 DEF IsBoth
<1>5. \A i, j \in 1 .. n : i < j => b[i] < b[j]
  <2> TAKE i, j \in 1 .. n
  <2>1. i < j => i + m < j + m
    BY <1>1
  <2>2. i + m < j + m => ab[i + m] < ab[j + m]
    BY <1>2, <1>3, <1>4 DEF IsLine, IsBoth
  <2> QED BY <1>3, <2>1, <2>2
<1>6. \A i \in 1 .. n : b[i] <= upto
  <2> TAKE i \in 1 .. n
  <2> QED BY <1>2, <1>3, <1>4 DEF IsLine, IsBoth
<1>7. from + m + n <= upto
  BY <1>1, <1>2, <1>4 DEF IsLine, IsBoth
<1>8. ASSUME whole PROVE from + m + n = upto /\ \A i \in 1 .. n : b[i] = from + m + i
  <2>1. from + m + n = upto
    BY <1>1, <1>2, <1>4, <1>8 DEF IsLine, IsBoth
  <2>2. ASSUME NEW i \in 1 .. n PROVE b[i] = from + m + i
    <3>1. ab[i + m] = from + (i + m)
      BY <1>2, <1>3, <1>4, <1>8 DEF IsLine, IsBoth
    <3>2. from + (i + m) = from + m + i
      BY <1>1
    <3> QED BY <1>3, <3>1, <3>2
  <2> QED BY <2>1, <2>2
<1> QED BY <1>1, <1>5, <1>6, <1>7, <1>8 DEF IsLine

\* The next bytes of the stream continue a line.
LEMMA LineMore ==
  ASSUME NEW b \in Seq(1 .. MaxBytes), NEW c \in Seq(1 .. MaxBytes), NEW from \in Nat,
         NEW upto \in Nat, NEW whole \in BOOLEAN, IsLine(b, from, upto, whole),
         \A i \in 1 .. Len(c) : c[i] = upto + i
  PROVE  IsLine(b \o c, from, upto + Len(c), whole)
<1> DEFINE P == 1 .. MaxBytes
<1>1. PICK m \in Nat, n \in Nat : m = Len(b) /\ n = Len(c)
  OBVIOUS
<1>0. m \in Nat /\ n \in Nat /\ from \in Nat /\ upto \in Nat
  OBVIOUS
<1>2. PICK bc \in Seq(P) : IsBoth(bc, b, c, m, n)
  <2>1. b \in Seq(P) /\ c \in Seq(P)
    OBVIOUS
  <2> HIDE DEF P
  <2> QED BY <1>1, <2>1, BothSequences, Zenon
<1>3. ASSUME NEW i \in 1 .. m + n
      PROVE  \/ i \in 1 .. m /\ bc[i] = b[i] /\ b[i] <= upto /\ b[i] \in Nat
             \/ i \in m + 1 .. m + n /\ bc[i] = upto + (i - m)
  <2>1. CASE i <= m
    <3>1. i \in 1 .. m
      BY <2>1
    <3>2. b[i] \in 1 .. MaxBytes
      BY <1>1, <3>1, ElementOfSeq
    <3> QED BY <1>1, <1>2, <2>1, <3>1, <3>2 DEF IsLine, IsBoth
  <2>2. CASE ~(i <= m)
    <3>1. i \in m + 1 .. m + n /\ i - m \in 1 .. n
      BY <1>1, <2>2
    <3> QED BY <1>1, <1>2, <2>2, <3>1 DEF IsBoth
  <2> QED BY <2>1, <2>2
<1>4. \A i, j \in 1 .. m + n : i < j => bc[i] < bc[j]
  <2> SUFFICES ASSUME NEW i \in 1 .. m + n, NEW j \in 1 .. m + n, i < j PROVE bc[i] < bc[j]
    OBVIOUS
  <2>1. CASE j \in 1 .. m /\ bc[j] = b[j]
    <3>1. i \in 1 .. m /\ i < j
      BY <1>1, <2>1
    <3>2. bc[i] = b[i]
      BY <1>2, <3>1 DEF IsBoth
    <3>3. b[i] < b[j]
      BY <1>1, <2>1, <3>1 DEF IsLine
    <3> QED BY <2>1, <3>2, <3>3
  <2>2. CASE j \in m + 1 .. m + n /\ bc[j] = upto + (j - m)
    <3>1. CASE i \in 1 .. m /\ bc[i] = b[i] /\ b[i] <= upto /\ b[i] \in Nat
      BY <1>1, <2>2, <3>1
    <3>2. CASE i \in m + 1 .. m + n /\ bc[i] = upto + (i - m)
      BY <1>1, <2>2, <3>2
    <3> QED BY <1>3, <3>1, <3>2
  <2> QED BY <1>3, <2>1, <2>2
<1>5. \A i \in 1 .. m + n : bc[i] <= upto + n
  <2> TAKE i \in 1 .. m + n
  <2>1. CASE i \in 1 .. m /\ bc[i] = b[i] /\ b[i] <= upto /\ b[i] \in Nat
    BY <1>1, <2>1
  <2>2. CASE i \in m + 1 .. m + n /\ bc[i] = upto + (i - m)
    BY <1>1, <2>2
  <2> QED BY <1>3, <2>1, <2>2
<1>6. from + (m + n) <= upto + n
  BY <1>1 DEF IsLine
<1>7. ASSUME whole
      PROVE  from + (m + n) = upto + n /\ \A i \in 1 .. m + n : bc[i] = from + i
  <2>1. from + m = upto /\ \A i \in 1 .. m : b[i] = from + i
    BY <1>1, <1>7 DEF IsLine
  <2>2. ASSUME NEW i \in 1 .. m + n PROVE bc[i] = from + i
    <3>1. CASE i \in 1 .. m /\ bc[i] = b[i]
      BY <2>1, <3>1
    <3>2. CASE i \in m + 1 .. m + n /\ bc[i] = upto + (i - m)
      <4>1. upto + (i - m) = from + i
        BY <1>0, <2>1, <3>2
      <4> QED BY <3>2, <4>1
    <3> QED BY <1>3, <3>1, <3>2
  <2>3. from + (m + n) = upto + n
    BY <1>0, <2>1
  <2> QED BY <2>2, <2>3
<1> QED BY <1>1, <1>2, <1>4, <1>5, <1>6, <1>7 DEF IsLine, IsBoth

-----------------------------------------------------------------------------
(* split *)

\* The client's next bytes.
LEMMA ChunkType ==
  ASSUME NEW k \in 1 .. MaxChunk, NEW vals \in Inputs(k), received \in Nat,
         received + Len(vals) <= MaxBytes
  PROVE  /\ Len(vals) = k /\ Chunk(vals) \in Seq(Byte) /\ Len(Chunk(vals)) = k
         /\ \A i \in 1 .. k : Chunk(vals)[i].pos = received + i
<1>1. vals \in [1 .. k -> Values]
  <2>1. \E f : f \in [1 .. k -> Values]
    <3>1. PICK v \in Values : TRUE
      BY UpstreamAssumption
    <3>2. [i \in 1 .. k |-> v] \in [1 .. k -> Values]
      BY <3>1
    <3> QED BY <3>2
  <2>2. (CHOOSE f \in [1 .. k -> Values] : TRUE) \in [1 .. k -> Values]
    BY <2>1, Zenon
  <2> QED BY <2>2, Zenon DEF Inputs
<1>2. k \in Nat /\ DOMAIN vals = 1 .. k /\ Len(vals) = k
  BY <1>1
<1> DEFINE c == Chunk(vals)
<1>3. c = [i \in 1 .. k |-> [pos |-> received + i, val |-> vals[i]]]
  BY <1>2 DEF Chunk
<1>4. \A i \in 1 .. k : received + i \in 1 .. MaxBytes /\ vals[i] \in Values
  BY <1>1, <1>2, UpstreamAssumption
<1>5. \A i \in 1 .. k : c[i] \in Byte /\ c[i].pos = received + i
  BY <1>3, <1>4 DEF Byte
<1>6. c = [i \in 1 .. k |-> c[i]]
  BY <1>3
<1> HIDE DEF c
<1>7. c \in Seq(Byte) /\ Len(c) = k
  BY <1>2, <1>5, <1>6
<1> QED BY <1>2, <1>5, <1>7 DEF c

\* The cipher makes values of a chunk, and its own while it is in step.
LEMMA DecryptedType ==
  ASSUME NEW chunk \in Seq(Byte), NEW plain \in Decrypted(chunk)
  PROVE  /\ plain \in Seq(Values) /\ Len(plain) = Len(chunk)
         /\ (chunk # <<>> => chunk[1].pos = handshakeLen + keystream + 1) =>
              \A i \in 1 .. Len(chunk) : plain[i] = chunk[i].val
<1>1. PICK n \in Nat : n = Len(chunk) /\ DOMAIN chunk = 1 .. n
  BY LenProperties
<1>2. CASE chunk # <<>> /\ chunk[1].pos = handshakeLen + keystream + 1
  <2>1. plain = Plain(chunk)
    BY <1>2, Zenon DEF Decrypted, Plain
  <2> QED BY <2>1, PlainType
<1>3. CASE ~(chunk # <<>> /\ chunk[1].pos = handshakeLen + keystream + 1)
  <2>1. plain \in [1 .. n -> Values]
    BY <1>1, <1>3 DEF Decrypted
  <2>2. plain \in Seq(Values) /\ Len(plain) = n
    BY <2>1
  <2>3. chunk = <<>> => n = 0
    BY <1>1
  <2> QED BY <1>1, <1>3, <2>2, <2>3
<1> QED BY <1>2, <1>3

\* One frame that may go before those that split finds.
Before(before, pre) == (before = <<>> /\ pre = <<>>) \/ before = <<pre>>

\* The frames of a step that splits: they and the bytes that wait make up the buffer.
IsFrames(fr, buf, ends, before, pre) ==
  /\ fr \in Seq(Seq(Byte)) /\ FlattenSeq(fr) \o Trim(buf, ends) = pre \o buf
  /\ Len(FlattenSeq(fr)) >= Len(pre)
  /\ \A i \in DOMAIN fr : \/ before = <<pre>> /\ fr[i] = pre
                          \/ \E j \in 1 .. Len(ends) : fr[i] = Parts(buf, ends)[j]

\* The frames of split are that.
LEMMA SplitFrames ==
  ASSUME NEW buf \in Seq(Byte), NEW ends, Ends(buf, ends), NEW pre \in Seq(Byte),
         NEW before, Before(before, pre)
  PROVE  IsFrames(before \o Parts(buf, ends), buf, ends, before, pre)
<1> DEFINE T == Seq(Byte)
<1>1. PICK parts \in Seq(Seq(Byte)) : /\ parts = Parts(buf, ends) /\ Len(parts) = Len(ends)
                                      /\ FlattenSeq(parts) \o Trim(buf, ends) = buf
  BY PartsAre
<1>2. parts \in Seq(T) /\ DOMAIN parts = 1 .. Len(parts) /\ Len(parts) \in Nat
  <2>1. parts \in Seq(T)
    OBVIOUS
  <2> HIDE DEF T
  <2> QED BY <2>1, LenProperties
<1>3. CASE before = <<>> /\ pre = <<>>
  <2>1. before \o parts = parts
    <3> HIDE DEF T
    <3> QED BY <1>2, <1>3, ConcatEmptySeq
  <2>2. pre \o buf = buf
    BY <1>3, ConcatEmptySeq
  <2>3. Len(FlattenSeq(parts)) >= Len(pre)
    <3>1. Len(FlattenSeq(parts)) \in Nat /\ Len(pre) = 0
      BY <1>3, FlattenType
    <3> QED BY <3>1
  <2> QED BY <1>1, <1>2, <2>1, <2>2, <2>3, Zenon DEF IsFrames
<1>4. CASE before = <<pre>>
  <2>1. /\ FlattenSeq(parts) \in Seq(Byte) /\ before \o parts \in Seq(Seq(Byte))
        /\ FlattenSeq(before \o parts) = pre \o FlattenSeq(parts)
    BY <1>4, FlattenFirst, Zenon
  <2>2. Trim(buf, ends) \in Seq(Byte)
    <3>1. Trim(buf, ends) = Left(buf, Start(ends, 0, Len(ends) + 1))
      BY PartsAre
    <3>2. Len(ends) + 1 \in 1 .. Len(ends) + 1
      BY <1>1, <1>2
    <3>3. Start(ends, 0, Len(ends) + 1) \in 0 .. Len(buf)
      BY <3>2, StartType
    <3> QED BY <3>1, <3>3, LeftType
  <2>3. (pre \o FlattenSeq(parts)) \o Trim(buf, ends) = pre \o (FlattenSeq(parts) \o Trim(buf, ends))
    <3> QED BY <2>1, <2>2, JoinedBytes, Zenon
  <2>4. ASSUME NEW i \in DOMAIN (before \o parts)
        PROVE  (before \o parts)[i] = pre \/ \E j \in 1 .. Len(ends) : (before \o parts)[i] = parts[j]
    <3>1. PICK one \in Seq(T) : one = <<pre>> /\ Len(one) = 1 /\ one[1] = pre
      BY OneElement
    <3>2. PICK n \in Nat : n = Len(parts)
      BY <1>2
    <3> HIDE DEF T
    <3>3. PICK st \in Seq(T) : IsBoth(st, one, parts, 1, n)
      BY <1>2, <3>1, <3>2, BothSequences, Zenon
    <3>4. st = before \o parts /\ i \in DOMAIN st
      BY <1>4, <3>1, <3>3 DEF IsBoth
    <3>5. DOMAIN st = 1 .. Len(st) /\ Len(st) = 1 + n
      BY <3>3, LenProperties DEF IsBoth
    <3>6. i \in 1 .. 1 + n
      BY <3>4, <3>5
    <3>7. st[i] = IF i <= 1 THEN one[i] ELSE parts[i - 1]
      BY <3>3, <3>6 DEF IsBoth
    <3>8. CASE i = 1
      BY <3>1, <3>4, <3>7, <3>8
    <3>9. CASE i # 1
      <4>1. i - 1 \in 1 .. n /\ ~(i <= 1)
        BY <3>6, <3>9
      <4>2. st[i] = parts[i - 1]
        BY <3>7, <4>1, Zenon
      <4> QED BY <1>1, <3>2, <3>4, <4>1, <4>2
    <3> QED BY <3>8, <3>9
  <2>5. Len(pre \o FlattenSeq(parts)) >= Len(pre)
    <3>1. Len(pre \o FlattenSeq(parts)) = Len(pre) + Len(FlattenSeq(parts))
      BY <2>1, ConcatProperties, Zenon
    <3>2. Len(pre) \in Nat /\ Len(FlattenSeq(parts)) \in Nat
      BY <2>1, LenProperties, Zenon
    <3> QED BY <3>1, <3>2
  <2> QED BY <1>1, <1>4, <2>1, <2>3, <2>4, <2>5, Zenon DEF IsFrames
<1> QED BY <1>3, <1>4 DEF Before

\* A part begins with a byte of the buffer.
LEMMA PartBegins ==
  ASSUME NEW buf \in Seq(Byte), NEW ends, Ends(buf, ends), NEW i \in 1 .. Len(ends)
  PROVE  \E q \in 1 .. Len(buf) : Parts(buf, ends)[i][1] = buf[q]
<1>1. ends \in Seq(0 .. Len(buf)) /\ Len(ends) \in Nat /\ Start(ends, 0, i) < ends[i]
  BY LenProperties DEF Ends
<1>2. ends[i] \in 0 .. Len(buf)
  BY <1>1, ElementOfSeq
<1>3. i \in 1 .. Len(ends) + 1
  BY <1>1
<1>4. PICK o \in 0 .. Len(buf) : o = Start(ends, 0, i)
  BY <1>3, StartType
<1>5. 1 \in 1 .. ends[i] - o /\ o + 1 \in 1 .. Len(buf)
  BY <1>1, <1>2, <1>4
<1>6. IsPart(Parts(buf, ends)[i], buf, o, ends[i])
  BY <1>4, PartsAre, Zenon
<1>7. Parts(buf, ends)[i][1] = buf[o + 1]
  BY <1>5, <1>6 DEF IsPart
<1> QED BY <1>5, <1>7

-----------------------------------------------------------------------------
(* The invariant *)

\* The bytes that wait, in either buffer, and what the last step made of those that
\* waited before it and those that came.
Waiting == IF initParsed THEN Positions(cipherBuf) ELSE initBuffer
Stream == Positions(FlattenSeq(frames)) \o Waiting

InLine == IsLine(Stream, done, received, ~lost /\ ~closed)

\* What the flags say: nothing is split before the init, the cipher has consumed
\* what came after it.
Phases ==
  /\ ~initParsed => /\ protoTag = "none" /\ ~disabled /\ keystream = 0 /\ done = 0
                    /\ cipherBuf = <<>> /\ plainBuf = <<>> /\ frames = <<>>
  /\ initParsed => /\ protoTag \in Protos /\ ~closed /\ keystream <= received
                   /\ ~lost => done + FrameBytes >= handshakeLen
                   /\ ~lost /\ ~disabled => handshakeLen + keystream = received

\* The decrypted copy is true while no byte was lost.
InStep == ~lost => \A i \in 1 .. Len(cipherBuf) : plainBuf[i] = cipherBuf[i].val

UpInv == TypeOK /\ InLine /\ Phases /\ InStep /\ OnePacketAFrame /\ NoPacketWaits

\* Where the stream stands.
LEMMA StreamStands ==
  ASSUME TypeOK, InLine
  PROVE  /\ FlattenSeq(frames) \in Seq(Byte) /\ FrameBytes \in Nat
         /\ done \in Nat /\ received \in Nat /\ done + FrameBytes \in 0 .. received
         /\ Waiting \in Seq(1 .. MaxBytes) /\ (~lost /\ ~closed) \in BOOLEAN
         /\ IsLine(Waiting, done + FrameBytes, received, ~lost /\ ~closed)
<1>1. FlattenSeq(frames) \in Seq(Byte) /\ FrameBytes \in Nat
  <2>1. frames \in Seq(Seq(Byte))
    BY DEF TypeOK
  <2> QED BY <2>1, FlattenType DEF FrameBytes
<1>2. PICK out \in Seq(1 .. MaxBytes) : out = Positions(FlattenSeq(frames)) /\ Len(out) = FrameBytes
  BY <1>1, PositionsType DEF FrameBytes
<1>3. Waiting \in Seq(1 .. MaxBytes)
  <2>1. cipherBuf \in Seq(Byte) /\ initBuffer \in Seq(1 .. MaxBytes)
    BY DEF TypeOK
  <2> QED BY <2>1, PositionsType DEF Waiting
<1>4. done \in Nat /\ received \in Nat /\ (~lost /\ ~closed) \in BOOLEAN
  BY UpstreamAssumption DEF TypeOK
<1>5. IsLine(out \o Waiting, done, received, ~lost /\ ~closed)
  BY <1>2 DEF InLine, Stream
<1>6. IsLine(Waiting, done + FrameBytes, received, ~lost /\ ~closed)
  BY <1>2, <1>3, <1>4, <1>5, LineTail
<1>7. done + FrameBytes \in 0 .. received
  <2>1. Len(Waiting) \in Nat /\ done + FrameBytes + Len(Waiting) <= received
    BY <1>3, <1>6, LenProperties DEF IsLine
  <2> QED BY <1>1, <1>4, <2>1
<1> QED BY <1>1, <1>3, <1>4, <1>6, <1>7

\* A step that takes the next bytes and moves what waited keeps the stream in line.
LEMMA LineAfter ==
  ASSUME TypeOK, InLine, NEW c \in Seq(1 .. MaxBytes), \A i \in 1 .. Len(c) : c[i] = received + i,
         received' = received + Len(c), done' = done + FrameBytes, Stream' = Waiting \o c,
         UNCHANGED <<lost, closed>>
  PROVE  InLine'
<1>1. IsLine(Waiting \o c, done + FrameBytes, received + Len(c), ~lost /\ ~closed)
  <2>1. PICK from \in Nat, whole \in BOOLEAN, upto \in Nat, b \in Seq(1 .. MaxBytes) :
          /\ from = done + FrameBytes /\ whole = (~lost /\ ~closed) /\ upto = received /\ b = Waiting
          /\ IsLine(b, from, upto, whole)
    <3>1. done + FrameBytes \in Nat
      BY StreamStands
    <3> QED BY <3>1, StreamStands, Zenon
  <2>2. \A i \in 1 .. Len(c) : c[i] = upto + i
    BY <2>1
  <2>3. IsLine(b \o c, from, upto + Len(c), whole)
    BY <2>1, <2>2, LineMore, Zenon
  <2> QED BY <2>1, <2>3, Zenon
<1> QED BY <1>1, Zenon DEF InLine

\* What split does to the bytes of buf, those that waited and the n that came; if the
\* decrypted copy is true, it stays so and the frames are packets.
HasSplit(tag, before, pre, buf, n, true) ==
  /\ frames' \in Seq(Seq(Byte)) /\ cipherBuf' \in Seq(Byte) /\ plainBuf' \in Seq(Values)
  /\ Len(plainBuf') = Len(cipherBuf') /\ disabled' \in BOOLEAN
  /\ keystream' = keystream + n
  /\ FlattenSeq(frames') \o cipherBuf' = pre \o buf
  /\ Len(FlattenSeq(frames')) >= Len(pre)
  /\ disabled' => cipherBuf' = <<>>
  /\ true => \A i \in 1 .. Len(cipherBuf') : plainBuf'[i] = cipherBuf'[i].val
  /\ true => \A m \in 1 .. Len(cipherBuf') : ~IsPacket(tag, SubSeq(cipherBuf', 1, m))
  /\ true /\ ~disabled' =>
       \A i \in DOMAIN frames' :
         \/ before = <<pre>> /\ frames'[i] = pre
         \/ IsPacket(tag, frames'[i]) /\ \E q \in 1 .. Len(buf) : frames'[i][1] = buf[q]

\* split does that while it splits.
LEMMA Splits ==
  ASSUME TypeOK, ~disabled, NEW tag \in Protos, NEW chunk \in Seq(Byte),
         NEW plain \in Decrypted(chunk),
         NEW pre \in Seq(Byte), NEW before, Before(before, pre), split(tag, before, chunk, plain),
         NEW true \in BOOLEAN,
         true => \A i \in 1 .. Len(cipherBuf) : plainBuf[i] = cipherBuf[i].val,
         true /\ chunk # <<>> => chunk[1].pos = handshakeLen + keystream + 1
  PROVE  /\ cipherBuf \o chunk \in Seq(Byte)
         /\ HasSplit(tag, before, pre, cipherBuf \o chunk, Len(chunk), true)
<1>1. PICK k \in Nat, n \in Nat : k = Len(cipherBuf) /\ n = Len(chunk)
  BY LenProperties DEF TypeOK
<1>2. cipherBuf \in Seq(Byte) /\ plainBuf \in Seq(Values) /\ Len(plainBuf) = k
  BY <1>1 DEF TypeOK
<1>3. plain \in Seq(Values) /\ Len(plain) = n
  BY <1>1, DecryptedType
<1>4. PICK buf \in Seq(Byte) : IsBoth(buf, cipherBuf, chunk, k, n)
  BY <1>1, <1>2, BothSequences, Zenon
<1>5. PICK text \in Seq(Values) : IsBoth(text, plainBuf, plain, k, n)
  BY <1>1, <1>2, <1>3, BothSequences, Zenon
<1>6. PICK cut : cut = Cuts(tag, text)
  OBVIOUS
<1>7. buf = cipherBuf \o chunk /\ text = plainBuf \o plain /\ Len(text) = Len(buf)
  BY <1>4, <1>5, Zenon DEF IsBoth
<1>8. /\ frames' = before \o Parts(buf, cut.ends) /\ cipherBuf' = Trim(buf, cut.ends)
      /\ plainBuf' = Trim(text, cut.ends) /\ disabled' = cut.disabled
      /\ keystream' = keystream + Len(chunk)
  BY <1>6, <1>7, Zenon DEF split
<1>9. /\ Ends(buf, cut.ends) /\ cut.disabled \in BOOLEAN
      /\ cipherBuf' \in Seq(Byte) /\ plainBuf' \in Seq(Values) /\ Len(plainBuf') = Len(cipherBuf')
      /\ disabled' => cipherBuf' = <<>>
  BY <1>6, <1>7, <1>8, CutsTrimmed
<1>10. /\ frames' \in Seq(Seq(Byte)) /\ FlattenSeq(frames') \o cipherBuf' = pre \o buf
       /\ Len(FlattenSeq(frames')) >= Len(pre)
       /\ \A i \in DOMAIN frames' : \/ before = <<pre>> /\ frames'[i] = pre
                                    \/ \E j \in 1 .. Len(cut.ends) :
                                         frames'[i] = Parts(buf, cut.ends)[j]
  <2> DEFINE fr == before \o Parts(buf, cut.ends)
  <2>1. IsFrames(fr, buf, cut.ends, before, pre)
    BY <1>9, SplitFrames
  <2> QED BY <1>8, <2>1, Zenon DEF IsFrames
<1>11. ASSUME true
       PROVE  /\ \A i \in 1 .. Len(cipherBuf') : plainBuf'[i] = cipherBuf'[i].val
              /\ \A m \in 1 .. Len(cipherBuf') : ~IsPacket(tag, SubSeq(cipherBuf', 1, m))
              /\ ~disabled' => \A i \in DOMAIN frames' :
                                 \/ before = <<pre>> /\ frames'[i] = pre
                                 \/ /\ IsPacket(tag, frames'[i])
                                    /\ \E q \in 1 .. Len(buf) : frames'[i][1] = buf[q]
  <2>1. \A i \in 1 .. n : plain[i] = chunk[i].val
    BY <1>1, <1>11, DecryptedType
  <2>2. \A i \in 1 .. Len(buf) : text[i] = buf[i].val
    <3> TAKE i \in 1 .. Len(buf)
    <3>1. i \in 1 .. k + n
      BY <1>4 DEF IsBoth
    <3>2. CASE i <= k
      <4>1. i \in 1 .. k
        BY <3>1, <3>2
      <4>2. text[i] = plainBuf[i] /\ buf[i] = cipherBuf[i]
        BY <1>4, <1>5, <3>1, <3>2 DEF IsBoth
      <4> QED BY <1>1, <1>11, <4>1, <4>2
    <3>3. CASE ~(i <= k)
      <4>1. i - k \in 1 .. n
        BY <3>1, <3>3
      <4>2. text[i] = plain[i - k] /\ buf[i] = chunk[i - k]
        BY <1>4, <1>5, <3>1, <3>3 DEF IsBoth
      <4> QED BY <2>1, <4>1, <4>2
    <3> QED BY <3>2, <3>3
  <2>3. IsCut(tag, buf, text, cut)
    BY <1>6, <1>7, <2>2, CutIntoPackets
  <2>4. \A j \in 1 .. Len(cut.ends) : \E q \in 1 .. Len(buf) : Parts(buf, cut.ends)[j][1] = buf[q]
    BY <1>9, PartBegins
  <2>5. ASSUME ~disabled', NEW i \in DOMAIN frames'
        PROVE  \/ before = <<pre>> /\ frames'[i] = pre
               \/ /\ IsPacket(tag, frames'[i])
                  /\ \E q \in 1 .. Len(buf) : frames'[i][1] = buf[q]
    <3>1. CASE \E j \in 1 .. Len(cut.ends) : frames'[i] = Parts(buf, cut.ends)[j]
      BY <1>8, <2>3, <2>4, <2>5, <3>1 DEF IsCut
    <3> QED BY <1>10, <3>1
  <2> QED BY <1>8, <2>3, <2>5 DEF IsCut
<1>12. HasSplit(tag, before, pre, buf, Len(chunk), true)
  BY <1>8, <1>9, <1>10, <1>11 DEF HasSplit
<1> QED BY <1>7, <1>12, Zenon

-----------------------------------------------------------------------------
(* The steps *)

\* The next bytes once the init is parsed, while the splitter splits.
LEMMA ParsedStep ==
  ASSUME UpInv, NEW k \in 1 .. MaxChunk, NEW vals \in Inputs(k), tcp_recv_cb(vals),
         initParsed, ~disabled
  PROVE  UpInv'
<1>1. PICK chunk \in Seq(Byte) : /\ chunk = Chunk(vals) /\ Len(chunk) = k /\ Len(vals) = k
                                 /\ \A i \in 1 .. k : chunk[i].pos = received + i
  <2>1. received \in Nat /\ received + Len(vals) <= MaxBytes
    BY UpstreamAssumption DEF UpInv, TypeOK, tcp_recv_cb
  <2> QED BY <2>1, ChunkType
<1>2. /\ handleData(chunk) /\ received + k <= MaxBytes /\ ~closed /\ k \in Nat \ {0}
      /\ received' = received + k /\ done' = done + FrameBytes
      /\ UNCHANGED <<proto, lost, protoTag, initBuffer, initParsed, closed>>
  BY <1>1 DEF tcp_recv_cb, handleData
<1>3. PICK plain \in Decrypted(chunk) : split(protoTag, <<>>, chunk, plain)
  BY <1>2 DEF handleData
<1>4. /\ TypeOK /\ InLine /\ protoTag \in Protos /\ keystream \in Nat /\ keystream <= received
      /\ ~lost => done + FrameBytes >= handshakeLen /\ handshakeLen + keystream = received
      /\ ~lost => \A i \in 1 .. Len(cipherBuf) : plainBuf[i] = cipherBuf[i].val
  BY UpstreamAssumption DEF UpInv, TypeOK, Phases, InStep
<1>5. /\ FrameBytes \in Nat /\ done \in Nat /\ received \in Nat /\ done + FrameBytes \in 0 .. received
      /\ Waiting \in Seq(1 .. MaxBytes) /\ handshakeLen \in Nat \ {0} /\ MaxBytes \in Nat
  BY <1>4, StreamStands, UpstreamAssumption
<1>6. ~lost /\ chunk # <<>> => chunk[1].pos = handshakeLen + keystream + 1
  BY <1>1, <1>2, <1>4, <1>5
<1>7. PICK buf \in Seq(Byte) : buf = cipherBuf \o chunk
  <2>1. cipherBuf \in Seq(Byte)
    BY <1>4 DEF TypeOK
  <2> QED BY <2>1, ConcatProperties
<1>8. HasSplit(protoTag, <<>>, <<>>, buf, k, ~lost)
  <2>1. PICK pre \in Seq(Byte) : pre = <<>>
    BY EmptySeq
  <2>2. Before(<<>>, pre)
    BY <2>1 DEF Before
  <2>3. (~lost) \in BOOLEAN
    OBVIOUS
  <2>4. HasSplit(protoTag, <<>>, pre, cipherBuf \o chunk, Len(chunk), ~lost)
    BY <1>3, <1>4, <1>6, <2>2, <2>3, Splits
  <2> QED BY <1>1, <1>7, <2>1, <2>4
<1>9. TypeOK'
  <2>1. /\ proto' \in Protos \cup {"other"} /\ protoTag' \in Protos \cup {"none"}
        /\ lost' \in BOOLEAN /\ initParsed' \in BOOLEAN /\ closed' \in BOOLEAN
        /\ initBuffer' \in Seq(1 .. MaxBytes) /\ Len(initBuffer') < handshakeLen
    BY <1>2, <1>4 DEF TypeOK
  <2>2. received' \in 0 .. MaxBytes /\ done' \in 0 .. MaxBytes /\ keystream' \in 0 .. MaxBytes
    BY <1>2, <1>4, <1>5, <1>8 DEF HasSplit
  <2> QED BY <1>8, <2>1, <2>2 DEF TypeOK, HasSplit
<1>10. /\ Stream' = Waiting \o Positions(chunk) /\ Waiting \o Positions(chunk) = Positions(buf)
       /\ Positions(chunk) \in Seq(1 .. MaxBytes) /\ Len(Positions(chunk)) = k
       /\ \A i \in 1 .. k : Positions(chunk)[i] = received + i
  <2>1. FlattenSeq(frames') \in Seq(Byte)
    BY <1>8, FlattenType DEF HasSplit
  <2>2. FlattenSeq(frames') \o cipherBuf' = buf
    BY <1>8, ConcatEmptySeq DEF HasSplit
  <2>3. Positions(FlattenSeq(frames')) \o Positions(cipherBuf') = Positions(buf)
    BY <1>8, <2>1, <2>2, PositionsOfBoth DEF HasSplit
  <2>4. Positions(buf) = Positions(cipherBuf) \o Positions(chunk)
    <3>1. cipherBuf \in Seq(Byte)
      BY <1>4 DEF TypeOK
    <3> QED BY <1>7, <3>1, PositionsOfBoth
  <2>5. Stream' = Positions(FlattenSeq(frames')) \o Positions(cipherBuf')
    BY <1>2 DEF Stream, Waiting
  <2>6. Waiting = Positions(cipherBuf)
    BY DEF Waiting
  <2>7. /\ Positions(chunk) \in Seq(1 .. MaxBytes) /\ Len(Positions(chunk)) = k
        /\ \A i \in 1 .. k : Positions(chunk)[i] = received + i
    BY <1>1, PositionsType
  <2> QED BY <2>3, <2>4, <2>5, <2>6, <2>7
<1>11. InLine'
  <2>1. UNCHANGED <<lost, closed>>
    BY <1>2
  <2> QED BY <1>2, <1>4, <1>10, <2>1, LineAfter
<1>12. Phases'
  <2>1. FrameBytes' \in Nat
    BY <1>8, FlattenType DEF FrameBytes, HasSplit
  <2>2. initParsed' /\ protoTag' \in Protos /\ ~closed' /\ keystream' <= received'
    BY <1>2, <1>4, <1>5, <1>8 DEF HasSplit
  <2>3. ~lost' => done' + FrameBytes' >= handshakeLen
    BY <1>2, <1>4, <1>5, <2>1
  <2>4. ~lost' /\ ~disabled' => handshakeLen + keystream' = received'
    BY <1>2, <1>4, <1>5, <1>8 DEF HasSplit
  <2> QED BY <2>2, <2>3, <2>4 DEF Phases
<1>13. InStep'
  BY <1>2, <1>8 DEF InStep, HasSplit
<1>14. OnePacketAFrame'
  <2> SUFFICES ASSUME ~lost, ~disabled', NEW i \in DOMAIN frames'
               PROVE  IF frames'[i][1].pos = 1 THEN Len(frames'[i]) = handshakeLen
                      ELSE IsPacket(protoTag', frames'[i])
    BY <1>2 DEF OnePacketAFrame
  <2>1. IsPacket(protoTag, frames'[i]) /\ \E q \in 1 .. Len(buf) : frames'[i][1] = buf[q]
    <3>1. <<>> # <<<<>>>>
      OBVIOUS
    <3> QED BY <1>8, <3>1 DEF HasSplit
  <2>2. PICK q \in 1 .. Len(buf) : frames'[i][1] = buf[q]
    BY <2>1
  <2>3. buf[q].pos # 1
    <3>1. /\ Positions(buf)[q] = buf[q].pos /\ Len(Positions(buf)) = Len(buf)
      BY PositionsType
    <3>2. IsLine(Positions(buf), done + FrameBytes, received + k, TRUE)
      <4>1. IsLine(Stream', done', received', ~lost' /\ ~closed')
        BY <1>11 DEF InLine
      <4> QED BY <1>2, <1>10, <4>1
    <3>3. buf[q].pos = done + FrameBytes + q
      BY <3>1, <3>2 DEF IsLine
    <3> QED BY <1>4, <1>5, <3>3
  <2> QED BY <1>2, <2>1, <2>2, <2>3
<1>15. NoPacketWaits'
  <2>1. ~lost' => \A m \in 1 .. Len(cipherBuf') : ~IsPacket(protoTag', SubSeq(cipherBuf', 1, m))
    BY <1>2, <1>8 DEF HasSplit
  <2> QED BY <1>8, <2>1 DEF NoPacketWaits, HasSplit
<1> QED BY <1>9, <1>11, <1>12, <1>13, <1>14, <1>15 DEF UpInv

\* The next bytes once a zero length has ended the splitting.
LEMMA EndedStep ==
  ASSUME UpInv, NEW k \in 1 .. MaxChunk, NEW vals \in Inputs(k), tcp_recv_cb(vals),
         initParsed, disabled
  PROVE  UpInv'
<1>1. PICK chunk \in Seq(Byte) : /\ chunk = Chunk(vals) /\ Len(chunk) = k /\ Len(vals) = k
                                 /\ \A i \in 1 .. k : chunk[i].pos = received + i
  <2>1. received \in Nat /\ received + Len(vals) <= MaxBytes
    BY UpstreamAssumption DEF UpInv, TypeOK, tcp_recv_cb
  <2> QED BY <2>1, ChunkType
<1>2. /\ received + k <= MaxBytes /\ ~closed /\ k \in Nat \ {0}
      /\ received' = received + k /\ done' = done + FrameBytes
      /\ UNCHANGED <<proto, lost, protoTag, initBuffer, initParsed, closed>>
      /\ \E plain \in Decrypted(chunk) : split(protoTag, <<>>, chunk, plain)
  BY <1>1 DEF tcp_recv_cb, handleData
<1>3. frames' = <<>> \o <<chunk>> /\ UNCHANGED <<cipherBuf, plainBuf, disabled, keystream>>
  BY <1>2, Zenon DEF split
<1>4. /\ TypeOK /\ InLine /\ protoTag \in Protos /\ keystream \in Nat /\ keystream <= received
      /\ ~lost => done + FrameBytes >= handshakeLen
      /\ cipherBuf = <<>>
  BY UpstreamAssumption DEF UpInv, TypeOK, Phases, NoPacketWaits
<1>5. /\ FrameBytes \in Nat /\ done \in Nat /\ received \in Nat /\ done + FrameBytes \in 0 .. received
      /\ handshakeLen \in Nat \ {0} /\ MaxBytes \in Nat
  BY <1>4, StreamStands, UpstreamAssumption
<1>6. frames' \in Seq(Seq(Byte)) /\ FlattenSeq(frames') = chunk
  <2>1. <<chunk>> \in Seq(Seq(Byte)) /\ FlattenSeq(<<chunk>>) = chunk
    BY FlattenOne
  <2>2. <<>> \o <<chunk>> = <<chunk>>
    BY <2>1, ConcatEmptySeq, Zenon
  <2> QED BY <1>3, <2>1, <2>2
<1>7. TypeOK'
  <2>1. /\ proto' \in Protos \cup {"other"} /\ protoTag' \in Protos \cup {"none"}
        /\ lost' \in BOOLEAN /\ initParsed' \in BOOLEAN /\ closed' \in BOOLEAN /\ disabled' \in BOOLEAN
        /\ initBuffer' \in Seq(1 .. MaxBytes) /\ Len(initBuffer') < handshakeLen
        /\ cipherBuf' \in Seq(Byte) /\ plainBuf' \in Seq(Values) /\ Len(plainBuf') = Len(cipherBuf')
        /\ keystream' \in 0 .. MaxBytes
    BY <1>2, <1>3, <1>4 DEF TypeOK
  <2>2. received' \in 0 .. MaxBytes /\ done' \in 0 .. MaxBytes
    BY <1>2, <1>4, <1>5
  <2> QED BY <1>6, <2>1, <2>2 DEF TypeOK
<1>8. /\ Stream' = Waiting \o Positions(chunk)
      /\ Positions(chunk) \in Seq(1 .. MaxBytes) /\ Len(Positions(chunk)) = k
      /\ \A i \in 1 .. k : Positions(chunk)[i] = received + i
  <2>1. /\ Positions(chunk) \in Seq(1 .. MaxBytes) /\ Len(Positions(chunk)) = k
        /\ \A i \in 1 .. k : Positions(chunk)[i] = received + i
    BY <1>1, PositionsType
  <2>2. Positions(<<>>) = <<>>
    <3>1. <<>> \in Seq(Byte)
      OBVIOUS
    <3>2. Positions(<<>>) \in Seq(1 .. MaxBytes) /\ Len(Positions(<<>>)) = 0
      BY <3>1, PositionsType
    <3> QED BY <3>2, EmptySeq
  <2>3. Waiting = <<>> /\ Stream' = Positions(chunk) \o <<>>
    BY <1>2, <1>3, <1>4, <1>6, <2>2 DEF Waiting, Stream
  <2> QED BY <2>1, <2>3, ConcatEmptySeq
<1>9. InLine'
  <2>1. UNCHANGED <<lost, closed>>
    BY <1>2
  <2> QED BY <1>2, <1>4, <1>8, <2>1, LineAfter
<1>10. Phases'
  <2>1. FrameBytes' \in Nat
    BY <1>6, FlattenType DEF FrameBytes
  <2>2. initParsed' /\ protoTag' \in Protos /\ ~closed' /\ keystream' <= received' /\ disabled'
    BY <1>2, <1>3, <1>4, <1>5
  <2>3. ~lost' => done' + FrameBytes' >= handshakeLen
    <3>1. PICK b \in Nat : b = FrameBytes'
      BY <2>1
    <3>2. ~lost' => done' >= handshakeLen /\ done' \in Nat
      BY <1>2, <1>4, <1>5
    <3>3. ~lost' => done' + b >= handshakeLen
      BY <1>5, <3>2
    <3> QED BY <3>1, <3>3
  <2> QED BY <2>2, <2>3 DEF Phases
<1>11. InStep'
  BY <1>2, <1>3 DEF UpInv, InStep
<1>12. OnePacketAFrame'
  BY <1>3 DEF OnePacketAFrame
<1>13. NoPacketWaits'
  <2>1. 1 .. Len(cipherBuf') = {}
    BY <1>3, <1>4
  <2> QED BY <1>3, <1>4, <2>1 DEF NoPacketWaits
<1> QED BY <1>7, <1>9, <1>10, <1>11, <1>12, <1>13 DEF UpInv

\* Bytes that malloc loses.
LEMMA NoMemStep ==
  ASSUME UpInv, NEW k \in 1 .. MaxChunk, tcp_recv_cb_NoMem(k)
  PROVE  UpInv'
<1>1. /\ received + k <= MaxBytes /\ received' = received + k /\ lost' = TRUE
      /\ done' = done + FrameBytes /\ frames' = <<>>
      /\ UNCHANGED <<proto, protoTag, initBuffer, initParsed, keystream, cipherBuf, plainBuf,
                     disabled, closed>>
      /\ TypeOK /\ InLine /\ k \in Nat
  BY DEF tcp_recv_cb_NoMem, UpInv
<1>2. /\ FrameBytes \in Nat /\ done \in Nat /\ received \in Nat /\ done + FrameBytes \in 0 .. received
      /\ Waiting \in Seq(1 .. MaxBytes) /\ MaxBytes \in Nat
      /\ IsLine(Waiting, done + FrameBytes, received, ~lost /\ ~closed)
  BY <1>1, StreamStands, UpstreamAssumption
<1>3. frames' \in Seq(Seq(Byte)) /\ FlattenSeq(frames') = <<>> /\ FrameBytes' = 0
  <2>1. <<>> \in Seq(Byte) /\ Len(<<>>) = 0
    OBVIOUS
  <2>2. <<>> \in Seq(Seq(Byte)) /\ FlattenSeq(<<>>) = <<>>
    BY <2>1, FlattenOne
  <2> QED BY <1>1, <2>1, <2>2 DEF FrameBytes
<1>4. TypeOK'
  <2>1. /\ proto' \in Protos \cup {"other"} /\ protoTag' \in Protos \cup {"none"}
        /\ lost' \in BOOLEAN /\ initParsed' \in BOOLEAN /\ closed' \in BOOLEAN /\ disabled' \in BOOLEAN
        /\ initBuffer' \in Seq(1 .. MaxBytes) /\ Len(initBuffer') < handshakeLen
        /\ cipherBuf' \in Seq(Byte) /\ plainBuf' \in Seq(Values) /\ Len(plainBuf') = Len(cipherBuf')
        /\ keystream' \in 0 .. MaxBytes
    BY <1>1 DEF TypeOK
  <2>2. received' \in 0 .. MaxBytes /\ done' \in 0 .. MaxBytes
    BY <1>1, <1>2
  <2> QED BY <1>3, <2>1, <2>2 DEF TypeOK
<1>5. InLine'
  <2>1. Positions(<<>>) = <<>>
    <3>1. <<>> \in Seq(Byte)
      OBVIOUS
    <3>2. Positions(<<>>) \in Seq(1 .. MaxBytes) /\ Len(Positions(<<>>)) = 0
      BY <3>1, PositionsType
    <3> QED BY <3>2, EmptySeq
  <2>2. Stream' = <<>> \o Waiting
    BY <1>1, <1>3, <2>1 DEF Stream, Waiting
  <2>3. Stream' = Waiting
    BY <1>2, <2>2, ConcatEmptySeq
  <2>4. IsLine(Waiting, done + FrameBytes, received + k, FALSE)
    <3>1. Len(Waiting) \in Nat /\ \A i \in 1 .. Len(Waiting) : Waiting[i] \in 1 .. MaxBytes
      BY <1>2, ElementOfSeq
    <3>2. \A i \in 1 .. Len(Waiting) : Waiting[i] <= received + k
      <4> TAKE i \in 1 .. Len(Waiting)
      <4>1. Waiting[i] <= received /\ Waiting[i] \in Nat
        BY <1>2, <3>1 DEF IsLine
      <4> QED BY <1>1, <1>2, <4>1
    <3>3. done + FrameBytes + Len(Waiting) <= received + k
      <4>1. done + FrameBytes + Len(Waiting) <= received
        BY <1>2 DEF IsLine
      <4> QED BY <1>1, <1>2, <3>1, <4>1
    <3> QED BY <1>2, <3>2, <3>3 DEF IsLine
  <2>5. IsLine(Stream', done', received', FALSE)
    BY <1>1, <2>3, <2>4
  <2> QED BY <1>1, <2>5 DEF InLine, IsLine
<1>6. Phases'
  <2>1. ~initParsed' => /\ protoTag' = "none" /\ ~disabled' /\ keystream' = 0 /\ done' = 0
                        /\ cipherBuf' = <<>> /\ plainBuf' = <<>> /\ frames' = <<>>
    <3>1. ~initParsed => done = 0 /\ FrameBytes = 0
      <4>1. ~initParsed => frames = <<>> /\ done = 0
        BY DEF UpInv, Phases
      <4>2. FlattenSeq(<<>>) = <<>> /\ Len(<<>>) = 0
        BY <1>1, <1>3
      <4> QED BY <4>1, <4>2 DEF FrameBytes
    <3> QED BY <1>1, <3>1 DEF UpInv, Phases
  <2>2. initParsed' => protoTag' \in Protos /\ ~closed' /\ keystream' <= received'
    <3>1. initParsed => protoTag \in Protos /\ ~closed /\ keystream <= received
      BY DEF UpInv, Phases
    <3>2. keystream \in Nat
      BY <1>1 DEF TypeOK
    <3> QED BY <1>1, <1>2, <3>1, <3>2
  <2> QED BY <1>1, <2>1, <2>2 DEF Phases
<1>7. InStep' /\ OnePacketAFrame'
  BY <1>1 DEF InStep, OnePacketAFrame
<1>8. NoPacketWaits'
  BY <1>1 DEF UpInv, NoPacketWaits
<1> QED BY <1>4, <1>5, <1>6, <1>7, <1>8 DEF UpInv

\* No bytes.
LEMMA NoBytes ==
  /\ <<>> \in Seq(Byte) /\ <<>> \in Seq(Seq(Byte)) /\ FlattenSeq(<<>>) = <<>> /\ Len(<<>>) = 0
  /\ Positions(<<>>) = <<>>
<1>1. <<>> \in Seq(Byte) /\ Len(<<>>) = 0
  OBVIOUS
<1>2. Positions(<<>>) \in Seq(1 .. MaxBytes) /\ Len(Positions(<<>>)) = 0
  BY <1>1, PositionsType
<1>3. Positions(<<>>) = <<>>
  BY <1>2, EmptySeq
<1>4. <<>> \in Seq(Seq(Byte)) /\ FlattenSeq(<<>>) = <<>>
  BY <1>1, FlattenOne
<1> QED BY <1>1, <1>3, <1>4

\* The frame of the init.
LEMMA InitFrameType ==
  ASSUME NEW init \in Seq(1 .. MaxBytes)
  PROVE  /\ InitFrame(init) \in Seq(Byte) /\ Len(InitFrame(init)) = Len(init)
         /\ Positions(InitFrame(init)) = init
         /\ \A i \in 1 .. Len(init) : InitFrame(init)[i].pos = init[i]
<1> DEFINE v == CHOOSE x \in Values : TRUE
           f == InitFrame(init)
<1>1. v \in Values
  <2>1. \E x \in Values : TRUE
    BY UpstreamAssumption
  <2> QED BY <2>1, Zenon
<1>2. PICK n \in Nat : n = Len(init) /\ DOMAIN init = 1 .. n
  BY LenProperties
<1>3. f = [i \in 1 .. n |-> [pos |-> init[i], val |-> v]]
  BY <1>2, Zenon DEF InitFrame
<1> HIDE DEF v, f
<1>4. \A i \in 1 .. n : init[i] \in 1 .. MaxBytes
  BY <1>2, ElementOfSeq
<1>5. \A i \in 1 .. n : f[i] \in Byte /\ f[i].pos = init[i]
  BY <1>1, <1>3, <1>4 DEF Byte
<1>6. f = [i \in 1 .. n |-> f[i]]
  BY <1>3
<1>7. f \in Seq(Byte) /\ Len(f) = n
  BY <1>5, <1>6
<1>8. Positions(f) = init
  <2>1. /\ Positions(f) \in Seq(1 .. MaxBytes) /\ Len(Positions(f)) = n
        /\ \A i \in 1 .. n : Positions(f)[i] = f[i].pos
    BY <1>7, PositionsType
  <2>2. \A i \in 1 .. n : Positions(f)[i] = init[i]
    BY <1>5, <2>1
  <2> QED BY <1>2, <2>1, <2>2, SeqEqual
<1> QED BY <1>2, <1>5, <1>7, <1>8 DEF f

\* all is what waited for the init and a chunk, init its first h positions, rest the
\* n bytes after them.
IsInitCut(all, init, rest, h, n) ==
  /\ all \in Seq(1 .. MaxBytes) /\ Len(all) = h + n
  /\ init \in Seq(1 .. MaxBytes) /\ Len(init) = h /\ \A i \in 1 .. h : init[i] = all[i]
  /\ rest \in Seq(Byte) /\ Len(rest) = n /\ \A i \in 1 .. n : rest[i].pos = all[h + i]
  /\ init \o Positions(rest) = all

\* With m bytes that waited, the init takes a of the chunk and leaves n.
LEMMA InitCut ==
  ASSUME NEW b \in Seq(1 .. MaxBytes), NEW c \in Seq(Byte),
         NEW m \in Nat, NEW a \in Nat \ {0}, NEW n \in Nat, Len(b) = m, Len(c) = a + n
  PROVE  IsInitCut(b \o Positions(c), SubSeq(b \o Positions(c), 1, m + a), SubSeq(c, a + 1, a + n),
                   m + a, n)
<1> DEFINE P == 1 .. MaxBytes
<1>1. PICK k \in Nat, h \in Nat : /\ k = a + n /\ h = m + a /\ h >= 1 /\ m + k = h + n
                                  /\ a >= 1 /\ m <= h
  OBVIOUS
<1>2. PICK p \in Seq(P) : p = Positions(c) /\ Len(p) = k /\ \A i \in 1 .. k : p[i] = c[i].pos
  BY <1>1, PositionsType
<1>3. PICK all \in Seq(P) : IsBoth(all, b, p, m, k)
  <2>1. b \in Seq(P)
    OBVIOUS
  <2> HIDE DEF P
  <2> QED BY <1>1, <1>2, <2>1, BothSequences, Zenon
<1> HIDE DEF P
<1>4. Len(all) = h + n /\ all = b \o Positions(c)
  BY <1>1, <1>2, <1>3 DEF IsBoth
<1>5. PICK init \in Seq(P) : /\ init = SubSeq(all, 1, h) /\ Len(init) = h
                             /\ \A i \in 1 .. h : init[i] = all[i]
  <2> DEFINE s == SubSeq(all, 1, h)
  <2>1. 1 \in Int /\ h \in Int /\ 1 <= h /\ \A i \in 1 .. h : i \in 1 .. Len(all)
    BY <1>1, <1>4
  <2>2. \A i \in 1 .. h : all[i] \in P
    BY <2>1, ElementOfSeq
  <2>3. /\ s \in Seq(P) /\ Len(s) = IF 1 <= h THEN h - 1 + 1 ELSE 0
        /\ \A i \in 1 .. h - 1 + 1 : s[i] = all[1 + i - 1]
    BY <2>1, <2>2, SubSeqProperties
  <2> HIDE DEF s
  <2>4. \A i \in 1 .. h : i \in 1 .. h - 1 + 1 /\ 1 + i - 1 = i
    BY <2>1
  <2>5. Len(s) = h /\ \A i \in 1 .. h : s[i] = all[i]
    BY <2>1, <2>3, <2>4
  <2> QED BY <2>3, <2>5 DEF s
<1>6. PICK rest \in Seq(Byte) : /\ rest = SubSeq(c, a + 1, k) /\ Len(rest) = n
                                /\ \A i \in 1 .. n : rest[i] = c[a + i]
  <2> DEFINE s == SubSeq(c, a + 1, k)
  <2>1. a + 1 \in Int /\ k \in Int /\ \A i \in a + 1 .. k : i \in 1 .. Len(c)
    BY <1>1
  <2>2. \A i \in a + 1 .. k : c[i] \in Byte
    BY <2>1, ElementOfSeq
  <2>3. /\ s \in Seq(Byte) /\ Len(s) = IF a + 1 <= k THEN k - (a + 1) + 1 ELSE 0
        /\ \A i \in 1 .. k - (a + 1) + 1 : s[i] = c[a + 1 + i - 1]
    BY <2>1, <2>2, SubSeqProperties
  <2> HIDE DEF s
  <2>4. Len(s) = n
    BY <1>1, <2>3
  <2>5. \A i \in 1 .. n : i \in 1 .. k - (a + 1) + 1 /\ a + 1 + i - 1 = a + i
    BY <1>1
  <2>6. \A i \in 1 .. n : s[i] = c[a + i]
    BY <2>3, <2>5
  <2> QED BY <2>3, <2>4, <2>6 DEF s
<1>7. \A i \in 1 .. n : rest[i].pos = all[h + i]
  <2> TAKE i \in 1 .. n
  <2>1. PICK g \in 1 .. m + k : g = h + i /\ ~(g <= m) /\ g - m = a + i /\ a + i \in 1 .. k
    BY <1>1
  <2>2. all[g] = IF g <= m THEN b[g] ELSE p[g - m]
    BY <1>3, Zenon DEF IsBoth
  <2> QED BY <1>2, <1>6, <2>1, <2>2
<1>8. PICK q \in Seq(P) : q = Positions(rest) /\ Len(q) = n /\ \A i \in 1 .. n : q[i] = rest[i].pos
  BY <1>6, PositionsType DEF P
<1>9. PICK r \in Seq(P) : IsBoth(r, init, q, h, n)
  BY <1>5, <1>8, BothSequences, Zenon
<1>10. Len(r) = h + n
  BY <1>9 DEF IsBoth
<1>11. \A i \in 1 .. h + n : r[i] = all[i]
  <2> TAKE i \in 1 .. h + n
  <2>1. r[i] = IF i <= h THEN init[i] ELSE q[i - h]
    BY <1>9 DEF IsBoth
  <2>2. CASE i <= h
    <3>1. i \in 1 .. h
      BY <2>2
    <3> QED BY <1>5, <2>1, <2>2, <3>1
  <2>3. CASE ~(i <= h)
    <3>1. i - h \in 1 .. n /\ h + (i - h) = i
      BY <1>1, <2>3
    <3>2. q[i - h] = all[h + (i - h)]
      BY <1>7, <1>8, <3>1
    <3> QED BY <2>1, <2>3, <3>1, <3>2
  <2> QED BY <2>2, <2>3
<1>12. r = all
  BY <1>4, <1>10, <1>11, SeqEqual
<1>13. init \o Positions(rest) = all
  BY <1>8, <1>9, <1>12, Zenon DEF IsBoth
<1>14. IsInitCut(all, init, rest, h, n)
  BY <1>4, <1>5, <1>6, <1>7, <1>13, Zenon DEF IsInitCut, P
<1> QED BY <1>1, <1>4, <1>5, <1>6, <1>14, Zenon

\* The next bytes before the init is whole.
LEMMA InitStep ==
  ASSUME UpInv, NEW k \in 1 .. MaxChunk, NEW vals \in Inputs(k), tcp_recv_cb(vals), ~initParsed
  PROVE  UpInv'
<1>1. PICK chunk \in Seq(Byte) : /\ chunk = Chunk(vals) /\ Len(chunk) = k /\ Len(vals) = k
                                 /\ \A i \in 1 .. k : chunk[i].pos = received + i
  <2>1. received \in Nat /\ received + Len(vals) <= MaxBytes
    BY UpstreamAssumption DEF UpInv, TypeOK, tcp_recv_cb
  <2> QED BY <2>1, ChunkType
<1> DEFINE pos == Positions(chunk)
           all == initBuffer \o pos
           init == SubSeq(all, 1, handshakeLen)
           rest == SubSeq(chunk, handshakeLen - Len(initBuffer) + 1, Len(chunk))
<1>2. /\ pos \in Seq(1 .. MaxBytes) /\ Len(pos) = k
      /\ \A i \in 1 .. k : pos[i] = received + i
  BY <1>1, PositionsType
<1>3. /\ received + k <= MaxBytes /\ ~closed /\ k \in Nat \ {0}
      /\ received' = received + k /\ done' = done + FrameBytes
      /\ UNCHANGED <<proto, lost>> /\ handleData(chunk)
  BY <1>1 DEF tcp_recv_cb, handleData
<1>4. /\ TypeOK /\ InLine /\ protoTag = "none" /\ ~disabled /\ keystream = 0 /\ done = 0
      /\ cipherBuf = <<>> /\ plainBuf = <<>> /\ frames = <<>>
      /\ Waiting = initBuffer /\ FrameBytes = 0
  <2>1. /\ TypeOK /\ InLine /\ protoTag = "none" /\ ~disabled /\ keystream = 0 /\ done = 0
        /\ cipherBuf = <<>> /\ plainBuf = <<>> /\ frames = <<>>
    BY DEF UpInv, Phases
  <2>2. FrameBytes = 0
    BY <2>1, NoBytes DEF FrameBytes
  <2> QED BY <2>1, <2>2 DEF Waiting
<1>5. PICK m \in Nat : /\ m = Len(initBuffer) /\ initBuffer \in Seq(1 .. MaxBytes)
                       /\ m < handshakeLen /\ m <= received /\ (~lost => m = received)
  <2>1. initBuffer \in Seq(1 .. MaxBytes) /\ Len(initBuffer) < handshakeLen
    BY <1>4 DEF TypeOK
  <2>2. Len(initBuffer) \in Nat
    BY <2>1, LenProperties
  <2>3. IsLine(initBuffer, 0, received, ~lost /\ ~closed)
    <3>1. IsLine(Waiting, done + FrameBytes, received, ~lost /\ ~closed)
      BY <1>4, StreamStands
    <3> QED BY <1>4, <3>1
  <2>4. 0 + Len(initBuffer) <= received /\ (~lost => 0 + Len(initBuffer) = received)
    BY <1>3, <2>3 DEF IsLine
  <2> QED BY <2>1, <2>2, <2>4
<1>6. /\ received \in Nat /\ handshakeLen \in Nat \ {0} /\ MaxBytes \in Nat
      /\ received' \in 0 .. MaxBytes /\ done' \in 0 .. MaxBytes /\ done' = 0
      /\ all \in Seq(1 .. MaxBytes) /\ Len(all) = m + k
  <2>1. received \in Nat /\ handshakeLen \in Nat \ {0} /\ MaxBytes \in Nat
    BY <1>4, StreamStands, UpstreamAssumption
  <2>2. all \in Seq(1 .. MaxBytes) /\ Len(all) = Len(initBuffer) + Len(pos)
    BY <1>2, <1>5, ConcatProperties
  <2>3. received' \in 0 .. MaxBytes /\ done' \in 0 .. MaxBytes /\ done' = 0
    BY <1>3, <1>4, <2>1
  <2> QED BY <1>2, <1>5, <2>1, <2>2, <2>3
<1> HIDE DEF pos
<1>7. CASE /\ Len(all) < handshakeLen
           /\ initBuffer' = all
           /\ frames' = <<>>
           /\ UNCHANGED <<protoTag, initParsed, cipherBuf, plainBuf, disabled, keystream, closed>>
  <2>1. TypeOK'
    BY <1>3, <1>4, <1>6, <1>7, NoBytes DEF TypeOK
  <2>2. InLine'
    <3>1. Stream' = <<>> \o all
      BY <1>7, NoBytes DEF Stream, Waiting
    <3>2. Stream' = Waiting \o pos
      BY <1>4, <1>6, <3>1, ConcatEmptySeq
    <3>3. UNCHANGED <<lost, closed>>
      BY <1>3, <1>7
    <3> QED BY <1>2, <1>3, <1>4, <3>2, <3>3, LineAfter
  <2>3. Phases'
    BY <1>4, <1>6, <1>7 DEF Phases
  <2>4. InStep' /\ OnePacketAFrame' /\ NoPacketWaits'
    <3>1. DOMAIN <<>> = {} /\ 1 .. Len(<<>>) = {}
      OBVIOUS
    <3>2. InStep'
      BY <1>4, <1>7, <3>1 DEF InStep
    <3>3. OnePacketAFrame'
      BY <1>7, <3>1 DEF OnePacketAFrame
    <3>4. NoPacketWaits'
      BY <1>4, <1>7, <3>1 DEF NoPacketWaits
    <3> QED BY <3>2, <3>3, <3>4
  <2> QED BY <2>1, <2>2, <2>3, <2>4 DEF UpInv
<1>8. CASE /\ closed' = TRUE
           /\ initBuffer' = <<>> /\ frames' = <<>>
           /\ UNCHANGED <<protoTag, initParsed, cipherBuf, plainBuf, disabled, keystream>>
  <2>1. TypeOK'
    <3>1. <<>> \in Seq(1 .. MaxBytes) /\ Len(<<>>) < handshakeLen
      BY <1>6
    <3> QED BY <1>3, <1>4, <1>6, <1>8, <3>1, NoBytes DEF TypeOK
  <2>2. InLine'
    <3>1. Stream' = <<>> \o <<>>
      BY <1>8, NoBytes DEF Stream, Waiting
    <3>2. Stream' = <<>>
      BY <3>1
    <3>3. IsLine(<<>>, 0, received', FALSE)
      <4>1. Len(<<>>) = 0 /\ 1 .. 0 = {}
        OBVIOUS
      <4> QED BY <1>6, <4>1 DEF IsLine
    <3> QED BY <1>6, <1>8, <3>2, <3>3 DEF InLine
  <2>3. Phases'
    BY <1>4, <1>6, <1>8 DEF Phases
  <2>4. InStep' /\ OnePacketAFrame' /\ NoPacketWaits'
    <3>1. DOMAIN <<>> = {} /\ 1 .. Len(<<>>) = {}
      OBVIOUS
    <3>2. InStep'
      BY <1>4, <1>8, <3>1 DEF InStep
    <3>3. OnePacketAFrame'
      BY <1>8, <3>1 DEF OnePacketAFrame
    <3>4. NoPacketWaits'
      BY <1>4, <1>8, <3>1 DEF NoPacketWaits
    <3> QED BY <3>2, <3>3, <3>4
  <2> QED BY <2>1, <2>2, <2>3, <2>4 DEF UpInv
<1>9. CASE /\ Len(all) >= handshakeLen
           /\ \E tag \in ParseResults(init) \ {"none"}, plain \in Decrypted(rest) :
                protoTag' = tag /\ split(tag, <<InitFrame(init)>>, rest, plain)
           /\ initParsed' = TRUE
           /\ initBuffer' = <<>>
           /\ UNCHANGED closed
  <2>1. PICK n \in Nat : IsInitCut(all, init, rest, handshakeLen, n) /\ handshakeLen + n = m + k
    <3>1. PICK a \in Nat \ {0}, n \in Nat : /\ a = handshakeLen - m /\ m + a = handshakeLen
                                            /\ k = a + n /\ handshakeLen + n = m + k
      <4>1. handshakeLen <= m + k
        BY <1>6, <1>9
      <4>2. handshakeLen - m \in Nat \ {0} /\ k - (handshakeLen - m) \in Nat
        BY <1>3, <1>5, <1>6, <4>1
      <4>3. PICK a \in Nat \ {0}, n \in Nat : a = handshakeLen - m /\ n = k - a
        BY <4>2
      <4>4. m + a = handshakeLen /\ k = a + n /\ handshakeLen + n = m + k
        BY <1>3, <1>5, <1>6, <4>3
      <4> QED BY <4>3, <4>4, Zenon
    <3>2. IsInitCut(initBuffer \o Positions(chunk), SubSeq(initBuffer \o Positions(chunk), 1, m + a),
                    SubSeq(chunk, a + 1, a + n), m + a, n)
      BY <1>1, <1>5, <3>1, InitCut
    <3> QED BY <1>1, <1>5, <3>1, <3>2 DEF pos
  <2> HIDE DEF all, init, rest
  <2>2. /\ init \in Seq(1 .. MaxBytes) /\ Len(init) = handshakeLen
        /\ \A i \in 1 .. handshakeLen : init[i] = all[i]
        /\ rest \in Seq(Byte) /\ Len(rest) = n /\ \A i \in 1 .. n : rest[i].pos = all[handshakeLen + i]
        /\ init \o Positions(rest) = all
    BY <2>1 DEF IsInitCut
  <2>3. PICK tag \in Protos, plain \in Decrypted(rest) :
          protoTag' = tag /\ split(tag, <<InitFrame(init)>>, rest, plain)
    <3>1. ParseResults(init) \ {"none"} \subseteq Protos
      BY <1>4 DEF ParseResults, TypeOK, Protos
    <3> QED BY <1>9, <3>1
  <2>4. PICK pre \in Seq(Byte) : /\ pre = InitFrame(init) /\ Len(pre) = handshakeLen
                                 /\ Positions(pre) = init
                                 /\ \A i \in 1 .. handshakeLen : pre[i].pos = init[i]
    BY <2>2, InitFrameType
  <2>5. IsLine(all, 0, received + k, ~lost)
    <3>1. IsLine(Waiting \o pos, done + FrameBytes, received + k, ~lost /\ ~closed)
      <4>1. PICK from \in Nat, whole \in BOOLEAN, upto \in Nat, b \in Seq(1 .. MaxBytes) :
              /\ from = done + FrameBytes /\ whole = (~lost /\ ~closed) /\ upto = received /\ b = Waiting
              /\ IsLine(b, from, upto, whole)
        <5>1. done + FrameBytes \in Nat
          BY <1>4
        <5> QED BY <1>4, <5>1, StreamStands, Zenon
      <4>2. \A i \in 1 .. Len(pos) : pos[i] = upto + i
        BY <1>2, <4>1
      <4>3. IsLine(b \o pos, from, upto + Len(pos), whole)
        BY <1>2, <4>1, <4>2, LineMore, Zenon
      <4> QED BY <1>2, <4>1, <4>3, Zenon
    <3> QED BY <1>3, <1>4, <3>1 DEF all
  <2>6. ~lost => \A i \in 1 .. m + k : all[i] = i
    <3>1. ~lost => \A i \in 1 .. Len(all) : all[i] = 0 + i
      BY <2>5 DEF IsLine
    <3> QED BY <1>3, <1>6, <3>1 DEF all
  <2>7. ~lost /\ rest # <<>> => rest[1].pos = handshakeLen + keystream + 1
    <3> SUFFICES ASSUME ~lost, rest # <<>> PROVE rest[1].pos = handshakeLen + keystream + 1
      OBVIOUS
    <3>1. 1 \in 1 .. n /\ handshakeLen + 1 \in 1 .. m + k
      <4>1. n # 0
        BY <2>2, EmptySeq
      <4> QED BY <1>6, <2>1, <4>1
    <3>2. rest[1].pos = handshakeLen + 1
      BY <2>2, <2>6, <3>1
    <3> QED BY <1>4, <1>6, <3>2
  <2>8. HasSplit(tag, <<pre>>, pre, rest, n, ~lost)
    <3>1. Before(<<pre>>, pre)
      BY DEF Before
    <3>2. ~lost => \A i \in 1 .. Len(cipherBuf) : plainBuf[i] = cipherBuf[i].val
      <4>1. 1 .. Len(<<>>) = {}
        OBVIOUS
      <4> QED BY <1>4, <4>1
    <3>3. (~lost) \in BOOLEAN
      OBVIOUS
    <3>4. HasSplit(tag, <<pre>>, pre, cipherBuf \o rest, Len(rest), ~lost)
      BY <1>4, <2>2, <2>3, <2>4, <2>7, <3>1, <3>2, <3>3, Splits
    <3>5. cipherBuf \o rest = rest
      BY <1>4, <2>2, ConcatEmptySeq
    <3> QED BY <2>2, <3>4, <3>5
  <2>9. TypeOK'
    <3>1. /\ proto' \in Protos \cup {"other"} /\ protoTag' \in Protos \cup {"none"}
          /\ lost' \in BOOLEAN /\ initParsed' \in BOOLEAN /\ closed' \in BOOLEAN
      BY <1>3, <1>4, <1>9, <2>3 DEF TypeOK
    <3>2. initBuffer' \in Seq(1 .. MaxBytes) /\ Len(initBuffer') < handshakeLen
      <4>1. <<>> \in Seq(1 .. MaxBytes) /\ Len(<<>>) < handshakeLen
        BY <1>6
      <4> QED BY <1>9, <4>1
    <3>3. keystream' \in 0 .. MaxBytes
      BY <1>3, <1>4, <1>5, <1>6, <2>1, <2>8 DEF HasSplit
    <3> QED BY <1>6, <2>8, <3>1, <3>2, <3>3 DEF TypeOK, HasSplit
  <2>10. InLine'
    <3>1. FlattenSeq(frames') \in Seq(Byte) /\ cipherBuf' \in Seq(Byte)
      BY <2>8, FlattenType DEF HasSplit
    <3>2. Stream' = Positions(FlattenSeq(frames')) \o Positions(cipherBuf')
      BY <1>9 DEF Stream, Waiting
    <3>3. Positions(FlattenSeq(frames')) \o Positions(cipherBuf') = Positions(pre \o rest)
      <4>1. FlattenSeq(frames') \o cipherBuf' = pre \o rest
        BY <2>8 DEF HasSplit
      <4> QED BY <3>1, <4>1, PositionsOfBoth
    <3>4. Positions(pre \o rest) = all
      BY <2>2, <2>4, PositionsOfBoth
    <3>5. Stream' = Waiting \o pos
      BY <1>4, <3>2, <3>3, <3>4 DEF all
    <3>6. UNCHANGED <<lost, closed>>
      BY <1>3, <1>9
    <3> QED BY <1>2, <1>3, <1>4, <3>5, <3>6, LineAfter
  <2>11. Phases'
    <3>1. keystream' = n
      BY <1>4, <2>8 DEF HasSplit
    <3>2. keystream' <= received' /\ (~lost => handshakeLen + keystream' = received')
      <4>1. PICK h \in Nat, r \in Nat : h = handshakeLen /\ r = received
        BY <1>6
      <4>2. h + n = m + k /\ m <= r /\ (~lost => m = r)
        BY <1>5, <2>1, <4>1
      <4>3. n <= r + k /\ (~lost => h + n = r + k)
        BY <1>3, <4>2
      <4> QED BY <1>3, <3>1, <4>1, <4>3
    <3>3. FrameBytes' \in Nat /\ FrameBytes' >= handshakeLen
      BY <2>4, <2>8, FlattenType DEF HasSplit, FrameBytes
    <3>4. done' + FrameBytes' >= handshakeLen
      <4>1. PICK b \in Nat : b = FrameBytes' /\ b >= handshakeLen
        BY <3>3
      <4>2. done' + b = b
        <5>1. \A i \in Nat : 0 + i = i
          OBVIOUS
        <5>2. 0 + b = b
          BY <5>1
        <5> QED BY <1>6, <5>2
      <4> QED BY <4>1, <4>2
    <3> QED BY <1>3, <1>9, <2>3, <3>2, <3>4 DEF Phases
  <2>12. InStep'
    BY <1>3, <2>8 DEF InStep, HasSplit
  <2>13. OnePacketAFrame'
    <3> SUFFICES ASSUME ~lost, ~disabled', NEW i \in DOMAIN frames'
                 PROVE  IF frames'[i][1].pos = 1 THEN Len(frames'[i]) = handshakeLen
                        ELSE IsPacket(protoTag', frames'[i])
      BY <1>3 DEF OnePacketAFrame
    <3>1. CASE frames'[i] = pre
      <4>1. 1 \in 1 .. handshakeLen /\ 1 \in 1 .. m + k
        BY <1>3, <1>6
      <4>2. pre[1].pos = 1
        BY <2>2, <2>4, <2>6, <4>1
      <4> QED BY <2>4, <3>1, <4>2
    <3>2. CASE IsPacket(tag, frames'[i]) /\ \E q \in 1 .. Len(rest) : frames'[i][1] = rest[q]
      <4>1. PICK q \in 1 .. n : frames'[i][1] = rest[q]
        BY <2>2, <3>2
      <4>2. handshakeLen + q \in 1 .. m + k
        BY <1>6, <2>1
      <4>3. rest[q].pos = handshakeLen + q
        BY <2>2, <2>6, <4>2
      <4>4. frames'[i][1].pos # 1
        BY <1>6, <4>1, <4>3
      <4> QED BY <2>3, <3>2, <4>4
    <3> QED BY <2>8, <3>1, <3>2 DEF HasSplit
  <2>14. NoPacketWaits'
    <3>1. ~lost' => \A j \in 1 .. Len(cipherBuf') : ~IsPacket(protoTag', SubSeq(cipherBuf', 1, j))
      BY <1>3, <2>3, <2>8 DEF HasSplit
    <3> QED BY <2>8, <3>1 DEF NoPacketWaits, HasSplit
  <2> QED BY <2>9, <2>10, <2>11, <2>12, <2>13, <2>14 DEF UpInv
<1>10. \/ /\ Len(all) < handshakeLen
          /\ initBuffer' = all
          /\ frames' = <<>>
          /\ UNCHANGED <<protoTag, initParsed, cipherBuf, plainBuf, disabled, keystream, closed>>
       \/ /\ closed' = TRUE
          /\ initBuffer' = <<>> /\ frames' = <<>>
          /\ UNCHANGED <<protoTag, initParsed, cipherBuf, plainBuf, disabled, keystream>>
       \/ /\ Len(all) >= handshakeLen
          /\ \E tag \in ParseResults(init) \ {"none"}, plain \in Decrypted(rest) :
               protoTag' = tag /\ split(tag, <<InitFrame(init)>>, rest, plain)
          /\ initParsed' = TRUE
          /\ initBuffer' = <<>>
          /\ UNCHANGED closed
  BY <1>3, Zenon DEF handleData, pos
<1> QED BY <1>7, <1>8, <1>9, <1>10

-----------------------------------------------------------------------------
(* What follows *)

\* At the start nothing has come.
LEMMA UpInit == Init => UpInv
<1> SUFFICES ASSUME Init PROVE UpInv
  OBVIOUS
<1>1. /\ MaxBytes \in Nat /\ handshakeLen \in Nat \ {0}
      /\ <<>> \in Seq(1 .. MaxBytes) /\ <<>> \in Seq(Byte) /\ <<>> \in Seq(Values)
      /\ Len(<<>>) = 0 /\ 1 .. 0 = {} /\ DOMAIN <<>> = {}
  BY UpstreamAssumption
<1>2. TypeOK
  <2>1. 0 \in 0 .. MaxBytes /\ 0 < handshakeLen
    BY <1>1
  <2>2. frames \in Seq(Seq(Byte))
    BY NoBytes DEF Init
  <2> QED BY <1>1, <2>1, <2>2 DEF Init, TypeOK
<1>3. InLine
  <2>1. Stream = <<>> \o <<>>
    BY NoBytes DEF Init, Stream, Waiting
  <2>2. Stream = <<>>
    BY <2>1
  <2>3. IsLine(<<>>, 0, 0, TRUE)
    BY <1>1 DEF IsLine
  <2> QED BY <2>2, <2>3 DEF Init, InLine
<1>4. Phases /\ InStep
  BY <1>1 DEF Init, Phases, InStep
<1>5. OnePacketAFrame /\ NoPacketWaits
  BY <1>1 DEF Init, OnePacketAFrame, NoPacketWaits
<1> QED BY <1>2, <1>3, <1>4, <1>5 DEF UpInv

\* A step that changes nothing.
LEMMA UpStutters ==
  ASSUME UpInv, UNCHANGED vars
  PROVE  UpInv'
<1>1. /\ UNCHANGED <<proto, protoTag, received, lost, initBuffer, initParsed, keystream>>
      /\ UNCHANGED <<cipherBuf, plainBuf, disabled, frames, done, closed>>
  BY DEF vars
<1>2. TypeOK' /\ NoPacketWaits' /\ OnePacketAFrame' /\ InStep'
  BY <1>1 DEF UpInv, TypeOK, NoPacketWaits, OnePacketAFrame, InStep
<1>3. InLine' /\ Phases'
  BY <1>1 DEF UpInv, InLine, Stream, Waiting, Phases, FrameBytes
<1> QED BY <1>2, <1>3 DEF UpInv

\* Every step keeps the invariant.
LEMMA UpNext == UpInv /\ [Next]_vars => UpInv'
<1> SUFFICES ASSUME UpInv, [Next]_vars PROVE UpInv'
  OBVIOUS
<1>1. ASSUME NEW k \in 1 .. MaxChunk, NEW vals \in Inputs(k), tcp_recv_cb(vals)
      PROVE  UpInv'
  <2>1. CASE ~initParsed
    BY <1>1, <2>1, InitStep
  <2>2. CASE initParsed /\ ~disabled
    BY <1>1, <2>2, ParsedStep
  <2>3. CASE initParsed /\ disabled
    BY <1>1, <2>3, EndedStep
  <2> QED BY <2>1, <2>2, <2>3
<1>2. ASSUME NEW k \in 1 .. MaxChunk, tcp_recv_cb_NoMem(k)
      PROVE  UpInv'
  BY <1>2, NoMemStep
<1>3. CASE UNCHANGED vars
  BY <1>3, UpStutters
<1> QED BY <1>1, <1>2, <1>3 DEF Next

\* A stream that stands in line is the client's.
LEMMA LineKept ==
  ASSUME TypeOK, InLine
  PROVE  StreamKept
<1>1. FlattenSeq(frames) \in Seq(Byte) /\ done \in Nat /\ received \in Nat
  BY StreamStands
<1>2. PICK p \in Seq(1 .. MaxBytes) :
        /\ p = Stream /\ p = Positions(FlattenSeq(frames)) \o Waiting
        /\ IsLine(p, done, received, ~lost /\ ~closed)
  <2>1. Positions(FlattenSeq(frames)) \in Seq(1 .. MaxBytes) /\ Waiting \in Seq(1 .. MaxBytes)
    BY <1>1, StreamStands, PositionsType
  <2>2. Stream \in Seq(1 .. MaxBytes)
    BY <2>1, ConcatProperties DEF Stream
  <2> QED BY <2>2 DEF InLine, Stream
<1>3. Len(p) \in Nat /\ DOMAIN p = 1 .. Len(p)
  BY <1>2
<1>4. \A i, j \in DOMAIN p : i < j => p[i] < p[j]
  BY <1>2, <1>3 DEF IsLine
<1>5. ~lost /\ ~closed => p = [i \in 1 .. received - done |-> done + i]
  <2> SUFFICES ASSUME ~lost, ~closed PROVE p = [i \in 1 .. received - done |-> done + i]
    OBVIOUS
  <2>1. done + Len(p) = received /\ \A i \in 1 .. Len(p) : p[i] = done + i
    BY <1>2 DEF IsLine
  <2>2. 1 .. Len(p) = 1 .. received - done
    BY <1>1, <1>3, <2>1
  <2>3. p = [i \in 1 .. Len(p) |-> p[i]]
    <3> DEFINE S == 1 .. MaxBytes
    <3>1. p \in Seq(S)
      OBVIOUS
    <3> HIDE DEF S
    <3> QED BY <3>1
  <2> QED BY <2>1, <2>2, <2>3
<1> QED BY <1>2, <1>4, <1>5 DEF StreamKept, Waiting

\* The invariant holds always.
LEMMA UpInvHolds == Spec => []UpInv
<1> QED BY UpInit, UpNext, PTL DEF Spec

\* Every variable keeps its type; the buffered init never reaches its full length.
THEOREM UpstreamTypes == Spec => []TypeOK
<1>1. UpInv => TypeOK
  BY DEF UpInv
<1> QED BY <1>1, UpInvHolds, PTL

\* No byte between lwIP and the WebSocket is dropped, repeated or moved by the
\* buffering of the init and by the splitter, for a stream of any length.
THEOREM UpstreamKeepsStream == Spec => []StreamKept
<1>1. UpInv => StreamKept
  BY LineKept DEF UpInv
<1> QED BY <1>1, UpInvHolds, PTL

\* However TCP cuts the stream, the init and every packet go out in a frame each,
\* until a zero length ends the splitting.
THEOREM UpstreamFramesPackets == Spec => []OnePacketAFrame
<1>1. UpInv => OnePacketAFrame
  BY DEF UpInv
<1> QED BY <1>1, UpInvHolds, PTL

\* What the splitter holds back never contains a whole packet.
THEOREM UpstreamHoldsNoPacket == Spec => []NoPacketWaits
<1>1. UpInv => NoPacketWaits
  BY DEF UpInv
<1> QED BY <1>1, UpInvHolds, PTL

-----------------------------------------------------------------------------
(* Splitting a chunk at a time *)

\* The end and the flag that the loop of split finds at offset o, where the length is k.
FindsAt(plain, ends, stops, o, k) ==
  /\ ends[o] \in Seq(Nat) /\ stops[o] \in BOOLEAN
  /\ k = nil => ends[o] = <<>> /\ ~stops[o]
  /\ k = 0 => ends[o] = <<Len(plain)>> /\ stops[o]
  /\ k \in Nat \ {0} => ends[o] = <<o + k>> \o ends[o + k] /\ stops[o] = stops[o + k]

\* The ends and the flags from every offset on.
Finds(tag, plain, ends, stops) ==
  /\ Cuts(tag, plain).ends = ends[0] /\ Cuts(tag, plain).disabled = stops[0]
  /\ \A o \in 0 .. Len(plain) : FindsAt(plain, ends, stops, o, LenAt(tag, plain, o))

\* The loop of split has such findings.
LEMMA FindsExist ==
  ASSUME NEW tag \in Protos, NEW plain \in Seq(Values)
  PROVE  \E ends, stops : Finds(tag, plain, ends, stops)
<1> DEFINE n == Len(plain)
           len(o) == LenAt(tag, plain, o)
<1>1. PICK f :
        /\ Cuts(tag, plain) = f[0]
        /\ \A o \in 0 .. n :
             /\ CutFrom(tag, plain, o, f[o])
             /\ f[o] = CASE len(o) = nil -> [ends |-> <<>>, disabled |-> FALSE]
                         [] len(o) = 0 -> [ends |-> <<n>>, disabled |-> TRUE]
                         [] OTHER -> [f[o + len(o)] EXCEPT !.ends = <<o + len(o)>> \o @]
  BY CutsEverywhere, Zenon
<1> DEFINE E == [o \in 0 .. n |-> f[o].ends]
           D == [o \in 0 .. n |-> f[o].disabled]
<1>2. n \in Nat /\ 0 \in 0 .. n
  OBVIOUS
<1>3. ASSUME NEW o \in 0 .. n
      PROVE  f[o] \in [ends : Seq(0 .. n), disabled : BOOLEAN] /\ f[o].ends \in Seq(Nat)
  <2>1. f[o] \in [ends : Seq(0 .. n), disabled : BOOLEAN]
    BY <1>1 DEF CutFrom
  <2> QED BY <2>1
<1>4. ASSUME NEW o \in 0 .. n
      PROVE  /\ E[o] \in Seq(Nat) /\ D[o] \in BOOLEAN
             /\ len(o) = nil => E[o] = <<>> /\ ~D[o]
             /\ len(o) = 0 => E[o] = <<n>> /\ D[o]
             /\ len(o) \in Nat \ {0} =>
                  E[o] = <<o + len(o)>> \o E[o + len(o)] /\ D[o] = D[o + len(o)]
  <2>0. PICK k \in {nil, 0} \cup 1 .. n - o : k = len(o)
    BY LenAtType
  <2>1. /\ E[o] = f[o].ends /\ D[o] = f[o].disabled
        /\ E[o] \in Seq(Nat) /\ D[o] \in BOOLEAN
    BY <1>3
  <2>2. f[o] = CASE k = nil -> [ends |-> <<>>, disabled |-> FALSE]
                 [] k = 0 -> [ends |-> <<n>>, disabled |-> TRUE]
                 [] OTHER -> [f[o + k] EXCEPT !.ends = <<o + k>> \o @]
    BY <1>1, <2>0, Zenon
  <2>3. (k = nil => k \notin Nat) /\ (k = 0 => k # nil)
        /\ (k \in Nat \ {0} => k # nil /\ k # 0 /\ o + k \in 0 .. n)
    BY <1>2, <2>0 DEF nil
  <2>4. CASE k = nil
    <3>1. f[o] = [ends |-> <<>>, disabled |-> FALSE]
      BY <2>2, <2>4 DEF nil
    <3>2. f[o].ends = <<>> /\ ~f[o].disabled
      BY <3>1
    <3>3. E[o] = <<>> /\ ~D[o]
      BY <2>1, <3>2, Zenon
    <3>4. k # 0 /\ k \notin Nat \ {0}
      BY <2>4 DEF nil
    <3> HIDE DEF E, D, len
    <3> QED BY <2>0, <2>1, <3>3, <3>4, Zenon
  <2>5. CASE k = 0
    <3>1. f[o] = [ends |-> <<n>>, disabled |-> TRUE]
      BY <2>2, <2>5 DEF nil
    <3>2. f[o].ends = <<n>> /\ f[o].disabled
      BY <3>1
    <3>3. E[o] = <<n>> /\ D[o]
      BY <2>1, <3>2, Zenon
    <3>4. k # nil /\ k \notin Nat \ {0}
      BY <2>5 DEF nil
    <3> HIDE DEF E, D, len
    <3> QED BY <2>0, <2>1, <3>3, <3>4, Zenon
  <2>6. CASE k \in Nat \ {0}
    <3>1. PICK next \in 0 .. n : next = o + k
      BY <2>3, <2>6
    <3>2. f[o] = [f[next] EXCEPT !.ends = <<next>> \o @]
      BY <2>2, <2>3, <2>6, <3>1, Zenon
    <3>3. f[next] \in [ends : Seq(0 .. n), disabled : BOOLEAN] /\ <<next>> \in Seq(0 .. n)
      BY <1>3, OneElement
    <3>4. f[o] = [ends |-> <<next>> \o f[next].ends, disabled |-> f[next].disabled]
      BY <3>2, <3>3, AddCut, Zenon
    <3>5. f[o].ends = <<next>> \o f[next].ends /\ f[o].disabled = f[next].disabled
      BY <3>4
    <3>6. E[next] = f[next].ends /\ D[next] = f[next].disabled
      OBVIOUS
    <3>7. E[o] = <<next>> \o E[next] /\ D[o] = D[next]
      BY <2>1, <3>5, <3>6, Zenon
    <3> HIDE DEF E, D, len
    <3> QED BY <2>0, <2>1, <2>3, <2>6, <3>1, <3>7, Zenon
  <2>7. k = nil \/ k = 0 \/ k \in Nat \ {0}
    BY <1>2, <2>0
  <2> HIDE DEF E, D, len
  <2> QED BY <2>4, <2>5, <2>6, <2>7, Zenon
<1>5. Cuts(tag, plain).ends = E[0] /\ Cuts(tag, plain).disabled = D[0]
  BY <1>1, <1>2
<1>6. Finds(tag, plain, E, D)
  <2> HIDE DEF E, D
  <2>1. \A o \in 0 .. n : FindsAt(plain, E, D, o, len(o))
    BY <1>4, Zenon DEF FindsAt
  <2> QED BY <1>5, <2>1, Zenon DEF Finds
<1> QED BY <1>6

\* Ends, counted from an earlier byte.
Shift(ends, s) == [i \in DOMAIN ends |-> ends[i] + s]

\* Shifting keeps the number of ends and adds to each.
LEMMA ShiftType ==
  ASSUME NEW e \in Seq(Nat), NEW s \in Nat
  PROVE  /\ Shift(e, s) \in Seq(Nat) /\ Len(Shift(e, s)) = Len(e)
         /\ \A i \in 1 .. Len(e) : Shift(e, s)[i] = e[i] + s
<1>1. DOMAIN e = 1 .. Len(e) /\ Len(e) \in Nat
  OBVIOUS
<1>2. Shift(e, s) = [i \in 1 .. Len(e) |-> e[i] + s]
  BY <1>1, Zenon DEF Shift
<1>3. \A i \in 1 .. Len(e) : e[i] + s \in Nat
  OBVIOUS
<1> QED BY <1>1, <1>2, <1>3

\* Shifting goes into a list with one end in front.
LEMMA ShiftMore ==
  ASSUME NEW e \in Seq(Nat), NEW s \in Nat, NEW x \in Nat
  PROVE  Shift(<<x>> \o e, s) = <<x + s>> \o Shift(e, s)
<1> DEFINE l == <<x>> \o e
           r == <<x + s>> \o Shift(e, s)
<1>1. Shift(e, s) \in Seq(Nat) /\ Len(Shift(e, s)) = Len(e)
      /\ \A i \in 1 .. Len(e) : Shift(e, s)[i] = e[i] + s
  BY ShiftType
<1>2. PICK a \in Seq(Nat) : a = <<x>> /\ Len(a) = 1 /\ a[1] = x
  BY OneElement
<1>3. PICK b \in Seq(Nat) : b = <<x + s>> /\ Len(b) = 1 /\ b[1] = x + s
  <2>1. PICK y \in Nat : y = x + s
    OBVIOUS
  <2> QED BY <2>1, OneElement
<1>4. /\ l \in Seq(Nat) /\ Len(l) = 1 + Len(e)
      /\ \A i \in 1 .. 1 + Len(e) : l[i] = IF i <= 1 THEN a[i] ELSE e[i - 1]
  BY <1>2, ConcatProperties
<1>5. /\ r \in Seq(Nat) /\ Len(r) = 1 + Len(e)
      /\ \A i \in 1 .. 1 + Len(e) : r[i] = IF i <= 1 THEN b[i] ELSE Shift(e, s)[i - 1]
  BY <1>1, <1>3, ConcatProperties
<1> HIDE DEF l, r
<1>6. /\ Shift(l, s) \in Seq(Nat) /\ Len(Shift(l, s)) = Len(l)
      /\ \A i \in 1 .. Len(l) : Shift(l, s)[i] = l[i] + s
  BY <1>4, ShiftType
<1>7. ASSUME NEW i \in 1 .. Len(l) PROVE Shift(l, s)[i] = r[i]
  <2>1. i \in 1 .. 1 + Len(e) /\ Shift(l, s)[i] = l[i] + s
    BY <1>4, <1>6
  <2>2. CASE i = 1
    BY <1>2, <1>3, <1>4, <1>5, <2>1, <2>2
  <2>3. CASE i # 1
    <3>1. i - 1 \in 1 .. Len(e) /\ ~(i <= 1)
      BY <1>4, <2>3
    <3>2. l[i] = e[i - 1] /\ r[i] = Shift(e, s)[i - 1]
      BY <1>4, <1>5, <2>1, <3>1
    <3> QED BY <1>1, <2>1, <3>1, <3>2
  <2> QED BY <2>2, <2>3
<1>8. Shift(l, s) = r
  BY <1>4, <1>5, <1>6, <1>7, SeqEqual
<1> QED BY <1>8 DEF l, r

\* What is left of what is left.
LEMMA LeftOfLeft ==
  ASSUME NEW p \in Seq(Values), NEW s \in 0 .. Len(p), NEW j \in 0 .. Len(p) - s
  PROVE  Left(Left(p, s), j) = Left(p, s + j)
<1>1. PICK q \in Seq(Values) : /\ q = Left(p, s) /\ Len(q) = Len(p) - s
                              /\ \A i \in 1 .. Len(p) - s : q[i] = p[s + i]
  BY LeftType
<1>2. j \in 0 .. Len(q) /\ s + j \in 0 .. Len(p) /\ Len(p) \in Nat
  BY <1>1
<1>3. PICK v \in Seq(Values) : /\ v = Left(q, j) /\ Len(v) = Len(q) - j
                              /\ \A i \in 1 .. Len(q) - j : v[i] = q[j + i]
  BY <1>2, LeftType
<1>4. PICK w \in Seq(Values) : /\ w = Left(p, s + j) /\ Len(w) = Len(p) - (s + j)
                              /\ \A i \in 1 .. Len(p) - (s + j) : w[i] = p[s + j + i]
  BY <1>2, LeftType
<1>5. Len(v) = Len(w)
  <2>1. Len(v) = Len(q) - j /\ Len(q) = Len(p) - s /\ Len(w) = Len(p) - (s + j)
    BY <1>1, <1>3, <1>4, Zenon
  <2> QED BY <1>2, <2>1
<1>6. ASSUME NEW i \in 1 .. Len(v) PROVE v[i] = w[i]
  <2>1. /\ i \in 1 .. Len(q) - j /\ j + i \in 1 .. Len(p) - s
        /\ i \in 1 .. Len(p) - (s + j) /\ s + (j + i) = s + j + i
    BY <1>1, <1>2, <1>3
  <2>2. v[i] = q[j + i] /\ q[j + i] = p[s + (j + i)] /\ w[i] = p[s + j + i]
    BY <1>1, <1>3, <1>4, <2>1
  <2> QED BY <2>1, <2>2
<1> QED BY <1>1, <1>3, <1>4, <1>5, <1>6, SeqEqual

\* The bytes of a concatenation.
LEMMA Joined ==
  ASSUME NEW a \in Seq(Values), NEW b \in Seq(Values)
  PROVE  \E p \in Seq(Values) :
           /\ p = a \o b /\ Len(p) = Len(a) + Len(b)
           /\ \A i \in 1 .. Len(a) + Len(b) : p[i] = IF i <= Len(a) THEN a[i] ELSE b[i - Len(a)]
<1> DEFINE p == a \o b
<1>1. /\ p \in Seq(Values) /\ Len(p) = Len(a) + Len(b)
      /\ \A i \in 1 .. Len(a) + Len(b) : p[i] = IF i <= Len(a) THEN a[i] ELSE b[i - Len(a)]
  BY ConcatProperties
<1> HIDE DEF p
<1> QED BY <1>1, Zenon DEF p

\* More bytes are more bytes that are left.
LEMMA LeftOfMore ==
  ASSUME NEW a \in Seq(Values), NEW b \in Seq(Values), NEW s \in 0 .. Len(a)
  PROVE  Left(a, s) \o b = Left(a \o b, s)
<1>1. PICK p \in Seq(Values) : /\ p = a \o b /\ Len(p) = Len(a) + Len(b)
                              /\ \A i \in 1 .. Len(a) + Len(b) :
                                   p[i] = IF i <= Len(a) THEN a[i] ELSE b[i - Len(a)]
  BY Joined, Zenon
<1>2. PICK v \in Seq(Values) : /\ v = Left(a, s) /\ Len(v) = Len(a) - s
                              /\ \A i \in 1 .. Len(a) - s : v[i] = a[s + i]
  BY LeftType
<1>3. PICK l \in Seq(Values) : /\ l = v \o b /\ Len(l) = Len(v) + Len(b)
                              /\ \A i \in 1 .. Len(v) + Len(b) :
                                   l[i] = IF i <= Len(v) THEN v[i] ELSE b[i - Len(v)]
  BY Joined, Zenon
<1>4. Len(a) \in Nat /\ Len(b) \in Nat /\ s \in 0 .. Len(p)
  BY <1>1
<1>5. PICK r \in Seq(Values) : /\ r = Left(p, s) /\ Len(r) = Len(p) - s
                              /\ \A i \in 1 .. Len(p) - s : r[i] = p[s + i]
  BY <1>4, LeftType
<1>6. Len(l) = Len(r)
  BY <1>1, <1>2, <1>3, <1>4, <1>5
<1>7. ASSUME NEW i \in 1 .. Len(l) PROVE l[i] = r[i]
  <2>1. /\ i \in 1 .. Len(v) + Len(b) /\ i \in 1 .. Len(p) - s
        /\ s + i \in 1 .. Len(a) + Len(b)
    BY <1>1, <1>2, <1>3, <1>4
  <2>2. CASE i <= Len(v)
    <3>1. i \in 1 .. Len(a) - s /\ s + i <= Len(a)
      BY <1>2, <1>4, <2>1, <2>2
    <3> QED BY <1>1, <1>2, <1>3, <1>5, <2>1, <2>2, <3>1
  <2>3. CASE ~(i <= Len(v))
    <3>1. ~(s + i <= Len(a)) /\ i - Len(v) = s + i - Len(a)
      BY <1>2, <1>4, <2>1, <2>3
    <3>2. l[i] = b[i - Len(v)] /\ r[i] = b[s + i - Len(a)]
      BY <1>1, <1>3, <1>5, <2>1, <2>3, <3>1
    <3> QED BY <3>1, <3>2
  <2> QED BY <2>2, <2>3
<1>8. l = r
  BY <1>6, <1>7, SeqEqual
<1> QED BY <1>1, <1>2, <1>3, <1>5, <1>8

\* A packet that is all there is the same packet whatever follows it.
LEMMA PacketStays ==
  ASSUME NEW tag \in Protos, NEW a \in Seq(Values), NEW b \in Seq(Values),
         NEW s \in 0 .. Len(a), NEW k \in Nat \ {0}, s < Len(a),
         nextPacketLen(tag, Left(a, s)) = k
  PROVE  LenAt(tag, a \o b, s) = k
<1>1. PICK v \in Seq(Values) : v = Left(a, s) /\ Len(v) = Len(a) - s /\ v # <<>>
  BY LeftType
<1>2. PICK w \in Seq(Values) :
        /\ w = v \o b /\ Len(w) = Len(v) + Len(b)
        /\ \A i \in 1 .. Len(v) + Len(b) : w[i] = IF i <= Len(v) THEN v[i] ELSE b[i - Len(v)]
  BY Joined, Zenon
<1>3. Len(v) \in Nat /\ Len(b) \in Nat /\ Len(v) <= Len(w) /\ w # <<>>
  BY <1>1, <1>2
<1>4. \A i \in 1 .. Len(v) : w[i] = v[i]
  BY <1>2, <1>3
<1>5. Left(a \o b, s) = w
  BY <1>1, <1>2, LeftOfMore
<1>6. k \in 1 .. Len(v) /\ nextPacketLen(tag, v) = k
  <2>1. nextPacketLen(tag, v) \in {nil, 0} \cup 1 .. Len(v) /\ nextPacketLen(tag, v) = k
    BY <1>1, NextPacketLenType, Zenon
  <2> QED BY <2>1 DEF nil
<1>7. PICK h \in Nat \ {0}, n \in Nat :
        h = HeaderLen(tag, v) /\ n = PayloadLen(tag, v) /\ n > 0 /\ k = h + n
  <2>1. Len(v) >= HeaderLen(tag, v) /\ PayloadLen(tag, v) > 0 /\ k = HeaderLen(tag, v) + PayloadLen(tag, v)
    BY <1>1, <1>6, NextPacketLenType
  <2>2. HeaderLen(tag, v) \in Nat \ {0} /\ PayloadLen(tag, v) \in Nat
    BY <1>1, <2>1, HeaderType
  <2> QED BY <2>1, <2>2
<1>8. HeaderLen(tag, w) = h /\ PayloadLen(tag, w) = n
  <2>1. Len(v) >= HeaderLen(tag, v)
    BY <1>1, <1>6, NextPacketLenType
  <2> QED BY <1>1, <1>3, <1>4, <1>7, <2>1, HeaderSame
<1>9. nextPacketLen(tag, w) = IF Len(w) < h THEN nil ELSE Whole(w, h, n)
  BY <1>3, <1>8, NextPacketLenIs
<1>10. ~(Len(w) < h) /\ ~(n <= 0) /\ ~(Len(w) < h + n)
  BY <1>2, <1>3, <1>6, <1>7
<1>11. nextPacketLen(tag, w) = k
  BY <1>7, <1>9, <1>10 DEF Whole
<1> QED BY <1>3, <1>5, <1>11 DEF LenAt

\* From byte s on the loop finds what it finds in the bytes from there, s further on.
LEMMA CutsShifted ==
  ASSUME NEW tag \in Protos, NEW p \in Seq(Values), NEW s \in 0 .. Len(p),
         NEW q \in Seq(Values), q = Left(p, s), NEW E, NEW D, Finds(tag, p, E, D),
         NEW F, NEW G, Finds(tag, q, F, G)
  PROVE  E[s] = Shift(F[0], s) /\ D[s] = G[0]
<1>1. PICK n \in Nat : n = Len(q) /\ n = Len(p) - s /\ s + n = Len(p) /\ s \in Nat
  BY LeftType
<1> DEFINE Good(j) == E[s + j] = Shift(F[j], s) /\ D[s + j] = G[j]
           P == {m \in 0 .. n : \A j \in n - m .. n : Good(j)}
<1>2. ASSUME NEW j \in 0 .. n, \A i \in j + 1 .. n : Good(i)
      PROVE  Good(j)
  <2>1. s + j \in 0 .. Len(p) /\ j \in 0 .. Len(q) /\ j \in 0 .. Len(p) - s
    BY <1>1
  <2>2. LenAt(tag, p, s + j) = LenAt(tag, q, j)
    BY <2>1, LeftOfLeft, Zenon DEF LenAt
  <2>3. PICK k \in {nil, 0} \cup 1 .. n - j : k = LenAt(tag, q, j)
    BY <1>1, <2>1, LenAtType
  <2>4. /\ E[s + j] \in Seq(Nat) /\ D[s + j] \in BOOLEAN
        /\ k = nil => E[s + j] = <<>> /\ ~D[s + j]
        /\ k = 0 => E[s + j] = <<Len(p)>> /\ D[s + j]
        /\ k \in Nat \ {0} =>
             E[s + j] = <<s + j + k>> \o E[s + j + k] /\ D[s + j] = D[s + j + k]
    <3>1. FindsAt(p, E, D, s + j, k)
      BY <2>1, <2>2, <2>3, Zenon DEF Finds
    <3> QED BY <3>1, Zenon DEF FindsAt
  <2>5. /\ F[j] \in Seq(Nat) /\ G[j] \in BOOLEAN
        /\ k = nil => F[j] = <<>> /\ ~G[j]
        /\ k = 0 => F[j] = <<Len(q)>> /\ G[j]
        /\ k \in Nat \ {0} => F[j] = <<j + k>> \o F[j + k] /\ G[j] = G[j + k]
    <3>1. FindsAt(q, F, G, j, k)
      BY <2>1, <2>3, Zenon DEF Finds
    <3> QED BY <3>1, Zenon DEF FindsAt
  <2>6. CASE k = nil
    <3>1. Shift(<<>>, s) = <<>>
      <4>1. <<>> \in Seq(Nat) /\ Len(<<>>) = 0 /\ s \in Nat
        OBVIOUS
      <4>2. Shift(<<>>, s) \in Seq(Nat) /\ Len(Shift(<<>>, s)) = 0
        BY <4>1, ShiftType
      <4> QED BY <4>2, EmptySeq
    <3>2. D[s + j] = G[j]
      BY <2>4, <2>5, <2>6
    <3> QED BY <2>4, <2>5, <2>6, <3>1, <3>2, Zenon
  <2>7. CASE k = 0
    <3>1. Shift(<<n>>, s) = <<s + n>>
      <4>1. PICK e \in Seq(Nat) : e = <<n>> /\ Len(e) = 1 /\ e[1] = n
        BY OneElement
      <4>2. PICK m \in Nat : m = s + n /\ m = n + s
        OBVIOUS
      <4>3. PICK e2 \in Seq(Nat) : e2 = <<m>> /\ Len(e2) = 1 /\ e2[1] = m
        BY OneElement
      <4>4. /\ Shift(e, s) \in Seq(Nat) /\ Len(Shift(e, s)) = Len(e)
            /\ \A i \in 1 .. Len(e) : Shift(e, s)[i] = e[i] + s
        BY ShiftType
      <4>5. Shift(e, s) = e2
        BY <4>1, <4>2, <4>3, <4>4, SeqEqual
      <4> QED BY <4>1, <4>2, <4>3, <4>5, Zenon
    <3>2. D[s + j] = G[j]
      BY <2>4, <2>5, <2>7
    <3> QED BY <1>1, <2>4, <2>5, <2>7, <3>1, <3>2, Zenon
  <2>8. CASE k \in Nat \ {0}
    <3>1. PICK i \in j + 1 .. n : i = j + k /\ i \in 0 .. n /\ i \in Nat
      <4>1. j + k \in j + 1 .. n /\ j + k \in 0 .. n /\ j + k \in Nat
        BY <1>1, <2>3, <2>8 DEF nil
      <4> QED BY <4>1
    <3>2. s + j + k = s + i /\ s + i = i + s
      BY <1>1, <2>8, <3>1
    <3>3. PICK r \in Seq(Nat) : r = F[i]
      <4>1. i \in 0 .. Len(q)
        BY <1>1, <3>1
      <4>2. F[i] \in Seq(Nat)
        BY <4>1, Zenon DEF Finds, FindsAt
      <4> QED BY <4>2
    <3>4. Shift(<<i>> \o F[i], s) = <<i + s>> \o Shift(F[i], s)
      <4>1. i \in Nat /\ s \in Nat
        BY <1>1, <3>1
      <4>2. Shift(<<i>> \o r, s) = <<i + s>> \o Shift(r, s)
        BY <4>1, ShiftMore
      <4> QED BY <3>3, <4>2, Zenon
    <3>5. E[s + i] = Shift(F[i], s) /\ D[s + i] = G[i]
      BY <1>2
    <3>6. F[j] = <<i>> \o F[i] /\ G[j] = G[i]
      BY <2>5, <2>8, <3>1, Zenon
    <3>7. E[s + j] = <<i + s>> \o E[s + i] /\ D[s + j] = D[s + i]
      BY <2>4, <2>8, <3>2, Zenon
    <3> QED BY <3>4, <3>5, <3>6, <3>7, Zenon
  <2>9. k = nil \/ k = 0 \/ k \in Nat \ {0}
    BY <1>1, <2>3
  <2> HIDE DEF Good
  <2> QED BY <2>6, <2>7, <2>8, <2>9
<1> HIDE DEF Good
<1>3. 0 \in P
  <2>1. n \in 0 .. n /\ \A i \in n + 1 .. n : FALSE
    OBVIOUS
  <2>2. Good(n)
    BY <1>2, <2>1, Zenon
  <2>3. \A j \in n - 0 .. n : j = n
    OBVIOUS
  <2> QED BY <2>1, <2>2, <2>3
<1>4. ASSUME NEW m \in 0 .. n - 1, m \in P PROVE m + 1 \in P
  <2>1. PICK k \in 0 .. n : k = n - (m + 1) /\ n - m = k + 1
    <3>1. n - (m + 1) \in 0 .. n /\ n - m = (n - (m + 1)) + 1
      OBVIOUS
    <3> QED BY <3>1
  <2>2. \A i \in k + 1 .. n : Good(i)
    BY <1>4, <2>1
  <2>3. Good(k)
    BY <1>2, <2>2
  <2>4. \A i \in k .. n : i = k \/ i \in k + 1 .. n
    OBVIOUS
  <2>5. \A i \in k .. n : Good(i)
    BY <2>2, <2>3, <2>4
  <2> QED BY <2>1, <2>5
<1>5. \A m \in 0 .. n : m \in P
  <2> HIDE DEF P
  <2> QED BY <1>3, <1>4, InductionUpTo
<1>6. Good(0)
  <2>1. n \in P /\ n \in 0 .. n
    <3> HIDE DEF P
    <3> QED BY <1>1, <1>5
  <2>2. 0 \in n - n .. n
    BY <1>1
  <2> QED BY <2>1, <2>2
<1> QED BY <1>6 DEF Good

\* Ends may be joined in any order.
LEMMA JoinedEnds ==
  \A a, b, c \in Seq(Nat) : (a \o b) \o c = a \o (b \o c)
BY ConcatAssociative

\* After the ends e the loop stands at offset s.
StandsAt(E, D, e, s) == E[0] = e \o E[s] /\ D[0] = D[s]

\* What the loop finds in the first bytes, it finds again when more have come, and then
\* goes on where it had stopped.
LEMMA CutsContinue ==
  ASSUME NEW tag \in Protos, NEW a \in Seq(Values), NEW b \in Seq(Values),
         NEW one, one = Cuts(tag, a), ~one.disabled,
         NEW s, s = Start(one.ends, 0, Len(one.ends) + 1),
         NEW E, NEW D, Finds(tag, a \o b, E, D)
  PROVE  s \in 0 .. Len(a) /\ StandsAt(E, D, one.ends, s)
<1> DEFINE m == Len(one.ends)
           at(i) == Start(one.ends, 0, i)
<1>1. CutFrom(tag, a, 0, one)
  BY CutsFound
<1>2. Ends(a, one.ends)
  BY <1>1 DEF CutFrom, Ends
<1>3. PICK e \in Seq(Nat) : e = one.ends /\ e \in Seq(0 .. Len(a)) /\ Len(e) \in Nat
  BY <1>2 DEF Ends
<1>4. m = Len(e) /\ m \in Nat /\ Len(a) \in Nat
  BY <1>3
<1>5. \A i \in 1 .. m + 1 : at(i) \in 0 .. Len(a)
  BY <1>2, StartType
<1>6. at(1) = 0 /\ \A i \in 1 .. m : at(i + 1) = e[i]
  BY <1>3, <1>4 DEF Start
<1>7. s \in 0 .. Len(a) /\ s = at(m + 1)
  BY <1>4, <1>5
<1>8. PICK p \in Seq(Values) : p = a \o b /\ Len(p) = Len(a) + Len(b)
  BY Joined, Zenon
<1>9. Finds(tag, p, E, D) /\ Len(b) \in Nat /\ \A o \in 0 .. Len(a) : o \in 0 .. Len(p)
  BY <1>4, <1>8
<1>10. \A o \in 0 .. Len(a) : E[o] \in Seq(Nat)
  BY <1>9, Zenon DEF Finds, FindsAt
<1> HIDE DEF at
<1> DEFINE P == {k \in 0 .. m : /\ E[at(m + 1 - k)] = Left(e, m - k) \o E[s]
                               /\ D[at(m + 1 - k)] = D[s]}
<1>11. 0 \in P
  <2>1. Left(e, m) = <<>>
    <3>1. m \in 0 .. Len(e)
      BY <1>4
    <3> QED BY <1>4, <3>1, LeftType
  <2>2. <<>> \o E[s] = E[s]
    BY <1>7, <1>10, ConcatEmptySeq
  <2>3. m - 0 = m /\ m + 1 - 0 = m + 1 /\ 0 \in 0 .. m
    BY <1>4
  <2> QED BY <1>7, <2>1, <2>2, <2>3
<1>12. ASSUME NEW k \in 0 .. m - 1, k \in P PROVE k + 1 \in P
  <2>1. PICK i \in 1 .. m : /\ i = m - k /\ i + 1 = m + 1 - k /\ i = m + 1 - (k + 1)
                            /\ i - 1 = m - (k + 1)
    <3>1. /\ m - k \in 1 .. m /\ (m - k) + 1 = m + 1 - k /\ m - k = m + 1 - (k + 1)
          /\ (m - k) - 1 = m - (k + 1)
      BY <1>4
    <3> QED BY <3>1
  <2>2. E[at(i + 1)] = Left(e, i) \o E[s] /\ D[at(i + 1)] = D[s]
    BY <1>12, <2>1
  <2>3. PICK o \in 0 .. Len(a), x \in 0 .. Len(a) : o = at(i) /\ x = e[i] /\ x = at(i + 1)
    <3>1. i \in 1 .. m + 1 /\ i + 1 \in 1 .. m + 1
      BY <1>4
    <3> QED BY <1>5, <1>6, <3>1
  <2>4. o < x /\ nextPacketLen(tag, Left(a, o)) = x - o
    BY <1>1, <1>3, <2>3 DEF CutFrom, at
  <2>5. PICK len \in Nat \ {0} : len = x - o /\ o + len = x /\ o < Len(a)
    BY <1>4, <2>4
  <2>6. LenAt(tag, p, o) = len
    BY <1>8, <2>4, <2>5, PacketStays
  <2>7. E[o] = <<x>> \o E[x] /\ D[o] = D[x]
    <3>1. E[o] = <<o + len>> \o E[o + len] /\ D[o] = D[o + len]
      <4>1. o \in 0 .. Len(p) /\ len \in Nat \ {0}
        BY <1>9
      <4>2. FindsAt(p, E, D, o, len)
        BY <1>9, <2>6, <4>1, Zenon DEF Finds
      <4> QED BY <4>1, <4>2, Zenon DEF FindsAt
    <3> QED BY <2>5, <3>1, Zenon
  <2>8. /\ Left(e, i) \in Seq(Nat) /\ <<x>> \in Seq(Nat) /\ E[s] \in Seq(Nat)
        /\ Left(e, i - 1) = <<x>> \o Left(e, i)
    <3>1. i \in 0 .. Len(e) /\ i \in 1 .. Len(e) /\ Len(e) \in i .. Len(e) /\ i - 1 + 1 = i
      BY <1>4
    <3>2. Left(e, i) \in Seq(Nat)
      BY <3>1, LeftType
    <3>3. SubSeq(e, i, Len(e)) = <<e[i]>> \o SubSeq(e, i + 1, Len(e))
      BY <3>1, SubSeqRecursiveFirst
    <3>4. x \in Nat
      OBVIOUS
    <3> QED BY <1>7, <1>10, <2>3, <3>1, <3>2, <3>3, <3>4, OneElement DEF Left
  <2>9. <<x>> \o (Left(e, i) \o E[s]) = (<<x>> \o Left(e, i)) \o E[s]
    <3>1. PICK l \in Seq(Nat) : l = <<x>>
      BY <2>8
    <3>2. PICK r \in Seq(Nat), t \in Seq(Nat) : r = Left(e, i) /\ t = E[s]
      BY <2>8
    <3>3. (l \o r) \o t = l \o (r \o t)
      BY JoinedEnds, Zenon
    <3> QED BY <3>1, <3>2, <3>3, Zenon
  <2>10. E[at(i)] = Left(e, i - 1) \o E[s] /\ D[at(i)] = D[s]
    BY <2>2, <2>3, <2>7, <2>8, <2>9, Zenon
  <2>11. k + 1 \in 0 .. m
    BY <1>4
  <2> QED BY <2>1, <2>10, <2>11
<1>13. m \in P
  <2> HIDE DEF P
  <2>1. \A k \in 0 .. m : k \in P
    BY <1>4, <1>11, <1>12, InductionUpTo
  <2> QED BY <1>4, <2>1
<1>14. E[at(1)] = Left(e, 0) \o E[s] /\ D[at(1)] = D[s]
  <2>1. m + 1 - m = 1 /\ m - m = 0
    BY <1>4
  <2> QED BY <1>13, <2>1
<1>15. Left(e, 0) = e
  <2>1. 0 + 1 = 1
    OBVIOUS
  <2> QED BY <2>1, SubSeqFull DEF Left
<1> QED BY <1>3, <1>6, <1>7, <1>14, <1>15, Zenon DEF StandsAt

\* Where the frames end depends on the client's bytes and not on how TCP cut them: split,
\* given some bytes and later the rest, cuts where it would have cut had all of them come
\* at once, and ends splitting if it would have ended it.
THEOREM FramesIgnoreCuts ==
  ASSUME NEW tag \in Protos, NEW a \in Seq(Values), NEW b \in Seq(Values),
         NEW one, one = Cuts(tag, a), ~one.disabled,
         NEW waits, waits = Trim(a, one.ends),
         NEW two, two = Cuts(tag, waits \o b),
         NEW all, all = Cuts(tag, a \o b)
  PROVE  /\ all.ends = one.ends \o [i \in DOMAIN two.ends |-> two.ends[i] + (Len(a) - Len(waits))]
         /\ all.disabled = two.disabled
<1>1. PICK s : s = Start(one.ends, 0, Len(one.ends) + 1)
  OBVIOUS
<1>2. PICK p \in Seq(Values) : p = a \o b /\ Len(p) = Len(a) + Len(b)
  BY Joined
<1>3. PICK E, D : Finds(tag, p, E, D)
  BY FindsExist
<1>4. s \in 0 .. Len(a) /\ StandsAt(E, D, one.ends, s)
  <2>1. Finds(tag, a \o b, E, D)
    BY <1>2, <1>3, Zenon
  <2> QED BY <1>1, <2>1, CutsContinue
<1>5. waits = Left(a, s)
  <2>1. Ends(a, one.ends)
    <3>1. CutFrom(tag, a, 0, one)
      BY CutsFound
    <3> QED BY <3>1 DEF CutFrom, Ends
  <2> QED BY <1>1, <2>1, PartsAre
<1>6. PICK q \in Seq(Values) : q = waits \o b /\ q = Left(p, s)
  <2>1. waits \in Seq(Values)
    BY <1>4, <1>5, LeftType
  <2>2. waits \o b = Left(p, s)
    <3>1. Left(a, s) \o b = Left(a \o b, s)
      BY <1>4, LeftOfMore
    <3> QED BY <1>2, <1>5, <3>1, Zenon
  <2>3. PICK q \in Seq(Values) : q = waits \o b
    BY <2>1, Joined
  <2> QED BY <2>2, <2>3, Zenon
<1>7. PICK F, G : Finds(tag, q, F, G)
  BY FindsExist
<1>8. E[s] = Shift(F[0], s) /\ D[s] = G[0]
  <2>1. s \in 0 .. Len(p)
    BY <1>2, <1>4
  <2> QED BY <1>3, <1>6, <1>7, <2>1, CutsShifted
<1>9. /\ all.ends = E[0] /\ all.disabled = D[0]
      /\ two.ends = F[0] /\ two.disabled = G[0]
  BY <1>2, <1>3, <1>6, <1>7, Zenon DEF Finds
<1>10. s = Len(a) - Len(waits)
  <2>1. Len(waits) = Len(a) - s /\ Len(a) \in Nat /\ s \in Nat
    BY <1>4, <1>5, LeftType
  <2> QED BY <2>1
<1>11. /\ all.ends = one.ends \o Shift(two.ends, Len(a) - Len(waits))
       /\ all.disabled = two.disabled
  BY <1>4, <1>8, <1>9, <1>10, Zenon DEF StandsAt
<1> QED BY <1>11 DEF Shift
=============================================================================
