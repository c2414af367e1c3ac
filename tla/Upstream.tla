------------------------------ MODULE Upstream ------------------------------
(***************************************************************************)
(* The way of the client's bytes to the gateway in direct mode:            *)
(* tcp_recv_cb of lwip_bridge.c, handleData and forwardToWS of             *)
(* TunnelSession.swift, InitParser and AESCTR, and MsgSplitter.swift.  TCP *)
(* cuts the stream anywhere; the gateway wants the 64 bytes of the init in *)
(* one frame and every MTProto packet after it in one of its own.  The     *)
(* packets are found in the decrypted copy of the stream.                  *)
(*                                                                         *)
(* A byte of the wire is its position and its plain value.  AES-CTR gives  *)
(* the plain value back while the cipher has consumed exactly the bytes    *)
(* before it; if malloc fails in tcp_recv_cb, bytes that lwIP acknowledges *)
(* are missing, and from then on the cipher yields anything.               *)
(***************************************************************************)
EXTENDS Integers, Sequences, SequencesExt

CONSTANTS
  Base, Hdr, Unit, \* values of a byte (256), bytes of a long header (4), unit of a length (4)
  handshakeLen,    \* bytes of the init (64)
  Values,          \* plain values the client uses
  MaxBytes,        \* bytes of the client's stream
  MaxChunk         \* bytes TCP delivers at once

ASSUME UpstreamAssumption ==
  /\ Base \in Nat \ {0} /\ Base % 2 = 0
  /\ Hdr \in Nat \ {0} /\ Unit \in Nat \ {0} /\ handshakeLen \in Nat \ {0}
  /\ Values \subseteq 0 .. Base - 1 /\ Values # {}
  /\ MaxBytes \in Nat /\ MaxChunk \in Nat

VARIABLES
  proto,      \* what the client speaks
  protoTag,   \* what the init says, once it is parsed
  received,   \* bytes lwIP has acknowledged to the client
  lost,       \* some of them never reached the session
  initBuffer, \* positions of the bytes that wait for the rest of the init
  initParsed, \* the flag
  keystream,  \* bytes the cipher of the splitter has consumed
  cipherBuf, plainBuf, disabled, \* the splitter
  frames,     \* frames the last step handed to the WebSocket
  done,       \* bytes that went out in frames before the last step
  closed      \* the session has rejected the init

vars == <<proto, protoTag, received, lost, initBuffer, initParsed, keystream, cipherBuf, plainBuf,
          disabled, frames, done, closed>>

Protos == {"abridged", "intermediate", "padded"}
Byte == [pos : 1 .. MaxBytes, val : Values]

TypeOK ==
  /\ proto \in Protos \cup {"other"}
  /\ protoTag \in Protos \cup {"none"}
  /\ received \in 0 .. MaxBytes /\ done \in 0 .. MaxBytes
  /\ lost \in BOOLEAN /\ initParsed \in BOOLEAN /\ disabled \in BOOLEAN /\ closed \in BOOLEAN
  /\ initBuffer \in Seq(1 .. MaxBytes) /\ Len(initBuffer) < handshakeLen
  /\ cipherBuf \in Seq(Byte)
  /\ plainBuf \in Seq(Values) /\ Len(plainBuf) = Len(cipherBuf)
  /\ keystream \in 0 .. MaxBytes
  /\ frames \in Seq(Seq(Byte))

-----------------------------------------------------------------------------
(* MsgSplitter *)

Half == Base \div 2

\* A little-endian number.
LittleEndian(s) == FoldRight(LAMBDA b, acc : b + Base * acc, s, 0)

\* The result nil of the length functions: more bytes are needed.
nil == -1

\* Mutant of Whole: the header is not counted.
Whole_NoHeader(plain, headerLen, payloadLen) ==
  IF payloadLen <= 0 THEN 0 ELSE IF Len(plain) < payloadLen THEN nil ELSE payloadLen

Whole(plain, headerLen, payloadLen) ==
  IF payloadLen <= 0 THEN 0
  ELSE IF Len(plain) < headerLen + payloadLen THEN nil ELSE headerLen + payloadLen

nextAbridgedLen(plain) ==
  IF plain[1] \in {Half - 1, Base - 1}
  THEN IF Len(plain) < Hdr THEN nil
       ELSE Whole(plain, Hdr, LittleEndian(SubSeq(plain, 2, Hdr)) * Unit)
  ELSE Whole(plain, 1, (plain[1] % Half) * Unit)

\* The top bit of a length is a flag.
TopBit == LittleEndian([i \in 1 .. Hdr |-> IF i = Hdr THEN Half ELSE 0])

nextIntermediateLen(plain) ==
  IF Len(plain) < Hdr THEN nil
  ELSE Whole(plain, Hdr, LittleEndian(SubSeq(plain, 1, Hdr)) % TopBit)

\* InitParser lets only these protocols through, so the last case of the code is dead.
nextPacketLen(tag, plain) ==
  IF tag = "abridged" THEN nextAbridgedLen(plain) ELSE nextIntermediateLen(plain)

\* Mutant of Cuts: one packet a call.
Cuts_One(tag, plain) ==
  LET len == IF plain = <<>> THEN nil ELSE nextPacketLen(tag, plain)
  IN  CASE len = nil -> [ends |-> <<>>, disabled |-> FALSE]
        [] len = 0 -> [ends |-> <<Len(plain)>>, disabled |-> TRUE]
        [] OTHER -> [ends |-> <<len>>, disabled |-> FALSE]

\* The loop of split: where the frames end, and whether a zero length stopped it,
\* which makes one frame of all that is left.
Cuts(tag, plain) ==
  LET from[offset \in 0 .. Len(plain)] ==
        LET left == SubSeq(plain, offset + 1, Len(plain))
            len == IF left = <<>> THEN nil ELSE nextPacketLen(tag, left)
        IN  CASE len = nil -> [ends |-> <<>>, disabled |-> FALSE]
              [] len = 0 -> [ends |-> <<Len(plain)>>, disabled |-> TRUE]
              [] OTHER -> [from[offset + len] EXCEPT !.ends = <<offset + len>> \o @]
  IN  from[0]

\* Mutant of Trim: the last byte that went out stays.
Trim_OffByOne(buf, ends) == IF ends = <<>> THEN buf ELSE SubSeq(buf, Last(ends), Len(buf))

\* removeFirst, on both buffers.
Trim(buf, ends) == IF ends = <<>> THEN buf ELSE SubSeq(buf, Last(ends) + 1, Len(buf))

Parts(buf, ends) ==
  [i \in DOMAIN ends |-> SubSeq(buf, IF i = 1 THEN 1 ELSE ends[i - 1] + 1, ends[i])]

\* What the cipher may make of a chunk: its plain text, if it stands at the right place.
Decrypted(chunk) ==
  IF chunk # <<>> /\ chunk[1].pos = handshakeLen + keystream + 1
  THEN {[i \in DOMAIN chunk |-> chunk[i].val]}
  ELSE [DOMAIN chunk -> Values]

\* Mutant of split: the decrypted copy is not trimmed.
split_KeepsPlain(tag, before, chunk, plain) ==
  LET buf == cipherBuf \o chunk
      cut == Cuts(tag, plainBuf \o plain)
  IN  /\ frames' = before \o Parts(buf, cut.ends)
      /\ cipherBuf' = Trim(buf, cut.ends)
      /\ plainBuf' = plainBuf \o plain
      /\ disabled' = cut.disabled
      /\ keystream' = keystream + Len(chunk)

\* split, after the frames "before" of the same step; an empty chunk changes nothing.
split(tag, before, chunk, plain) ==
  LET buf == cipherBuf \o chunk
      cut == Cuts(tag, plainBuf \o plain)
  IN  IF disabled
      THEN /\ frames' = before \o <<chunk>>
           /\ UNCHANGED <<cipherBuf, plainBuf, disabled, keystream>>
      ELSE /\ frames' = before \o Parts(buf, cut.ends)
           /\ cipherBuf' = Trim(buf, cut.ends)
           /\ plainBuf' = Trim(plainBuf \o plain, cut.ends)
           /\ disabled' = cut.disabled
           /\ keystream' = keystream + Len(chunk)

-----------------------------------------------------------------------------
(* TunnelSession *)

Positions(s) == [i \in DOMAIN s |-> s[i].pos]
InitFrame(init) == [i \in DOMAIN init |-> [pos |-> init[i], val |-> CHOOSE v \in Values : TRUE]]
FrameBytes == Len(FlattenSeq(frames))

\* InitParser.parse: the key is in the init itself, so an init with a hole may
\* seem to say anything.
ParseResults(init) ==
  IF \A i \in DOMAIN init : init[i] = i
  THEN {IF proto = "other" THEN "none" ELSE proto}
  ELSE Protos \cup {"none"}

handleData(chunk) ==
  /\ received' = received + Len(chunk)
  /\ done' = done + FrameBytes
  /\ IF initParsed
     THEN /\ \E plain \in Decrypted(chunk) : split(protoTag, <<>>, chunk, plain)
          /\ UNCHANGED <<protoTag, initBuffer, initParsed, closed>>
     ELSE LET buf == initBuffer \o Positions(chunk)
              init == SubSeq(buf, 1, handshakeLen)
              rest == SubSeq(chunk, handshakeLen - Len(initBuffer) + 1, Len(chunk))
          IN  \/ /\ Len(buf) < handshakeLen
                 /\ initBuffer' = buf
                 /\ frames' = <<>>
                 /\ UNCHANGED <<protoTag, initParsed, cipherBuf, plainBuf, disabled, keystream,
                                closed>>
              \/ /\ Len(buf) >= handshakeLen
                 /\ "none" \in ParseResults(init)
                 /\ closed' = TRUE
                 /\ initBuffer' = <<>> /\ frames' = <<>>
                 /\ UNCHANGED <<protoTag, initParsed, cipherBuf, plainBuf, disabled, keystream>>
              \/ /\ Len(buf) >= handshakeLen
                 /\ \E tag \in ParseResults(init) \ {"none"}, plain \in Decrypted(rest) :
                      /\ protoTag' = tag
                      /\ split(tag, <<InitFrame(init)>>, rest, plain)
                 /\ initParsed' = TRUE
                 /\ initBuffer' = <<>>
                 /\ UNCHANGED closed
  /\ UNCHANGED <<proto, lost>>

\* The next bytes of the client's stream.
Chunk(vals) == [i \in DOMAIN vals |-> [pos |-> received + i, val |-> vals[i]]]

tcp_recv_cb(vals) ==
  /\ ~closed
  /\ received + Len(vals) <= MaxBytes
  /\ handleData(Chunk(vals))

\* malloc fails: the bytes are acknowledged and gone.
tcp_recv_cb_NoMem(k) ==
  /\ ~closed
  /\ received + k <= MaxBytes
  /\ received' = received + k
  /\ lost' = TRUE
  /\ done' = done + FrameBytes
  /\ frames' = <<>>
  /\ UNCHANGED <<proto, protoTag, initBuffer, initParsed, keystream, cipherBuf, plainBuf, disabled,
                 closed>>

-----------------------------------------------------------------------------
Init ==
  /\ proto \in Protos \cup {"other"}
  /\ protoTag = "none"
  /\ received = 0 /\ done = 0 /\ keystream = 0
  /\ lost = FALSE /\ initParsed = FALSE /\ disabled = FALSE /\ closed = FALSE
  /\ initBuffer = <<>> /\ cipherBuf = <<>> /\ plainBuf = <<>> /\ frames = <<>>

\* What the client sends; with the cipher out of step it makes no difference.
Inputs(k) == IF lost THEN {CHOOSE vals \in [1 .. k -> Values] : TRUE} ELSE [1 .. k -> Values]

Next ==
  \E k \in 1 .. MaxChunk :
    \/ \E vals \in Inputs(k) : tcp_recv_cb(vals)
    \/ tcp_recv_cb_NoMem(k)

Spec == Init /\ [][Next]_vars

-----------------------------------------------------------------------------
(* Safety *)

\* Nothing is dropped, repeated or moved between lwIP and the WebSocket: the bytes
\* that went out, those of the last frames and those that wait make up the
\* client's stream; with bytes lost to malloc, what is left keeps its order.
StreamKept ==
  LET waiting == IF initParsed THEN Positions(cipherBuf) ELSE initBuffer
      pos == Positions(FlattenSeq(frames)) \o waiting
  IN  /\ \A i, j \in DOMAIN pos : i < j => pos[i] < pos[j]
      /\ ~lost /\ ~closed => pos = [i \in 1 .. received - done |-> done + i]

\* A frame is one MTProto packet: a header of the protocol, and as many bytes as
\* it says.
IsPacket(tag, frame) ==
  LET v == [i \in DOMAIN frame |-> frame[i].val]
      long == tag = "abridged" /\ v[1] \in {Half - 1, Base - 1}
      short == tag = "abridged" /\ ~long
  IN  \E headerLen \in {1, Hdr}, payloadLen \in 1 .. Len(frame) :
        /\ headerLen + payloadLen = Len(frame)
        /\ \/ short /\ headerLen = 1 /\ payloadLen = Unit * (v[1] % Half)
           \/ long /\ headerLen = Hdr /\ payloadLen = Unit * LittleEndian(SubSeq(v, 2, Hdr))
           \/ /\ tag # "abridged" /\ headerLen = Hdr /\ payloadLen < TopBit
              /\ \E flag \in {0, TopBit} :
                   LittleEndian(SubSeq(v, 1, Hdr)) = flag + payloadLen

\* However TCP cuts the stream, the gateway gets the init in a frame of its own and
\* then one packet a frame, until a zero length ends the splitting.
OnePacketAFrame ==
  ~lost /\ ~disabled =>
    \A i \in DOMAIN frames :
      IF frames[i][1].pos = 1 THEN Len(frames[i]) = handshakeLen ELSE IsPacket(protoTag, frames[i])

\* No whole packet is held back: what waits is the beginning of one, and nothing
\* waits once splitting has ended.
NoPacketWaits ==
  /\ ~lost => \A n \in 1 .. Len(cipherBuf) : ~IsPacket(protoTag, SubSeq(cipherBuf, 1, n))
  /\ disabled => cipherBuf = <<>>
=============================================================================
