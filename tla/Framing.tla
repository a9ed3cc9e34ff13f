------------------------------- MODULE Framing -------------------------------
(***************************************************************************)
(* Packet: how frames and answers are found in a stream of bytes.  A burst *)
(* is what arrives without a silence as long as the time-out of Read: whole*)
(* frames, answers, fragments and noise in any order.  The agent calls     *)
(* ReceiveFrameFrom (or ReceiveAckFrom) until the burst is used up.        *)
(*                                                                         *)
(* The checksum is a parameter: which frames are received does not depend  *)
(* on how it is computed.  The names of the specification leave room for   *)
(* those of SerialBus, the other module about the line.                    *)
(***************************************************************************)
EXTENDS Integers, Sequences

CONSTANTS
  Crc(_),        \* the checksum that CRC16::crc16 computes from ~0
  Frames,        \* frames that are sent whole
  Answers,       \* answers that are sent whole (ACK or NAK and what it is about)
  Scraps,        \* fragments and noise
  MaxParts,      \* parts of a burst
  MaxCache       \* size of strCache above which a frame start is given up (4056)

SOH == 1
STX == 2
ETX == 3
EOT == 4
ACK == 6
NAK == 21
Byte == 0..255

\* A frame is built of its content, at least the two letters of a command.
BuildPacket(content, Machine) ==
  LET crc == Crc(Append(content, ETX))
  IN  <<SOH, Machine, STX>> \o content \o <<ETX, crc \div 256, crc % 256, EOT>>

VARIABLES
  bytes, parts,  \* the burst, and what it was put together from
  wanted,        \* "frame" or "ack": the call that is made
  pos,           \* number of bytes that were read
  pc,            \* "arrive", "scan", "append", "slip", "done", "silent"
  strCache,
  got            \* what the calls have returned, and pos at that time

burstVars == <<bytes, parts, wanted>>
framingVars == <<burstVars, pos, pc, strCache, got>>

FramingInit ==
  /\ bytes = <<>> /\ parts = <<>> /\ wanted \in {"frame", "ack"}
  /\ pos = 0 /\ pc = "arrive" /\ strCache = <<>> /\ got = <<>>

\* A part of the burst arrives.
Arrive ==
  /\ pc = "arrive" /\ Len(parts) < MaxParts
  /\ \E p \in Frames \cup Answers \cup Scraps :
       /\ bytes' = bytes \o p
       /\ parts' = Append(parts, [at |-> Len(bytes), of |-> p])
  /\ UNCHANGED <<wanted, pos, pc, strCache, got>>

\* The first call is made.
Call ==
  /\ pc = "arrive" /\ parts # <<>>
  /\ pc' = "scan"
  /\ UNCHANGED <<burstVars, pos, strCache, got>>

More == pos < Len(bytes)
next == bytes[pos + 1]

-----------------------------------------------------------------------------
(* Checking and resynchronising                                            *)

\* Fault: the checksum is not compared.
AnyChecksum(c) == Len(c) >= 9 /\ c[Len(c)] = EOT /\ c[Len(c) - 3] = ETX

isFrameCRCOK(c) ==
  LET tail == Len(c)
  IN  /\ tail >= 9
      /\ c[tail] = EOT /\ c[tail - 3] = ETX
      /\ Crc(SubSeq(c, 4, tail - 3)) = c[tail - 2] * 256 + c[tail - 1]

\* Fault: the search begins behind the byte after the start token.
SlipsTwo(c) ==
  LET starts == {i \in 3..Len(c) : c[i] = SOH}
  IN  IF starts = {} THEN <<>>
      ELSE SubSeq(c, CHOOSE i \in starts : \A j \in starts : i <= j, Len(c))

slipToNextStartToken(c) ==
  LET starts == {i \in 2..Len(c) : c[i] = SOH}
  IN  IF starts = {} THEN <<>>
      ELSE SubSeq(c, CHOOSE i \in starts : \A j \in starts : i <= j, Len(c))

\* isValidFrame: a cache that is too long loses its first start token, and is
\* not checked again (continue leaves the do ... while (false)).
AfterByte(c) ==
  IF c[Len(c)] = EOT /\ ~isFrameCRCOK(c) /\ Len(c) > MaxCache
  THEN slipToNextStartToken(c) ELSE c

-----------------------------------------------------------------------------
(* ReceiveFrameFrom                                                        *)

Skip ==
  /\ wanted = "frame" /\ pc = "scan" /\ More /\ next # SOH
  /\ pos' = pos + 1
  /\ UNCHANGED <<burstVars, pc, strCache, got>>

\* A cache that was emptied takes the next byte whatever it is.
AppendByte ==
  /\ wanted = "frame" /\ More
  /\ pc = "append" \/ (pc = "scan" /\ next = SOH)
  /\ LET c == Append(strCache, next)
     IN  /\ strCache' = AfterByte(c)
         /\ pc' = IF next = EOT /\ isFrameCRCOK(c) THEN "done" ELSE "append"
  /\ pos' = pos + 1
  /\ UNCHANGED <<burstVars, got>>

\* Read times out.
Silence ==
  /\ wanted = "frame" /\ ~More /\ pc \in {"scan", "append"}
  /\ pc' = IF strCache = <<>> THEN "done" ELSE "slip"
  /\ UNCHANGED <<burstVars, pos, strCache, got>>

Slip ==
  /\ pc = "slip"
  /\ strCache' = slipToNextStartToken(strCache)
  /\ pc' = IF strCache' = <<>> \/ isFrameCRCOK(strCache') THEN "done" ELSE "slip"
  /\ UNCHANGED <<burstVars, pos, got>>

-----------------------------------------------------------------------------
(* ReceiveAckFrom                                                          *)

SkipToAck ==
  /\ wanted = "ack" /\ pc = "scan" /\ More /\ next \notin {ACK, NAK}
  /\ pos' = pos + 1
  /\ UNCHANGED <<burstVars, pc, strCache, got>>

\* Fault: the byte that ends the search is read over.
DropsStart ==
  /\ wanted = "ack" /\ More
  /\ pc = "append" \/ (pc = "scan" /\ next \in {ACK, NAK})
  /\ strCache' = IF pc = "scan" THEN strCache ELSE Append(strCache, next)
  /\ pos' = pos + 1
  /\ pc' = "append"
  /\ UNCHANGED <<burstVars, got>>

AppendAckByte ==
  /\ wanted = "ack" /\ More
  /\ pc = "append" \/ (pc = "scan" /\ next \in {ACK, NAK})
  /\ strCache' = Append(strCache, next) /\ pos' = pos + 1
  /\ pc' = "append"
  /\ UNCHANGED <<burstVars, got>>

\* Fault: what the read that timed out left in the buffer is appended.
AppendsStale ==
  /\ wanted = "ack" /\ ~More /\ pc \in {"scan", "append"}
  /\ pc' = "done"
  /\ strCache' = Append(strCache, bytes[pos])
  /\ UNCHANGED <<burstVars, pos, got>>

AckSilence ==
  /\ wanted = "ack" /\ ~More /\ pc \in {"scan", "append"}
  /\ pc' = "done"
  /\ UNCHANGED <<burstVars, pos, strCache, got>>

-----------------------------------------------------------------------------
\* The call returns.  The next one clears the cache; it is made as long as
\* there is something to read.
Return ==
  /\ pc = "done"
  /\ got' = Append(got, [cache |-> strCache, end |-> pos]) /\ strCache' = <<>>
  /\ pc' = IF More THEN "scan" ELSE "silent"
  /\ UNCHANGED <<burstVars, pos>>

\* Nothing is left to read.
BurstOver == pc = "silent" /\ UNCHANGED framingVars

FramingNext ==
  \/ Arrive \/ Call
  \/ Skip \/ AppendByte \/ Silence \/ Slip
  \/ SkipToAck \/ AppendAckByte \/ AckSilence
  \/ Return
  \/ BurstOver

FramingSpec == FramingInit /\ [][FramingNext]_framingVars

-----------------------------------------------------------------------------
(* Properties                                                              *)

\* Frames pass the check, and fit into the cache.  An answer begins with its
\* control character.
ASSUME FramingAssumption ==
  /\ Frames \cup Answers \cup Scraps \subseteq Seq(Byte) \ {<<>>}
  /\ \A f \in Frames : f[1] = SOH /\ isFrameCRCOK(f) /\ Len(f) <= MaxCache
  /\ \A a \in Answers : a[1] \in {ACK, NAK}
  /\ MaxParts \in Nat /\ MaxCache \in Nat

FramingTypeOK ==
  /\ bytes \in Seq(Byte) /\ pos \in 0..Len(bytes)
  /\ wanted \in {"frame", "ack"}
  /\ pc \in {"arrive", "scan", "append", "slip", "done", "silent"}
  /\ strCache \in Seq(Byte)
  /\ pc \in {"arrive", "scan", "silent"} => strCache = <<>>
  /\ got \in Seq([cache : Seq(Byte), end : 0..Len(bytes)])

\* What the calls return are pieces of the burst as it was sent, in order and
\* without a byte twice: resynchronising never joins what did not arrive
\* together.
Unspliced ==
  \A k \in DOMAIN got :
    LET from == got[k].end - Len(got[k].cache)
    IN  /\ from >= IF k = 1 THEN 0 ELSE got[k - 1].end
        /\ got[k].cache = SubSeq(bytes, from + 1, got[k].end)

\* The frame, and where it ends.
Sent(i) == [cache |-> parts[i].of, end |-> parts[i].at + Len(parts[i].of)]
FrameParts == {i \in DOMAIN parts : parts[i].of \in Frames}

\* A start token that belongs to no frame.
Stray(x) ==
  bytes[x] = SOH /\ \A i \in FrameParts : x <= parts[i].at \/ x > Sent(i).end

\* Bytes that begin with a start token and pass the check, but are no frame.
Collision ==
  \E a, b \in 0..Len(bytes) :
    /\ a < b /\ bytes[a + 1] = SOH
    /\ isFrameCRCOK(SubSeq(bytes, a + 1, b))
    /\ \A i \in FrameParts : parts[i].at # a \/ Sent(i).end # b

\* What the checksum covers, and the checksum.
Content(c) == SubSeq(c, 4, Len(c))

\* Fragments run together with frames or noise, and cut frames that contain
\* control characters, never pass for a frame: what ReceiveFrameFrom returns
\* has the content of a frame that was sent.  (The two bytes before it, the
\* machine number among them, are not checked.)
OnlySentFrames ==
  wanted = "frame" /\ pc = "done" /\ strCache # <<>> =>
    \E f \in Frames : Content(strCache) = Content(f)

\* The frames received are those that no stray start token comes before, and
\* the one that ends the burst whatever came before it; the others are lost.
\* In a burst longer than MaxCache, where start tokens are given up, others may
\* be received too, or the last may be lost.
FramesReceived ==
  wanted = "frame" /\ pc = "silent" =>
    LET inStep == {i \in FrameParts : \A x \in 1..parts[i].at : ~Stray(x)}
        last == {i \in FrameParts : Sent(i).end = Len(bytes)}
        received == {got[k] : k \in {l \in DOMAIN got : got[l].cache # <<>>}}
    IN  \/ received = {Sent(i) : i \in inStep \cup last}
        \/ Len(bytes) > MaxCache /\ {Sent(i) : i \in inStep} \subseteq received
        \/ Collision

\* One call takes all answers of a burst for one, and reads the first of them:
\* ReceiveAckFrom has no end mark.
FirstAnswerRead ==
  wanted = "ack" /\ pc = "silent" =>
    /\ Len(got) = 1
    /\ \A i \in DOMAIN parts :
         /\ parts[i].of \in Answers
         /\ \A x \in 1..parts[i].at : bytes[x] \notin {ACK, NAK}
         => \A k \in DOMAIN parts[i].of : got[1].cache[k] = parts[i].of[k]
=============================================================================
