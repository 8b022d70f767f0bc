---------------------------- MODULE TunnelFraming ----------------------------
(***************************************************************************)
(* Fortinet's tunnel framing (engine/hdlc.rs): a header of six bytes, the  *)
(* total length, twice the magic byte, the length of the payload, before   *)
(* every PPP frame.  Lengths are written in base Base, which is 256 in the *)
(* code; Magic is 0x50 there.                                              *)
(***************************************************************************)
EXTENDS Naturals, Sequences

CONSTANTS Base, Magic

ASSUME FramingAssumption == Base \in Nat \ {0, 1} /\ Magic \in 0 .. Base - 1

HeaderLen == 6
Bytes == 0 .. Base - 1

Written(n) == <<n \div Base, n % Base>>
Value(b1, b2) == b1 * Base + b2

\* frame_raw.
FrameRaw(ppp) ==
  Written(Len(ppp) + HeaderLen) \o <<Magic, Magic>> \o Written(Len(ppp)) \o ppp

HeaderTotal(buf) == Value(buf[1], buf[2])
HeaderSize(buf) == Value(buf[5], buf[6])

\* Mutant: the magic alone makes a header.
MagicHeader(buf) == buf[3] = Magic /\ buf[4] = Magic
GoodHeader(buf) ==
  /\ buf[3] = Magic /\ buf[4] = Magic
  /\ HeaderTotal(buf) >= 7 /\ HeaderTotal(buf) = HeaderSize(buf) + HeaderLen

\* pop_frame returns a frame, or a byte to skip, or asks for more.
NeedsMore(buf) ==
  \/ Len(buf) < HeaderLen
  \/ GoodHeader(buf) /\ Len(buf) < HeaderLen + HeaderSize(buf)

\* Of a bad header, one byte is skipped.
SkipsByte == 1

Consumed(buf) == IF GoodHeader(buf) THEN HeaderLen + HeaderSize(buf) ELSE SkipsByte
Popped(buf) ==
  IF GoodHeader(buf) THEN SubSeq(buf, HeaderLen + 1, HeaderLen + HeaderSize(buf)) ELSE <<>>

Rest(buf) == SubSeq(buf, Consumed(buf) + 1, Len(buf))

\* Runts are dropped.
Worthy(ppp) == IF Len(ppp) < 2 THEN <<>> ELSE <<ppp>>

\* The loop of run_relay around pop_frame: what it leaves in the buffer, and the
\* frames it takes.  Each turn consumes at least a byte.
Left[buf \in Seq(Bytes)] == IF NeedsMore(buf) THEN buf ELSE Left[Rest(buf)]

Frames[buf \in Seq(Bytes)] ==
  IF NeedsMore(buf) THEN <<>> ELSE Worthy(Popped(buf)) \o Frames[Rest(buf)]
=============================================================================
