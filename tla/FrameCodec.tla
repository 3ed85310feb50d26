------------------------------ MODULE FrameCodec ------------------------------
(***************************************************************************)
(* WebSocketHandler::encodeFrame and parseFrame.  A frame is its header    *)
(* and a number of payload bytes: the header's first two bytes are taken   *)
(* apart into opcode, FIN, MASK and the 7-bit length, and the extended     *)
(* length is the sequence of bytes that follow.  A byte has Base values    *)
(* (256) and the largest 7-bit length is Max7 (125), so that TLC can check *)
(* a scaled-down codec and the proofs are about the real one.  Sizes are   *)
(* size_t, of eight bytes.                                                 *)
(***************************************************************************)
EXTENDS Naturals, Sequences

CONSTANTS Base, Max7,
          SizeMod    \* 2^64: sums of sizes wrap around

ASSUME CodecAssumption ==
  /\ Base \in Nat /\ Base >= 2
  /\ Max7 \in Nat /\ Max7 + 2 < Base * Base
  /\ SizeMod \in Nat /\ SizeMod > Base * Base

Byte == 0..Base - 1
Max16 == Base * Base - 1

\* x >> 8 and x & 0xFF.
Shift(x) == x \div Base
Low(x) == x % Base

\* The eight bytes of x, the highest first.
WideBytes(x) ==
  LET x1 == Shift(x)  x2 == Shift(x1) x3 == Shift(x2) x4 == Shift(x3)
      x5 == Shift(x4) x6 == Shift(x5) x7 == Shift(x6)
  IN  <<Low(x7), Low(x6), Low(x5), Low(x4), Low(x3), Low(x2), Low(x1), Low(x)>>

\* x is a size_t.
Fits(x) ==
  Shift(Shift(Shift(Shift(Shift(Shift(Shift(Shift(x)))))))) = 0 /\ x < SizeMod

\* Fault: the first length that needs two bytes is put into the 7-bit field.
encodeFrameOffByOne(len) ==
  [op |-> "text", fin |-> TRUE, masked |-> FALSE,
   len7 |-> IF len <= Max7 + 1 THEN len ELSE IF len <= Max16 THEN Max7 + 1 ELSE Max7 + 2,
   ext |-> IF len <= Max7 + 1 THEN <<>>
           ELSE IF len <= Max16 THEN <<Low(Shift(len)), Low(len)>> ELSE WideBytes(len)]

\* The header the server puts in front of a message of len bytes.
encodeFrame(len) ==
  [op |-> "text", fin |-> TRUE, masked |-> FALSE,
   len7 |-> IF len <= Max7 THEN len ELSE IF len <= Max16 THEN Max7 + 1 ELSE Max7 + 2,
   ext |-> IF len <= Max7 THEN <<>>
           ELSE IF len <= Max16 THEN <<Low(Shift(len)), Low(len)>> ELSE WideBytes(len)]

\* Bytes of the extended length, and where the payload begins.
ExtLen(h) == IF h.len7 = Max7 + 1 THEN 2 ELSE IF h.len7 = Max7 + 2 THEN 8 ELSE 0
MaskLen(h) == IF h.masked THEN 4 ELSE 0
HeaderLen(h) == 2 + ExtLen(h) + MaskLen(h)

\* payloadLen, from the bytes of the header.
PayloadLen(h) ==
  LET e == h.ext IN
  IF h.len7 = Max7 + 1 THEN e[1] * Base + e[2]
  ELSE IF h.len7 = Max7 + 2
  THEN ((((((e[1] * Base + e[2]) * Base + e[3]) * Base + e[4]) * Base + e[5])
           * Base + e[6]) * Base + e[7]) * Base + e[8]
  ELSE h.len7

\* frameLen = pos + payloadLen, two size_t.
FrameLen(h) ==
  LET sum == HeaderLen(h) + PayloadLen(h) IN
  IF sum < SizeMod THEN sum ELSE sum - SizeMod

\* Fault: the payload may still be on its way.
parseFrameHeaderOnly(h, dataLen) ==
  h.op \in {"text", "close"} /\ dataLen >= HeaderLen(h) /\ h.fin

\* The result of parseFrame for a frame with header h of which the buffer has
\* dataLen bytes.
parseFrame(h, dataLen) ==
  /\ dataLen >= 2
  /\ h.op \in {"text", "close"}
  /\ dataLen >= 2 + ExtLen(h)
  /\ dataLen >= HeaderLen(h)
  /\ dataLen >= FrameLen(h)
  /\ h.fin
=============================================================================
