--------------------------- MODULE WebSocketProofs ----------------------------
(***************************************************************************)
(* Proofs about WebSocket and FrameCodec, for every size of a byte, every  *)
(* sequence of frames and every way to cut the bytes into reads: what      *)
(* encodeFrame writes, parseFrame and a client read back; a request is     *)
(* answered once; and what is handled is what has arrived.                 *)
(***************************************************************************)
EXTENDS WebSocket, SequenceTheorems, WellFoundedInduction, TLAPS

(* x >> 8 and x & 0xFF put together are x. *)
LEMMA DivMod ==
  ASSUME NEW x \in Nat
  PROVE  /\ Shift(x) \in Nat /\ Low(x) \in Byte
         /\ Shift(x) * Base + Low(x) = x
  BY CodecAssumption DEF Shift, Low, Byte

(* Two bytes are enough up to Max16: the high byte is all of x >> 8. *)
LEMMA ShortHigh ==
  ASSUME NEW x \in Nat, x <= Max16
  PROVE  Low(Shift(x)) = Shift(x)
<1>1. Shift(x) \in Nat /\ Low(x) \in Nat /\ Shift(x) * Base + Low(x) = x
  BY DivMod DEF Byte
<1>2. Shift(x) < Base
  <2> SUFFICES ASSUME Shift(x) >= Base PROVE FALSE
    BY <1>1, CodecAssumption
  <2>1. Shift(x) * Base >= Base * Base
    BY <1>1, CodecAssumption
  <2>2. x <= Base * Base - 1
    BY DEF Max16
  <2> QED
    BY <1>1, <2>1, <2>2, CodecAssumption
<1> QED
  BY <1>1, <1>2, CodecAssumption DEF Low

(* Digits that are put together one after the other, the highest first. *)
LEMMA WideReadBack ==
  ASSUME NEW x \in Nat, Fits(x)
  PROVE  LET e == WideBytes(x) IN
         ((((((e[1] * Base + e[2]) * Base + e[3]) * Base + e[4]) * Base + e[5])
            * Base + e[6]) * Base + e[7]) * Base + e[8] = x
<1> DEFINE x1 == Shift(x)  x2 == Shift(x1) x3 == Shift(x2) x4 == Shift(x3)
           x5 == Shift(x4) x6 == Shift(x5) x7 == Shift(x6)
<1>1. x1 \in Nat /\ x1 * Base + Low(x) = x
  BY DivMod
<1>2. x2 \in Nat /\ x2 * Base + Low(x1) = x1
  BY <1>1, DivMod
<1>3. x3 \in Nat /\ x3 * Base + Low(x2) = x2
  BY <1>2, DivMod
<1>4. x4 \in Nat /\ x4 * Base + Low(x3) = x3
  BY <1>3, DivMod
<1>5. x5 \in Nat /\ x5 * Base + Low(x4) = x4
  BY <1>4, DivMod
<1>6. x6 \in Nat /\ x6 * Base + Low(x5) = x5
  BY <1>5, DivMod
<1>7. x7 \in Nat /\ x7 * Base + Low(x6) = x6
  BY <1>6, DivMod
<1>8. Low(x7) = x7
  <2>1. Shift(x7) * Base + Low(x7) = x7 /\ Low(x7) \in Nat
    BY <1>7, DivMod DEF Byte
  <2>2. Shift(x7) = 0
    BY DEF Fits
  <2> QED
    BY <2>1, <2>2, CodecAssumption
<1>9. WideBytes(x) = <<Low(x7), Low(x6), Low(x5), Low(x4), Low(x3), Low(x2), Low(x1), Low(x)>>
  BY DEF WideBytes
<1> HIDE DEF x1, x2, x3, x4, x5, x6, x7
<1> QED
  BY <1>1, <1>2, <1>3, <1>4, <1>5, <1>6, <1>7, <1>8, <1>9

(* The three forms of the length exclude each other. *)
LEMMA EncodedLength ==
  ASSUME NEW len \in Nat, Fits(len)
  PROVE  PayloadLen(encodeFrame(len)) = len
<1>1. CASE len <= Max7
  BY <1>1, CodecAssumption DEF encodeFrame, PayloadLen
<1>2. CASE len > Max7 /\ len <= Max16
  <2>1. /\ encodeFrame(len).len7 = Max7 + 1
        /\ encodeFrame(len).ext = <<Low(Shift(len)), Low(len)>>
    BY <1>2, CodecAssumption DEF encodeFrame
  <2>2. Shift(len) * Base + Low(len) = len /\ Low(Shift(len)) = Shift(len)
    BY <1>2, DivMod, ShortHigh
  <2> QED
    BY <2>1, <2>2, CodecAssumption DEF PayloadLen
<1>3. CASE len > Max7 /\ len > Max16
  <2>1. encodeFrame(len).len7 = Max7 + 2 /\ encodeFrame(len).ext = WideBytes(len)
    BY <1>3, CodecAssumption DEF encodeFrame, Max16
  <2> QED
    BY <2>1, WideReadBack, CodecAssumption DEF PayloadLen
<1> QED
  BY <1>1, <1>2, <1>3, CodecAssumption DEF Max16

(* The whole frame, header and message, of a reply to len bytes. *)
EncodedSize(len) == HeaderLen(encodeFrame(len)) + len

(* parseFrame accepts the frame encodeFrame makes of a message of any      *)
(* length exactly when all its bytes have arrived, and takes exactly those *)
(* bytes from the buffer, provided the frame can be in memory at all       *)
(* (its size is a size_t, so that pos + payloadLen does not wrap around).  *)
(* WebSocketHandler.cpp:84-184.                                            *)
THEOREM CodecRoundTrip ==
  ASSUME NEW len \in Nat, Fits(len), EncodedSize(len) < SizeMod
  PROVE  /\ FrameLen(encodeFrame(len)) = EncodedSize(len)
         /\ \A n \in Nat : parseFrame(encodeFrame(len), n) <=> n >= EncodedSize(len)
<1> DEFINE h == encodeFrame(len)
<1>1. PayloadLen(h) = len
  BY EncodedLength
<1>2. FrameLen(h) = EncodedSize(len)
  BY <1>1 DEF FrameLen, EncodedSize
<1>3. h.op = "text" /\ h.fin = TRUE
  BY DEF encodeFrame
<1>4. ExtLen(h) \in Nat /\ MaskLen(h) \in Nat
  BY DEF ExtLen, MaskLen
<1> HIDE DEF h
<1>5. ASSUME NEW n \in Nat PROVE parseFrame(h, n) <=> n >= EncodedSize(len)
  BY <1>2, <1>3, <1>4 DEF parseFrame, HeaderLen, EncodedSize, h
<1> QED
  BY <1>2, <1>5 DEF h

-----------------------------------------------------------------------------
(* Messages of the server: the bytes of the length, one by one. *)

(* Shifting twice is dividing by the product. *)
LEMMA DivDiv ==
  ASSUME NEW n \in Nat, NEW a \in Nat, a >= 1, NEW b \in Nat, b >= 1
  PROVE  n \div (a * b) = (n \div a) \div b
  OBVIOUS

(* A shift of what was divided by a weight divides by the next weight. *)
LEMMA NextWeight ==
  ASSUME NEW n \in Nat, NEW w \in Nat, w >= 1
  PROVE  /\ w * Base \in Nat /\ w * Base >= 1
         /\ Shift(n \div w) = n \div (w * Base)
<1>1. w * Base \in Nat /\ w * Base >= 1
  BY CodecAssumption
<1>2. n \div (w * Base) = (n \div w) \div Base
  BY DivDiv, CodecAssumption
<1> QED
  BY <1>1, <1>2 DEF Shift

(* The weights are the powers of Base. *)
LEMMA WeightChain ==
  /\ Weights \in Seq(Nat) /\ Len(Weights) = 8 /\ Weights[1] = 1
  /\ \A i \in 1..7 : Weights[i + 1] = Weights[i] * Base
  /\ \A i \in 1..8 : Weights[i] \in Nat /\ Weights[i] >= 1
<1> DEFINE w2 == Base * Base
           w4 == w2 * w2
<1>1. Base \in Nat /\ Base >= 1
  BY CodecAssumption
<1>2. w2 \in Nat /\ w2 >= 1
  BY <1>1
<1>3. w4 \in Nat /\ w4 >= 1
  <2> HIDE DEF w2
  <2> QED
    BY <1>2
<1>4. w2 * Base \in Nat /\ w2 * Base >= 1 /\ w4 = (w2 * Base) * Base
  BY <1>1, <1>2
<1>5. /\ w4 * Base \in Nat /\ w4 * Base >= 1
      /\ w4 * w2 \in Nat /\ w4 * w2 >= 1 /\ w4 * w2 = (w4 * Base) * Base
  <2>1. w2 = Base * Base
    OBVIOUS
  <2> HIDE DEF w2, w4
  <2> QED
    BY <1>1, <1>2, <1>3, <2>1
<1>6. (w4 * w2) * Base \in Nat /\ (w4 * w2) * Base >= 1
  <2> DEFINE w6 == w4 * w2
  <2>1. w6 \in Nat /\ w6 >= 1
    BY <1>5
  <2> HIDE DEF w6
  <2>2. w6 * Base \in Nat /\ w6 * Base >= 1
    BY <1>1, <2>1
  <2> QED
    BY <2>2 DEF w6
<1>7. Weights = <<1, Base, w2, w2 * Base, w4, w4 * Base, w4 * w2, (w4 * w2) * Base>>
  BY DEF Weights
<1>8. w2 = Base * Base /\ Base = 1 * Base
  BY <1>1
<1> DEFINE w3 == w2 * Base  w5 == w4 * Base  w6 == w4 * w2  w7 == w6 * Base
<1>9. /\ Weights = <<1, Base, w2, w3, w4, w5, w6, w7>>
      /\ Base = 1 * Base /\ w2 = Base * Base /\ w3 = w2 * Base /\ w4 = w3 * Base
      /\ w5 = w4 * Base /\ w6 = w5 * Base /\ w7 = w6 * Base
      /\ w3 \in Nat /\ w3 >= 1 /\ w5 \in Nat /\ w5 >= 1 /\ w6 \in Nat /\ w6 >= 1
      /\ w7 \in Nat /\ w7 >= 1
  BY <1>4, <1>5, <1>6, <1>7, <1>8
<1> HIDE DEF w2, w3, w4, w5, w6, w7
<1>10. /\ Weights[1] = 1 /\ Weights[2] = Base /\ Weights[3] = w2 /\ Weights[4] = w3
       /\ Weights[5] = w4 /\ Weights[6] = w5 /\ Weights[7] = w6 /\ Weights[8] = w7
       /\ Len(Weights) = 8 /\ Weights \in Seq(Nat)
  BY <1>1, <1>2, <1>3, <1>9
<1>11. \A i \in 1..8 : Weights[i] \in Nat /\ Weights[i] >= 1
  <2> SUFFICES ASSUME NEW i \in 1..8 PROVE Weights[i] \in Nat /\ Weights[i] >= 1
    OBVIOUS
  <2>1. i = 1 \/ i = 2 \/ i = 3 \/ i = 4 \/ i = 5 \/ i = 6 \/ i = 7 \/ i = 8
    OBVIOUS
  <2> QED
    BY <2>1, <1>1, <1>2, <1>3, <1>9, <1>10
<1>12. \A i \in 1..7 : Weights[i + 1] = Weights[i] * Base
  <2> SUFFICES ASSUME NEW i \in 1..7 PROVE Weights[i + 1] = Weights[i] * Base
    OBVIOUS
  <2>1. i = 1 \/ i = 2 \/ i = 3 \/ i = 4 \/ i = 5 \/ i = 6 \/ i = 7
    OBVIOUS
  <2>2. /\ Weights[2] = Weights[1] * Base /\ Weights[3] = Weights[2] * Base
        /\ Weights[4] = Weights[3] * Base /\ Weights[5] = Weights[4] * Base
        /\ Weights[6] = Weights[5] * Base /\ Weights[7] = Weights[6] * Base
        /\ Weights[8] = Weights[7] * Base
    BY <1>9, <1>10
  <2> QED
    BY <2>1, <2>2
<1> QED
  BY <1>10, <1>11, <1>12

(* encodeFrame shifts a length by one byte at a time; that is the same as  *)
(* dividing by the weight of the byte.                                     *)
LEMMA ShiftsAreDigits ==
  ASSUME NEW n \in Nat
  PROVE  /\ <<Low(Shift(n)), Low(n)>> = Digits(n, 2)
         /\ WideBytes(n) = Digits(n, 8)
<1> DEFINE w == Weights
           D(i) == n \div w[i]
<1>1. \A i \in 1..7 : Shift(D(i)) = D(i + 1)
  <2> SUFFICES ASSUME NEW i \in 1..7 PROVE Shift(n \div w[i]) = n \div w[i + 1]
    OBVIOUS
  <2>0. i \in 1..8
    OBVIOUS
  <2>1. w[i] \in Nat /\ w[i] >= 1 /\ w[i + 1] = w[i] * Base
    <3>1. w[i] \in Nat /\ w[i] >= 1
      BY <2>0, WeightChain, Zenon
    <3>2. w[i + 1] = w[i] * Base
      BY WeightChain, Zenon
    <3> QED
      BY <3>1, <3>2
  <2> HIDE DEF w
  <2> QED
    BY <2>1, NextWeight
<1>2. D(1) = n
  <2>1. w[1] = 1
    BY WeightChain
  <2> QED
    BY <2>1
<1>3. \A k \in 1..8 : Digits(n, k) = [i \in 1..k |-> Low(D(k - i + 1))]
  BY DEF Digits, Low
<1> DEFINE x1 == Shift(n)  x2 == Shift(x1) x3 == Shift(x2) x4 == Shift(x3)
           x5 == Shift(x4) x6 == Shift(x5) x7 == Shift(x6)
<1> HIDE DEF w, D
<1>4. x1 = D(2)
  BY <1>1, <1>2
<1>5. x2 = D(3)
  <2> HIDE DEF x1
  <2> QED
    BY <1>1, <1>4
<1>6. x3 = D(4)
  <2> HIDE DEF x2
  <2> QED
    BY <1>1, <1>5
<1>7. x4 = D(5)
  <2> HIDE DEF x3
  <2> QED
    BY <1>1, <1>6
<1>8. x5 = D(6)
  <2> HIDE DEF x4
  <2> QED
    BY <1>1, <1>7
<1>9. x6 = D(7)
  <2> HIDE DEF x5
  <2> QED
    BY <1>1, <1>8
<1>10. x7 = D(8)
  <2> HIDE DEF x6
  <2> QED
    BY <1>1, <1>9
<1>11. WideBytes(n) = <<Low(x7), Low(x6), Low(x5), Low(x4), Low(x3), Low(x2), Low(x1), Low(n)>>
  BY DEF WideBytes
<1>12. <<Low(Shift(n)), Low(n)>> = <<Low(x1), Low(n)>>
  OBVIOUS
<1> HIDE DEF x1, x2, x3, x4, x5, x6, x7
<1>13. <<Low(x1), Low(n)>> = Digits(n, 2)
  <2>1. Digits(n, 2) = [i \in 1..2 |-> Low(D(2 - i + 1))]
    BY <1>3
  <2> QED
    BY <2>1, <1>2, <1>4
<1>14. WideBytes(n) = Digits(n, 8)
  <2>1. Digits(n, 8) = [i \in 1..8 |-> Low(D(8 - i + 1))]
    BY <1>3
  <2> QED
    BY <2>1, <1>2, <1>4, <1>5, <1>6, <1>7, <1>8, <1>9, <1>10, <1>11
<1> QED
  BY <1>12, <1>13, <1>14

(* What encodeFrame writes is the length field RFC 6455 asks for. *)
LEMMA EncodesLengthField ==
  ASSUME NEW n \in Nat
  PROVE  /\ encodeFrame(n).len7 = LengthField(n).len7
         /\ encodeFrame(n).ext = LengthField(n).ext
<1>1. n <= Max16 <=> n < Base * Base
  BY CodecAssumption DEF Max16
<1>2. CASE n <= Max7
  BY <1>2 DEF encodeFrame, LengthField
<1>3. CASE ~(n <= Max7) /\ n <= Max16
  BY <1>1, <1>3, ShiftsAreDigits DEF encodeFrame, LengthField
<1>4. CASE ~(n <= Max7) /\ ~(n <= Max16)
  BY <1>1, <1>4, ShiftsAreDigits DEF encodeFrame, LengthField
<1> QED
  BY <1>2, <1>3, <1>4

(* The message just sent is one encodeFrame made. *)
ReplyEncoded == \E n \in Nat : reply = <<n, encodeFrame(n)>>

LEMMA ReplyEncodedStep ==
  ASSUME ReplyEncoded, [Next]_vars
  PROVE  ReplyEncoded'
<1>1. reply' = reply \/ reply' = NoReply \/ \E n \in Nat : reply' = <<n, encodeFrame(n)>>
  BY DEF Next, vars, ReceiveRequest, Upgrade, Refuse, Receive, TextFrame, CloseFrame, StopParsing
<1>2. \E n \in Nat : NoReply = <<n, encodeFrame(n)>>
  BY DEF NoReply
<1> QED
  BY <1>1, <1>2 DEF ReplyEncoded

(* For every size of a byte and every length, what the server writes in    *)
(* front of a message is the length field, in the shortest form, that a    *)
(* client reads back (WebSocketHandler.cpp:155-184).                       *)
THEOREM RepliesAreReadBack == Spec => []RepliesReadBack
<1>1. Init => ReplyEncoded
  BY DEF Init, NoReply, ReplyEncoded
<1>2. ReplyEncoded => RepliesReadBack
  <2> SUFFICES ASSUME NEW n \in Nat, reply = <<n, encodeFrame(n)>> PROVE RepliesReadBack
    BY DEF ReplyEncoded
  <2> QED
    BY EncodesLengthField DEF RepliesReadBack
<1> QED
  BY <1>1, <1>2, ReplyEncodedStep, PTL DEF Spec

-----------------------------------------------------------------------------
(* The request. *)

AnswerKinds == {"101", "file", "400"}

(* What Refuse and Upgrade rely on.  Until the handshake is complete every *)
(* answer but 101 has closed the connection, so that a second answer is    *)
(* dropped.                                                                *)
RequestInv ==
  /\ request \in {"upgrade", "file", "other"}
  /\ reqLeft \in 0..ReqLen
  /\ answers \in Seq(AnswerKinds) /\ Len(answers) <= 1
  /\ answers # <<>> /\ answers[1] # "101" => shut
  /\ answers = <<>> => ~shut /\ phase = "http"
  /\ phase = "http" /\ answers # <<>> => shut

LEMMA RequestInit ==
  Init => RequestInv
<1>1. <<>> \in Seq(AnswerKinds) /\ Len(<<>>) = 0
  OBVIOUS
<1> QED
  BY <1>1, RequestAssumption DEF Init, RequestInv

(* An answer is the only one, or it is dropped. *)
LEMMA AnswerOnce ==
  ASSUME RequestInv, phase = "http", NEW a \in AnswerKinds, Answer(a)
  PROVE  /\ answers' \in Seq(AnswerKinds) /\ Len(answers') = 1 /\ answers' # <<>>
         /\ answers'[1] # "101" => shut'
         /\ a # "101" => shut'
<1>1. CASE answers = <<>>
  <2>1. ~shut
    BY <1>1 DEF RequestInv
  <2>2. answers' = Append(answers, a) /\ (shut' <=> a # "101")
    BY <2>1 DEF Answer
  <2>3. answers' = <<a>>
    BY <1>1, <2>2
  <2> QED
    BY <2>2, <2>3
<1>2. CASE answers # <<>>
  <2>1. shut
    BY <1>2 DEF RequestInv
  <2>2. answers' = answers /\ shut'
    BY <2>1 DEF Answer
  <2>3. answers \in Seq(AnswerKinds) /\ Len(answers) = 1
    <3>1. answers \in Seq(AnswerKinds) /\ Len(answers) <= 1
      BY DEF RequestInv
    <3>2. Len(answers) \in Nat /\ Len(answers) # 0
      BY <1>2, <3>1, EmptySeq, LenProperties
    <3>3. \A n \in Nat : n <= 1 /\ n # 0 => n = 1
      OBVIOUS
    <3> QED
      BY <3>1, <3>2, <3>3, Zenon
  <2> QED
    BY <1>2, <2>2, <2>3
<1> QED
  BY <1>1, <1>2

LEMMA RequestStep ==
  ASSUME RequestInv, [Next]_vars
  PROVE  RequestInv'
<1> USE RequestAssumption
<1>1. ASSUME NEW n \in 1..ReqLen, ReceiveRequest(n) PROVE RequestInv'
  BY <1>1 DEF ReceiveRequest, RequestInv
<1>2. CASE Upgrade
  <2>1. /\ phase' \in {"ws", "garbled"} /\ reading' = FALSE
        /\ UNCHANGED <<request, reqLeft>> /\ Answer("101") /\ phase = "http"
    BY <1>2 DEF Upgrade
  <2>2. "101" \in AnswerKinds
    BY DEF AnswerKinds
  <2>3. /\ answers' \in Seq(AnswerKinds) /\ Len(answers') = 1 /\ answers' # <<>>
        /\ answers'[1] # "101" => shut'
    BY <2>1, <2>2, AnswerOnce
  <2> QED
    BY <2>1, <2>3 DEF RequestInv
<1>3. CASE Refuse
  <2>1. /\ phase' = "http" /\ reading' = FALSE /\ phase = "http"
        /\ UNCHANGED <<request, reqLeft>>
    BY <1>3 DEF Refuse
  <2>2. PICK a \in AnswerKinds : a # "101" /\ Answer(a)
    BY <1>3 DEF Refuse, AnswerKinds
  <2>3. /\ answers' \in Seq(AnswerKinds) /\ Len(answers') = 1 /\ answers' # <<>>
        /\ answers'[1] # "101" => shut'
        /\ shut'
    BY <2>1, <2>2, AnswerOnce
  <2> QED
    BY <2>1, <2>3 DEF RequestInv
<1>4. ASSUME NEW n \in Nat, Receive(n) PROVE RequestInv'
  BY <1>4 DEF Receive, RequestInv
<1>5. CASE TextFrame
  BY <1>5 DEF TextFrame, RequestInv
<1>6. CASE CloseFrame
  BY <1>6 DEF CloseFrame, RequestInv
<1>7. CASE StopParsing
  BY <1>7 DEF StopParsing, RequestInv
<1>8. CASE UNCHANGED vars
  BY <1>8 DEF vars, RequestInv
<1> QED
  BY <1>1, <1>2, <1>3, <1>4, <1>5, <1>6, <1>7, <1>8 DEF Next

(* However the request is cut into reads, the client gets at most one      *)
(* answer, and is disconnected unless it is 101 (ChatServer.cpp:56-150,    *)
(* TcpConnection.cpp:214-221).                                             *)
THEOREM OneAnswer == Spec => []AnsweredOnce
<1>1. RequestInv => AnsweredOnce
  BY DEF RequestInv, AnsweredOnce
<1> QED
  BY <1>1, RequestInit, RequestStep, PTL DEF Spec

-----------------------------------------------------------------------------
(* Where frames end.  The provers cannot apply a theorem of the library    *)
(* that takes a predicate, so induction is over a set of numbers.          *)

(* A nonempty set of numbers has a least one. *)
LEMMA LeastNumber ==
  ASSUME NEW T, T \subseteq Nat, T # {}
  PROVE  \E x \in T : \A y \in T : x <= y
<1>1. PICK R : /\ IsWellFoundedOn(R, Nat)
               /\ \A x, y \in Nat : <<y, x>> \in R <=> y < x
  <2>1. \A x, y \in Nat : <<y, x>> \in OpToRel(<, Nat) <=> y < x
    BY DEF OpToRel
  <2> QED
    BY <2>1, NatLessThanWellFounded
<1>2. PICK x \in T : \A y \in T : ~ (<<y, x>> \in R)
  BY <1>1, WFMin
<1>3. ASSUME NEW y \in T PROVE x <= y
  <2>1. x \in Nat /\ y \in Nat
    OBVIOUS
  <2>2. ~(y < x)
    BY <1>1, <1>2, <2>1
  <2> QED
    BY <2>1, <2>2
<1> QED
  BY <1>3

(* Induction: for the numbers up to n, with a set for the property. *)
LEMMA SetInduction ==
  ASSUME NEW n \in Nat, NEW S, 0 \in S, \A k \in 1..n : k - 1 \in S => k \in S
  PROVE  0..n \subseteq S
<1> DEFINE T == (0..n) \ S
<1> SUFFICES ASSUME T # {} PROVE FALSE
  OBVIOUS
<1>1. PICK x \in T : \A y \in T : x <= y
  <2>1. T \subseteq Nat /\ T # {}
    OBVIOUS
  <2> HIDE DEF T
  <2> QED
    BY <2>1, LeastNumber
<1>2. x # 0 /\ x \in 1..n /\ x - 1 \in 0..n
  BY <1>1
<1>3. x - 1 \in S
  <2> SUFFICES ASSUME x - 1 \in T PROVE FALSE
    BY <1>2
  <2> QED
    BY <1>1, <1>2
<1> QED
  BY <1>2, <1>3

(* Sums of the first k numbers of a sequence exist: a recursive definition *)
(* of them has a solution.                                                 *)
LEMMA SumsExist ==
  ASSUME NEW n \in Nat, NEW s \in [1..n -> Nat]
  PROVE  \E u \in [0..n -> Nat] :
           u = [k \in 0..n |-> IF k = 0 THEN 0 ELSE u[k - 1] + s[k]]
<1> DEFINE Sums(u, m) == \A k \in 0..m : u[k] = IF k = 0 THEN 0 ELSE u[k - 1] + s[k]
           S == {m \in 0..n : \E u \in [0..m -> Nat] : Sums(u, m)}
<1>1. 0 \in S
  <2> DEFINE u == [k \in 0..0 |-> 0]
  <2>1. u \in [0..0 -> Nat] /\ Sums(u, 0)
    OBVIOUS
  <2> HIDE DEF u, Sums
  <2> QED
    BY <2>1
<1>2. ASSUME NEW m \in 1..n, m - 1 \in S PROVE m \in S
  <2>1. PICK v \in [0..m - 1 -> Nat] : Sums(v, m - 1)
    BY <1>2
  <2> DEFINE u == [k \in 0..m |-> IF k = m THEN v[m - 1] + s[m] ELSE v[k]]
  <2>a. m \in 1..n /\ m - 1 \in 0..m - 1 /\ s[m] \in Nat /\ v[m - 1] \in Nat
    <3>1. m - 1 \in 0..m - 1 /\ s[m] \in Nat
      OBVIOUS
    <3> QED
      BY <3>1
  <2>b. \A k \in 0..m : k # m => k \in 0..m - 1
    OBVIOUS
  <2>c. u[m] = v[m - 1] + s[m] /\ u[m] \in Nat
    <3>1. m \in 0..m
      OBVIOUS
    <3> QED
      BY <2>a, <3>1
  <2>d. \A k \in 0..m - 1 : u[k] = v[k] /\ v[k] \in Nat
    OBVIOUS
  <2>2. u \in [0..m -> Nat]
    <3>1. \A k \in 0..m : u[k] \in Nat
      <4> HIDE DEF u
      <4> QED
        BY <2>b, <2>c, <2>d
    <3>2. u = [k \in 0..m |-> u[k]]
      OBVIOUS
    <3> HIDE DEF u
    <3> QED
      BY <3>1, <3>2
  <2>3. ASSUME NEW k \in 0..m PROVE u[k] = IF k = 0 THEN 0 ELSE u[k - 1] + s[k]
    <3> HIDE DEF u
    <3>1. CASE k = m
      <4>1. k # 0 /\ u[k - 1] = v[m - 1]
        BY <2>a, <2>d, <3>1
      <4> QED
        BY <2>c, <3>1, <4>1
    <3>2. CASE k # m
      <4>1. k \in 0..m - 1 /\ u[k] = v[k]
        BY <2>b, <2>d, <3>2
      <4>2. v[k] = IF k = 0 THEN 0 ELSE v[k - 1] + s[k]
        BY <2>1, <4>1
      <4>3. k # 0 => u[k - 1] = v[k - 1]
        <5>1. k # 0 => k - 1 \in 0..m - 1
          BY <4>1
        <5> QED
          BY <2>d, <5>1
      <4> QED
        BY <4>1, <4>2, <4>3
    <3> QED
      BY <3>1, <3>2
  <2>4. Sums(u, m)
    BY <2>3
  <2> HIDE DEF u, Sums
  <2> QED
    BY <2>2, <2>4
<1>3. n \in S
  <2> HIDE DEF S
  <2>1. \A k \in 1..n : k - 1 \in S => k \in S
    BY <1>2
  <2>2. 0..n \subseteq S
    BY <1>1, <2>1, SetInduction
  <2> QED
    BY <2>2
<1>4. PICK u \in [0..n -> Nat] : Sums(u, n)
  BY <1>3
<1>5. u = [k \in 0..n |-> u[k]]
  OBVIOUS
<1>6. u = [k \in 0..n |-> IF k = 0 THEN 0 ELSE u[k - 1] + s[k]]
  BY <1>4, <1>5
<1> QED
  BY <1>6

(* Ends is what its recursive definition says. *)
LEMMA EndsUnfold ==
  ASSUME NEW fs, Len(fs) \in Nat, \A k \in 1..Len(fs) : Size(fs[k]) \in Nat
  PROVE  Ends(fs) = [k \in 0..Len(fs) |-> IF k = 0 THEN 0 ELSE Ends(fs)[k - 1] + Size(fs[k])]
<1> DEFINE n == Len(fs)
           s == [k \in 1..n |-> Size(fs[k])]
<1>1. s \in [1..n -> Nat]
  OBVIOUS
<1>2. PICK u \in [0..n -> Nat] :
           u = [k \in 0..n |-> IF k = 0 THEN 0 ELSE u[k - 1] + s[k]]
  BY <1>1, SumsExist
<1>3. \A k \in 0..n : k # 0 => s[k] = Size(fs[k])
  OBVIOUS
<1>4. u = [k \in 0..n |-> IF k = 0 THEN 0 ELSE u[k - 1] + Size(fs[k])]
  BY <1>2, <1>3
<1> DEFINE D(w) == w = [k \in 0..n |-> IF k = 0 THEN 0 ELSE w[k - 1] + Size(fs[k])]
<1>5. Ends(fs) = CHOOSE w : D(w)
  BY DEF Ends
<1>6. \E w : D(w)
  BY <1>4
<1>7. D(CHOOSE w : D(w))
  <2> HIDE DEF D
  <2> QED
    BY <1>6
<1> QED
  BY <1>5, <1>7

(* A frame of the client: parseFrame computes the length it really has. *)
LEMMA FrameFacts ==
  ASSUME NEW f \in Frames
  PROVE  /\ Size(f) \in Nat /\ Size(f) >= 2
         /\ HeaderLen(f) \in Nat /\ HeaderLen(f) >= 2 + ExtLen(f) /\ ExtLen(f) \in Nat
         /\ FrameLen(f) = Size(f) /\ PayloadLen(f) = f.len /\ HeaderLen(f) + f.len = Size(f)
         /\ f.len \in Nat
<1>1. PICK op \in Opcodes, fin \in Fins, masked \in Masks, len \in 0..MaxPayload :
         f = Frame(op, fin, masked, len)
  BY DEF Frames
<1>2. len \in Nat /\ Fits(len) /\ len + 14 < SizeMod /\ masked \in BOOLEAN
  BY FrameAssumption, CodecAssumption
<1> DEFINE h == encodeFrame(len)
<1>3. /\ f.len = len /\ f.masked = masked
      /\ f.len7 = h.len7 /\ f.ext = h.ext
  BY <1>1, <1>2, EncodesLengthField DEF Frame
<1>4. PayloadLen(h) = len
  BY <1>2, EncodedLength
<1>5. PayloadLen(f) = len
  BY <1>3, <1>4 DEF PayloadLen
<1>6. ExtLen(f) = Len(f.ext) /\ ExtLen(f) \in 0..8
  <2>1. CASE len <= Max7
    BY <1>2, <1>3, <2>1, CodecAssumption DEF encodeFrame, ExtLen
  <2>2. CASE ~(len <= Max7) /\ len <= Max16
    BY <1>2, <1>3, <2>2, CodecAssumption DEF encodeFrame, ExtLen
  <2>3. CASE ~(len <= Max7) /\ ~(len <= Max16)
    <3>1. h.len7 = Max7 + 2 /\ h.ext = WideBytes(len)
      BY <2>3 DEF encodeFrame
    <3>2. Len(WideBytes(len)) = 8
      BY DEF WideBytes
    <3> QED
      BY <1>3, <3>1, <3>2, CodecAssumption DEF ExtLen
  <2> QED
    BY <2>1, <2>2, <2>3
<1>7. MaskLen(f) \in 0..4 /\ MaskLen(f) = IF f.masked THEN 4 ELSE 0
  BY DEF MaskLen
<1>8. Size(f) = 2 + ExtLen(f) + MaskLen(f) + len
  BY <1>3, <1>6, <1>7 DEF Size
<1>9. HeaderLen(f) = 2 + ExtLen(f) + MaskLen(f)
  BY DEF HeaderLen
<1>10. /\ HeaderLen(f) \in Nat /\ HeaderLen(f) >= 2 + ExtLen(f) /\ Size(f) \in Nat
       /\ Size(f) >= 2 /\ HeaderLen(f) + len = Size(f) /\ Size(f) < SizeMod
  <2>1. ExtLen(f) \in 0..8 /\ MaskLen(f) \in 0..4 /\ len \in Nat /\ len + 14 < SizeMod /\ SizeMod \in Nat
    BY <1>2, <1>6, <1>7, CodecAssumption
  <2> QED
    BY <1>8, <1>9, <2>1
<1>11. FrameLen(f) = Size(f)
  BY <1>5, <1>10 DEF FrameLen
<1>12. ExtLen(f) \in Nat /\ f.len = len /\ len \in Nat
  BY <1>2, <1>3, <1>6
<1> QED
  BY <1>5, <1>10, <1>11, <1>12

(* The first k frames end where the first k - 1 end and one frame more,    *)
(* so that the ends are in order.                                          *)
LEMMA EndsFacts ==
  ASSUME NEW fs \in Seq(Frames)
  PROVE  /\ Ends(fs)[0] = 0
         /\ \A k \in 0..Len(fs) : Ends(fs)[k] \in Nat
         /\ \A k \in 1..Len(fs) : Ends(fs)[k] = Ends(fs)[k - 1] + Size(fs[k])
         /\ \A i, j \in 0..Len(fs) : i <= j => Ends(fs)[i] <= Ends(fs)[j]
<1> DEFINE n == Len(fs)
           e == Ends(fs)
<1>1. n \in Nat /\ \A k \in 1..n : fs[k] \in Frames
  OBVIOUS
<1>2. \A k \in 1..n : Size(fs[k]) \in Nat
  BY <1>1, FrameFacts
<1>3. e = [k \in 0..n |-> IF k = 0 THEN 0 ELSE e[k - 1] + Size(fs[k])]
  BY <1>1, <1>2, EndsUnfold
<1> HIDE DEF n, e
<1>4. e[0] = 0
  BY <1>1, <1>3
<1>5. \A k \in 1..n : e[k] = e[k - 1] + Size(fs[k])
  BY <1>1, <1>3
<1>6. \A k \in 0..n : e[k] \in Nat
  <2> DEFINE S == {k \in 0..n : e[k] \in Nat}
  <2>1. 0 \in S
    BY <1>1, <1>4
  <2>2. \A k \in 1..n : k - 1 \in S => k \in S
    BY <1>1, <1>2, <1>5
  <2> HIDE DEF S
  <2>3. 0..n \subseteq S
    BY <1>1, <2>1, <2>2, SetInduction
  <2> QED
    BY <2>3 DEF S
<1>7. ASSUME NEW i \in 0..n PROVE \A j \in 0..n : i <= j => e[i] <= e[j]
  <2> DEFINE S == {j \in 0..n : i <= j => e[i] <= e[j]}
  <2>1. 0 \in S
    BY <1>1, <1>6
  <2>2. \A k \in 1..n : k - 1 \in S => k \in S
    BY <1>1, <1>2, <1>5, <1>6
  <2> HIDE DEF S
  <2>3. 0..n \subseteq S
    BY <1>1, <2>1, <2>2, SetInduction
  <2> QED
    BY <2>3 DEF S
<1> QED
  BY <1>4, <1>5, <1>6, <1>7 DEF n, e

-----------------------------------------------------------------------------
(* The frames. *)

(* What is handled at every step of the loop of onMessage, and why the     *)
(* loop stopped where it did.                                              *)
Numbers(h) == {x[1] : x \in ToSet(h)}

NotAccepted == next > Len(frames) \/ ~Accepted(next) \/ received < Upto(next)

FlowInv ==
  /\ phase = "http" => received = 0 /\ next = 1 /\ handled = <<>>
  /\ \A i \in 1..next - 1 : Accepted(i)
  /\ Numbers(handled) = {i \in 1..next - 1 : frames[i].len > 0}
  /\ \A j, k \in 1..Len(handled) : j < k => handled[j][1] < handled[k][1]
  /\ \A x \in ToSet(handled) : frames[x[1]].masked => x[2]
  /\ phase = "ws" /\ ~reading => NotAccepted

FrameInv == TypeOK /\ RequestInv /\ FlowInv

(* No step changes what the client is going to send. *)
LEMMA ClientSame ==
  ASSUME [Next]_vars
  PROVE  request' = request /\ frames' = frames
  BY DEF Next, vars, ReceiveRequest, Upgrade, Refuse, Receive, TextFrame, CloseFrame, StopParsing

(* The frame at the front of the buffer. *)
LEMMA FrontFrame ==
  ASSUME TypeOK, next <= Len(frames)
  PROVE  /\ frames[next] \in Frames
         /\ Upto(next) = Upto(next - 1) + Size(frames[next])
         /\ Upto(next - 1) \in Nat /\ Upto(next) \in Nat
         /\ Size(frames[next]) \in Nat /\ Size(frames[next]) >= 2
         /\ FrameLen(frames[next]) = Size(frames[next])
<1>1. frames \in Seq(Frames) /\ next \in 1..Len(frames) /\ Len(frames) \in Nat
  BY DEF TypeOK
<1>2. frames[next] \in Frames
  BY <1>1
<1>3. next - 1 \in 0..Len(frames) /\ next \in 0..Len(frames)
  BY <1>1
<1>4. /\ Size(frames[next]) \in Nat /\ Size(frames[next]) >= 2
      /\ FrameLen(frames[next]) = Size(frames[next])
  BY <1>2, FrameFacts
<1>5. /\ Ends(frames)[next] = Ends(frames)[next - 1] + Size(frames[next])
      /\ Ends(frames)[next - 1] \in Nat /\ Ends(frames)[next] \in Nat
  BY <1>1, <1>3, EndsFacts
<1> QED
  BY <1>2, <1>4, <1>5 DEF Upto

(* parseFrame accepts a text or close frame that is finished and there. *)
LEMMA ParsedFrame ==
  ASSUME TypeOK, phase = "ws"
  PROVE  /\ Parsed => /\ next <= Len(frames) /\ frames[next].fin /\ frames[next].op \in {"text", "close"}
                      /\ buffered >= Size(frames[next])
         /\ ~Parsed => NotAccepted
<1>1. buffered \in Nat /\ received \in Nat /\ next \in 1..Len(frames) + 1 /\ Len(frames) \in Nat
  BY DEF TypeOK
<1>2. Parsed => /\ next <= Len(frames) /\ frames[next].fin /\ frames[next].op \in {"text", "close"}
                /\ buffered >= Size(frames[next])
  <2> SUFFICES ASSUME Parsed
               PROVE  /\ next <= Len(frames) /\ frames[next].fin
                      /\ frames[next].op \in {"text", "close"}
                      /\ buffered >= Size(frames[next])
    OBVIOUS
  <2>1. next <= Len(frames) /\ parseFrame(frames[next], buffered)
    BY DEF Parsed
  <2>2. FrameLen(frames[next]) = Size(frames[next])
    BY <2>1, FrontFrame
  <2> QED
    BY <2>1, <2>2 DEF parseFrame
<1>3. ASSUME ~Parsed, next <= Len(frames), Accepted(next) PROVE received < Upto(next)
  <2> DEFINE f == frames[next]
  <2>1. f \in Frames /\ f.op = "text" /\ f.fin
    BY <1>3, FrontFrame DEF Accepted
  <2>2. buffered < Size(f)
    <3> SUFFICES ASSUME buffered >= Size(f) PROVE FALSE
      BY <1>1, <1>3, FrontFrame
    <3>1. /\ Size(f) \in Nat /\ Size(f) >= 2 /\ HeaderLen(f) \in Nat /\ f.len \in Nat
          /\ HeaderLen(f) >= 2 + ExtLen(f) /\ ExtLen(f) \in Nat
          /\ FrameLen(f) = Size(f) /\ HeaderLen(f) + f.len = Size(f)
      BY <2>1, FrameFacts
    <3> HIDE DEF f
    <3>2. buffered >= HeaderLen(f) /\ buffered >= 2 + ExtLen(f) /\ buffered >= 2 /\ buffered > 0
      BY <1>1, <3>1
    <3>3. parseFrame(f, buffered)
      BY <2>1, <3>1, <3>2 DEF parseFrame
    <3> QED
      BY <1>3, <3>2, <3>3 DEF Parsed, f
  <2>3. Upto(next - 1) + buffered = received
    BY DEF TypeOK
  <2>4. Upto(next) = Upto(next - 1) + Size(f) /\ Upto(next - 1) \in Nat /\ Size(f) \in Nat
    BY <1>3, FrontFrame
  <2> HIDE DEF f
  <2> QED
    BY <1>1, <2>2, <2>3, <2>4
<1> QED
  BY <1>1, <1>2, <1>3 DEF NotAccepted

(* The state stays well formed: retrieve takes exactly one frame. *)
LEMMA TypeStep ==
  ASSUME FrameInv, [Next]_vars
  PROVE  TypeOK'
<1> DEFINE Basic ==
      /\ reqLeft \in 0..ReqLen /\ received \in Nat /\ buffered \in Nat
      /\ next \in 1..Len(frames) + 1
      /\ phase \in {"http", "ws", "garbled"}
      /\ reply[1] \in 0..MaxReply
      /\ phase = "ws" => Upto(next - 1) + buffered = received
    Switches == reading \in BOOLEAN /\ shut \in BOOLEAN /\ handled \in Seq(Nat \X BOOLEAN)
<1>1. request' = request /\ frames' = frames
  BY ClientSame
<1>2. \A k : Upto(k)' = Upto(k)
  BY <1>1 DEF Upto
<1>3. Basic /\ frames \in Seq(Frames) /\ Len(frames) \in Nat
  BY DEF FrameInv, TypeOK
<1>4. Switches
  BY DEF FrameInv, TypeOK
<1>5. RequestInv'
  BY RequestStep DEF FrameInv
<1>6. Switches'
  <2>1. reading' \in BOOLEAN
    BY <1>4 DEF Next, vars, ReceiveRequest, Upgrade, Refuse, Receive, TextFrame, CloseFrame, StopParsing
  <2>2. shut' \in BOOLEAN
    BY <1>4 DEF Next, vars, ReceiveRequest, Upgrade, Refuse, Receive, TextFrame, CloseFrame, StopParsing,
                Answer
  <2>3. \/ handled' = handled
        \/ \E b \in BOOLEAN : handled' = Append(handled, <<next, b>>)
    BY DEF Next, vars, ReceiveRequest, Upgrade, Refuse, Receive, TextFrame, CloseFrame, StopParsing,
           Unmasked
  <2>4. next \in Nat
    BY <1>3
  <2>5. handled' \in Seq(Nat \X BOOLEAN)
    <3>1. ASSUME NEW b \in BOOLEAN PROVE Append(handled, <<next, b>>) \in Seq(Nat \X BOOLEAN)
      <4>1. <<next, b>> \in Nat \X BOOLEAN
        BY <2>4
      <4> QED
        BY <1>4, <4>1, AppendProperties
    <3> QED
      BY <1>4, <2>3, <3>1
  <2> QED
    BY <2>1, <2>2, <2>5
<1>7. Basic'
  <2> USE RequestAssumption, FrameAssumption
  <2>1. ASSUME NEW n \in 1..ReqLen, ReceiveRequest(n) PROVE Basic'
    BY <1>1, <1>2, <1>3, <2>1 DEF ReceiveRequest
  <2>2. CASE Upgrade
    <3>1. received = 0 /\ next = 1 /\ received' = 0 /\ next' = 1 /\ buffered' = 0
      BY <2>2 DEF Upgrade, FrameInv, FlowInv
    <3>2. Upto(0) = 0
      BY <1>3, EndsFacts DEF Upto
    <3> QED
      BY <1>1, <1>2, <1>3, <2>2, <3>1, <3>2 DEF Upgrade
  <2>3. CASE Refuse
    BY <1>1, <1>2, <1>3, <2>3 DEF Refuse
  <2>4. ASSUME NEW n \in Nat, Receive(n) PROVE Basic'
    <3>1. next - 1 \in 0..Len(frames)
      BY <1>3
    <3>2. Upto(next - 1) \in Nat
      BY <1>3, <3>1, EndsFacts DEF Upto
    <3>3. /\ phase = "ws" /\ received' = received + n /\ buffered' = buffered + n
          /\ UNCHANGED <<reqLeft, next, phase, reply>>
      BY <2>4 DEF Receive
    <3>4. Upto(next - 1) + buffered' = received' /\ received' \in Nat /\ buffered' \in Nat
      BY <1>3, <3>2, <3>3
    <3> QED
      BY <1>1, <1>2, <1>3, <3>3, <3>4
  <2>5. CASE TextFrame
    <3>1. /\ phase = "ws" /\ Parsed /\ next' = next + 1 /\ buffered' = buffered - FrameLen(frames[next])
          /\ UNCHANGED <<reqLeft, received, phase>>
      BY <2>5 DEF TextFrame, Retrieve
    <3>2. reply'[1] \in 0..MaxReply
      BY <1>3, <2>5 DEF TextFrame
    <3>3. next <= Len(frames) /\ buffered >= Size(frames[next])
      BY <3>1, ParsedFrame DEF FrameInv
    <3>4. /\ Upto(next) = Upto(next - 1) + Size(frames[next])
          /\ Upto(next - 1) \in Nat /\ Upto(next) \in Nat
          /\ Size(frames[next]) \in Nat /\ FrameLen(frames[next]) = Size(frames[next])
      BY <3>3, FrontFrame DEF FrameInv
    <3>a. buffered \in Nat /\ received \in Nat /\ Upto(next - 1) + buffered = received
      BY <1>3, <3>1
    <3>b. buffered' = buffered - Size(frames[next])
      BY <3>1, <3>4
    <3>5. buffered' \in Nat /\ Upto(next) + buffered' = received
      BY <3>3, <3>4, <3>a, <3>b
    <3>6. next' \in 1..Len(frames) + 1 /\ next' - 1 = next
      BY <1>3, <3>1, <3>3
    <3> QED
      BY <1>1, <1>2, <1>3, <3>1, <3>2, <3>5, <3>6
  <2>6. CASE CloseFrame
    BY <1>1, <1>2, <1>3, <2>6 DEF CloseFrame
  <2>7. CASE StopParsing
    BY <1>1, <1>2, <1>3, <2>7 DEF StopParsing, NoReply
  <2>8. CASE UNCHANGED vars
    BY <1>1, <1>2, <1>3, <2>8 DEF vars
  <2>9. ASSUME NEW n \in 1..Upto(Len(frames)), Receive(n) PROVE Basic'
    BY <2>4, <2>9
  <2> QED
    BY <2>1, <2>2, <2>3, <2>5, <2>6, <2>7, <2>8, <2>9 DEF Next
<1>8. /\ request' \in {"upgrade", "file", "other"} /\ answers' \in Seq({"101", "file", "400"})
      /\ frames' \in Seq(Frames) /\ Len(frames') <= MaxFrames
  BY <1>1, <1>5 DEF RequestInv, AnswerKinds, FrameInv, TypeOK
<1> QED
  BY <1>6, <1>7, <1>8 DEF TypeOK

(* One more frame is handled. *)
LEMMA HandledOne ==
  ASSUME NEW h \in Seq(Nat \X BOOLEAN), NEW n \in Nat, NEW b \in BOOLEAN
  PROVE  LET g == Append(h, <<n, b>>) IN
         /\ Len(h) \in Nat /\ Len(g) = Len(h) + 1
         /\ g[Len(h) + 1] = <<n, b>> /\ \A i \in 1..Len(h) : g[i] = h[i]
         /\ ToSet(g) = ToSet(h) \cup {<<n, b>>}
         /\ Numbers(g) = Numbers(h) \cup {n}
<1> DEFINE g == Append(h, <<n, b>>)
<1>1. <<n, b>> \in Nat \X BOOLEAN
  OBVIOUS
<1>2. /\ Len(h) \in Nat /\ Len(g) = Len(h) + 1
      /\ g[Len(h) + 1] = <<n, b>> /\ \A i \in 1..Len(h) : g[i] = h[i]
      /\ DOMAIN g = 1..Len(h) + 1 /\ DOMAIN h = 1..Len(h)
  BY <1>1, AppendProperties
<1> HIDE DEF g
<1>3. ToSet(g) = ToSet(h) \cup {<<n, b>>}
  <2>1. \A i \in 1..Len(h) + 1 : i \in 1..Len(h) \/ i = Len(h) + 1
    BY <1>2
  <2>2. \A i \in 1..Len(h) : i \in 1..Len(h) + 1
    BY <1>2
  <2>3. Len(h) + 1 \in 1..Len(h) + 1
    BY <1>2
  <2>4. ToSet(g) \subseteq ToSet(h) \cup {<<n, b>>}
    BY <1>2, <2>1 DEF ToSet
  <2>5. ToSet(h) \subseteq ToSet(g)
    BY <1>2, <2>2 DEF ToSet
  <2>6. <<n, b>> \in ToSet(g)
    BY <1>2, <2>3 DEF ToSet
  <2> QED
    BY <2>4, <2>5, <2>6
<1>4. Numbers(g) = Numbers(h) \cup {n}
  <2>1. <<n, b>>[1] = n
    OBVIOUS
  <2> QED
    BY <1>3, <2>1 DEF Numbers
<1> QED
  BY <1>2, <1>3, <1>4 DEF g

(* Numbers that were handled are numbers of frames that were passed. *)
LEMMA FlowStep ==
  ASSUME FrameInv, [Next]_vars
  PROVE  FlowInv'
<1> DEFINE Passed ==
      /\ \A i \in 1..next - 1 : Accepted(i)
      /\ Numbers(handled) = {i \in 1..next - 1 : frames[i].len > 0}
      /\ \A j, k \in 1..Len(handled) : j < k => handled[j][1] < handled[k][1]
      /\ \A x \in ToSet(handled) : frames[x[1]].masked => x[2]
    Ahead == phase = "http" => received = 0 /\ next = 1 /\ handled = <<>>
<1>1. request' = request /\ frames' = frames
  BY ClientSame
<1>2. (\A k : Upto(k)' = Upto(k)) /\ (\A k : Accepted(k)' = Accepted(k))
  BY <1>1 DEF Upto, Accepted
<1>3. TypeOK /\ RequestInv /\ Passed /\ Ahead
  BY DEF FrameInv, FlowInv
<1>4. frames \in Seq(Frames) /\ Len(frames) \in Nat /\ next \in 1..Len(frames) + 1 /\ received \in Nat
  BY <1>3 DEF TypeOK
<1>5. ASSUME UNCHANGED <<next, handled>> PROVE Passed'
  BY <1>1, <1>2, <1>3, <1>5
<1> HIDE DEF Passed
<1>6. ASSUME NEW n \in Nat, ReceiveRequest(n) PROVE FlowInv'
  <2>1. Passed'
    BY <1>5, <1>6 DEF ReceiveRequest
  <2> QED
    BY <1>3, <1>6, <2>1 DEF ReceiveRequest, FlowInv, Passed
<1>7. CASE Upgrade
  <2>1. Passed'
    BY <1>5, <1>7 DEF Upgrade
  <2>2. received' = 0 /\ next' = 1 /\ phase' # "http"
    BY <1>3, <1>7 DEF Upgrade
  <2>3. ASSUME 1 <= Len(frames) PROVE 0 < Upto(1)
    <3>1. Upto(next) = Upto(next - 1) + Size(frames[next]) /\ Upto(next - 1) \in Nat
          /\ Size(frames[next]) \in Nat /\ Size(frames[next]) >= 2 /\ next = 1
      BY <1>3, <1>7, <2>3, FrontFrame DEF Upgrade
    <3> QED
      BY <3>1
  <2>4. NotAccepted'
    BY <1>1, <1>2, <1>4, <2>2, <2>3 DEF NotAccepted
  <2> QED
    BY <2>1, <2>2, <2>4 DEF FlowInv, Passed
<1>8. CASE Refuse
  <2>1. Passed'
    BY <1>5, <1>8 DEF Refuse
  <2> QED
    BY <1>3, <1>8, <2>1 DEF Refuse, FlowInv, Passed
<1>9. ASSUME NEW n \in Nat, Receive(n) PROVE FlowInv'
  <2>1. Passed'
    BY <1>5, <1>9 DEF Receive
  <2> QED
    BY <1>3, <1>9, <2>1 DEF Receive, FlowInv, Passed
<1>10. CASE TextFrame
  <2>1. /\ phase = "ws" /\ phase' = "ws" /\ reading /\ reading' = reading /\ Parsed
        /\ next' = next + 1 /\ frames[next].op = "text"
    BY <1>10 DEF TextFrame
  <2>2. next <= Len(frames) /\ frames[next].fin
    BY <1>3, <2>1, ParsedFrame
  <2>3. frames[next] \in Frames /\ PayloadLen(frames[next]) = frames[next].len /\ frames[next].len \in Nat
    BY <1>3, <2>2, FrontFrame, FrameFacts
  <2>4. \A i \in 1..next' - 1 : i \in 1..next - 1 \/ i = next
    BY <1>4, <2>1
  <2>5. \A i \in 1..next - 1 : i \in 1..next' - 1 /\ i < next
    BY <1>4, <2>1
  <2>6. next \in 1..next' - 1
    BY <1>4, <2>1
  <2>7. \A i \in 1..next' - 1 : Accepted(i)'
    BY <1>2, <1>3, <2>1, <2>2, <2>4 DEF Passed, Accepted
  <2>8. CASE frames[next].len > 0
    <3>1. PICK b \in Unmasked(frames[next]) : handled' = Append(handled, <<next, b>>)
      BY <1>10, <2>3, <2>8 DEF TextFrame
    <3>2. b \in BOOLEAN /\ (frames[next].masked => b)
      BY <3>1 DEF Unmasked
    <3>3. next \in Nat /\ handled \in Seq(Nat \X BOOLEAN)
      BY <1>3, <1>4 DEF TypeOK
    <3>4. /\ Len(handled) \in Nat /\ Len(handled') = Len(handled) + 1
          /\ handled'[Len(handled) + 1] = <<next, b>>
          /\ \A i \in 1..Len(handled) : handled'[i] = handled[i]
          /\ ToSet(handled') = ToSet(handled) \cup {<<next, b>>}
          /\ Numbers(handled') = Numbers(handled) \cup {next}
      BY <3>1, <3>2, <3>3, HandledOne
    <3>5. Numbers(handled') = {i \in 1..next' - 1 : frames[i].len > 0}
      <4>1. Numbers(handled) = {i \in 1..next - 1 : frames[i].len > 0}
        BY <1>3 DEF Passed
      <4> QED
        BY <2>4, <2>5, <2>6, <2>8, <3>4, <4>1
    <3>6. ASSUME NEW i \in 1..Len(handled) PROVE handled[i][1] < next
      <4>1. handled[i][1] \in Numbers(handled)
        <5>1. i \in DOMAIN handled
          BY <3>3
        <5> QED
          BY <5>1 DEF Numbers, ToSet
      <4>2. handled[i][1] \in 1..next - 1
        BY <1>3, <4>1 DEF Passed
      <4> QED
        BY <1>4, <4>2
    <3>7. ASSUME NEW j \in 1..Len(handled'), NEW k \in 1..Len(handled'), j < k
          PROVE  handled'[j][1] < handled'[k][1]
      <4>1. j \in 1..Len(handled) /\ handled'[j] = handled[j]
        BY <3>4, <3>7
      <4>2. CASE k = Len(handled) + 1
        <5>1. handled'[k][1] = next
          BY <3>4, <4>2
        <5> QED
          BY <3>6, <4>1, <5>1
      <4>3. CASE k \in 1..Len(handled)
        BY <1>3, <3>4, <3>7, <4>1, <4>3 DEF Passed
      <4> QED
        BY <3>4, <4>2, <4>3
    <3>8. \A x \in ToSet(handled') : frames[x[1]].masked => x[2]
      <4>1. <<next, b>>[1] = next /\ (<<next, b>>[2] <=> b)
        BY <3>2
      <4> QED
        BY <1>3, <3>2, <3>4, <4>1 DEF Passed
    <3> QED
      BY <1>1, <2>1, <2>7, <3>5, <3>7, <3>8 DEF FlowInv
  <2>9. CASE ~(frames[next].len > 0)
    <3>1. handled' = handled
      BY <1>10, <2>3, <2>9 DEF TextFrame
    <3>2. Numbers(handled) = {i \in 1..next' - 1 : frames[i].len > 0}
      <4>1. Numbers(handled) = {i \in 1..next - 1 : frames[i].len > 0}
        BY <1>3 DEF Passed
      <4> QED
        BY <2>4, <2>5, <2>9, <4>1
    <3> QED
      BY <1>1, <1>3, <2>1, <2>7, <3>1, <3>2 DEF FlowInv, Passed
  <2> QED
    BY <2>8, <2>9
<1>11. CASE CloseFrame
  <2>1. Passed'
    BY <1>5, <1>11 DEF CloseFrame
  <2>2. ~Accepted(next)
    BY <1>11 DEF CloseFrame, Accepted
  <2>3. NotAccepted'
    BY <1>2, <1>11, <2>2 DEF NotAccepted, CloseFrame
  <2> QED
    BY <1>3, <1>11, <2>1, <2>3 DEF CloseFrame, FlowInv, Passed
<1>12. CASE StopParsing
  <2>1. Passed'
    BY <1>5, <1>12 DEF StopParsing
  <2>2. NotAccepted
    BY <1>3, <1>12, ParsedFrame DEF StopParsing
  <2>3. NotAccepted'
    BY <1>1, <1>2, <1>12, <2>2 DEF NotAccepted, StopParsing
  <2> QED
    BY <1>3, <1>12, <2>1, <2>3 DEF StopParsing, FlowInv, Passed
<1>13. CASE UNCHANGED vars
  <2>1. Passed'
    BY <1>5, <1>13 DEF vars
  <2>2. NotAccepted' = NotAccepted
    BY <1>1, <1>2, <1>13 DEF NotAccepted, vars
  <2> QED
    BY <1>3, <1>13, <2>1, <2>2 DEF vars, FrameInv, FlowInv, Passed
<1>14. ASSUME NEW n \in 1..ReqLen, ReceiveRequest(n) PROVE FlowInv'
  BY <1>6, <1>14
<1>15. ASSUME NEW n \in 1..Upto(Len(frames)), Receive(n) PROVE FlowInv'
  BY <1>9, <1>15
<1> QED
  BY <1>7, <1>8, <1>10, <1>11, <1>12, <1>13, <1>14, <1>15 DEF Next

LEMMA FrameInit ==
  Init => FrameInv
<1> SUFFICES ASSUME Init PROVE FrameInv
  OBVIOUS
<1>1. frames \in Seq(Frames) /\ Len(frames) <= MaxFrames
  <2>1. CASE frames = <<>>
    <3>1. <<>> \in Seq(Frames) /\ Len(<<>>) = 0
      OBVIOUS
    <3> QED
      BY <2>1, <3>1, FrameAssumption
  <2>2. CASE frames \in BoundedSeq(Frames, MaxFrames)
    <3>1. PICK m \in 0..MaxFrames : frames \in [1..m -> Frames]
      BY <2>2 DEF BoundedSeq, SeqOf
    <3>2. m \in Nat
      BY <3>1, FrameAssumption
    <3> QED
      BY <3>1, <3>2, FrameAssumption
  <2> QED
    BY <2>1, <2>2 DEF Init
<1>2. Len(frames) \in Nat
  BY <1>1
<1>3. /\ reading \in BOOLEAN /\ shut \in BOOLEAN /\ answers \in Seq({"101", "file", "400"})
      /\ handled \in Seq(Nat \X BOOLEAN)
  <2>1. \A S : <<>> \in Seq(S)
    OBVIOUS
  <2>2. answers = <<>> /\ handled = <<>>
    BY DEF Init
  <2>3. reading \in BOOLEAN /\ shut \in BOOLEAN
    BY DEF Init
  <2> QED
    BY <2>1, <2>2, <2>3
<1>4. TypeOK
  BY <1>1, <1>2, <1>3, RequestAssumption, FrameAssumption DEF Init, TypeOK, NoReply
<1>5. FlowInv
  <2>1. ToSet(handled) = {} /\ Len(handled) = 0
    BY DEF Init, ToSet
  <2>2. Numbers(handled) = {}
    BY <2>1 DEF Numbers
  <2>3. 1..next - 1 = {}
    BY DEF Init
  <2> QED
    BY <2>1, <2>2, <2>3 DEF Init, FlowInv
<1> QED
  BY <1>4, <1>5, RequestInit DEF FrameInv

(* The invariant of the whole connection. *)
LEMMA FrameInvariant == Spec => []FrameInv
<1>1. FrameInv /\ [Next]_vars => FrameInv'
  BY TypeStep, FlowStep, RequestStep DEF FrameInv
<1> QED
  BY <1>1, FrameInit, PTL DEF Spec

(* However the bytes are cut into reads, the buffer begins at the boundary *)
(* of a frame and holds what was received and not consumed: retrieve takes *)
(* exactly one frame, for every size of a byte and every sequence of       *)
(* frames (ChatServer.cpp:153-179).                                        *)
THEOREM StaysAtBoundary == Spec => []TypeOK
<1>1. FrameInv => TypeOK
  BY DEF FrameInv
<1> QED
  BY <1>1, FrameInvariant, PTL

(* However the bytes are cut into reads, between two reads exactly the     *)
(* non-empty text frames that have completely arrived ahead of a frame     *)
(* that ends the loop were handled, once each, in order, and those that    *)
(* were masked with their own text (ChatServer.cpp:153-179).               *)
THEOREM HandlesWhatArrived == Spec => []HandledIsArrived
<1>1. FrameInv => HandledIsArrived
  <2> SUFFICES ASSUME FrameInv PROVE HandledIsArrived
    OBVIOUS
  <2>1. /\ frames \in Seq(Frames) /\ Len(frames) \in Nat /\ next \in 1..Len(frames) + 1
        /\ received \in Nat /\ buffered \in Nat
    BY DEF FrameInv, TypeOK
  <2>2. ASSUME phase = "ws", ~reading, NEW i \in 1..Len(frames) PROVE Arrived(i) <=> i \in 1..next - 1
    <3>1. Upto(next - 1) + buffered = received /\ Upto(next - 1) \in Nat
      <4>1. next - 1 \in 0..Len(frames)
        BY <2>1
      <4> QED
        BY <2>1, <2>2, <4>1, EndsFacts DEF FrameInv, TypeOK, Upto
    <3>2. CASE i \in 1..next - 1
      <4>1. i \in 0..Len(frames) /\ next - 1 \in 0..Len(frames) /\ i <= next - 1
        BY <2>1, <3>2
      <4>2. Upto(i) <= Upto(next - 1) /\ Upto(i) \in Nat
        BY <2>1, <4>1, EndsFacts DEF Upto
      <4>3. \A j \in 1..i : j \in 1..next - 1
        BY <2>1, <3>2
      <4>4. \A j \in 1..i : Accepted(j)
        BY <4>3 DEF FrameInv, FlowInv
      <4>5. Upto(i) <= received
        BY <2>1, <3>1, <4>2
      <4> QED
        BY <3>2, <4>4, <4>5 DEF Arrived
    <3>3. CASE i >= next
      <4> SUFFICES ASSUME Arrived(i) PROVE FALSE
        BY <2>1, <3>3
      <4>1. next \in 1..i /\ next \in 0..Len(frames) /\ i \in 0..Len(frames) /\ next <= Len(frames)
        BY <2>1, <3>3
      <4>2. Accepted(next) /\ Upto(i) <= received
        BY <4>1 DEF Arrived
      <4>3. received < Upto(next)
        BY <2>1, <2>2, <4>1, <4>2 DEF FrameInv, FlowInv, NotAccepted
      <4>4. Upto(next) <= Upto(i) /\ Upto(next) \in Nat /\ Upto(i) \in Nat
        BY <2>1, <3>3, <4>1, EndsFacts DEF Upto
      <4> QED
        BY <2>1, <4>2, <4>3, <4>4
    <3> QED
      BY <2>1, <3>2, <3>3
  <2>3. ASSUME phase = "ws", ~reading
        PROVE  Numbers(handled) = {i \in 1..Len(frames) : Arrived(i) /\ frames[i].len > 0}
    <3>1. Numbers(handled) = {i \in 1..next - 1 : frames[i].len > 0}
      BY DEF FrameInv, FlowInv
    <3>2. \A i \in 1..next - 1 : i \in 1..Len(frames)
      BY <2>1
    <3> QED
      BY <2>2, <2>3, <3>1, <3>2
  <2> QED
    BY <2>3 DEF FrameInv, FlowInv, HandledIsArrived, Numbers
<1> QED
  BY <1>1, FrameInvariant, PTL
=============================================================================
