------------------------------- MODULE WebSocket -------------------------------
(***************************************************************************)
(* ChatServer::onMessage: what one client sends, cut into reads wherever   *)
(* TCP cuts it, and what the server makes of it.  A client sends one HTTP  *)
(* request and, after an upgrade was answered, a sequence of frames.       *)
(* Bytes are counted; the headers of frames, and what parseFrame and       *)
(* encodeFrame make of them, are in FrameCodec.                            *)
(***************************************************************************)
EXTENDS FrameCodec, SequencesExt

CONSTANTS Opcodes,       \* opcodes the client uses, "text", "close" and others
          Fins,          \* values of the FIN bit it uses
          Masks,         \* values of the MASK bit; browsers mask
          MaxPayload,    \* bound on the length of a payload
          MaxFrames,     \* bound on the frames of one client
          MaxReply,      \* bound on the length of the server's messages
          ReqLen,        \* bytes of the HTTP request
          PathEnd,       \* of those, up to the blank after the path
          KeyStart, KeyEnd  \* the first and the last byte of the headers an upgrade has

ASSUME RequestAssumption ==
  /\ ReqLen \in Nat \ {0}
  /\ PathEnd \in 1..ReqLen /\ KeyStart \in PathEnd..ReqLen /\ KeyEnd \in KeyStart..ReqLen

\* The longest header has 14 bytes, and the whole frame is no longer than a
\* size_t can count.
ASSUME FrameAssumption ==
  /\ Fins \subseteq BOOLEAN /\ Masks \subseteq BOOLEAN
  /\ MaxFrames \in Nat /\ MaxReply \in Nat
  /\ MaxPayload \in Nat /\ MaxPayload + 14 < SizeMod
  /\ \A len \in 0..MaxPayload : Fits(len)

VARIABLES
  request,   \* what the client asks for: upgrade, a file, something else
  frames,    \* the frames the client sends
  reqLeft,   \* bytes of the request the server has not read
  received,  \* bytes of the frames in or through inputBuffer_
  next,      \* the frame at the front of inputBuffer_
  buffered,  \* inputBuffer_.readableBytes()
  phase,     \* http, ws (handshakeComplete), or garbled: see Upgrade
  reading,   \* onMessage is running
  shut,      \* shutdown was called
  answers,   \* HTTP answers the client was sent
  handled,   \* frames handleWebSocketMessage got, and whether with their text
  reply      \* the message just sent to the client: its length and its header

vars == <<request, frames, reqLeft, received, next, buffered, phase, reading, shut, answers, handled, reply>>

NoReply == <<0, encodeFrame(0)>>

-----------------------------------------------------------------------------
(* Reference: frames as RFC 6455 has them.                                 *)

\* What a byte counts with 0 to 7 bytes after it, and the k bytes of a number.
Weights ==
  LET w2 == Base * Base  w4 == w2 * w2
  IN  <<1, Base, w2, w2 * Base, w4, w4 * Base, w4 * w2, (w4 * w2) * Base>>
Digits(n, k) == [i \in 1..k |-> (n \div Weights[k - i + 1]) % Base]

\* A length field is minimal, and what it says.
LengthField(len) ==
  IF len <= Max7 THEN [len7 |-> len, ext |-> <<>>]
  ELSE IF len < Base * Base THEN [len7 |-> Max7 + 1, ext |-> Digits(len, 2)]
  ELSE [len7 |-> Max7 + 2, ext |-> Digits(len, 8)]

Frame(op, fin, masked, len) ==
  [op |-> op, fin |-> fin, masked |-> masked, len |-> len,
   len7 |-> LengthField(len).len7, ext |-> LengthField(len).ext]

Frames == {Frame(op, fin, masked, len) :
             op \in Opcodes, fin \in Fins, masked \in Masks, len \in 0..MaxPayload}

\* The bytes a frame has, and those of the first k frames.
Size(f) == 2 + Len(f.ext) + (IF f.masked THEN 4 ELSE 0) + f.len
Ends(fs) ==
  LET end[k \in 0..Len(fs)] == IF k = 0 THEN 0 ELSE end[k - 1] + Size(fs[k]) IN end
Upto(k) == Ends(frames)[k]

-----------------------------------------------------------------------------
(* The state is well formed, and the buffer starts at a frame boundary     *)
(* and holds what was received and not yet consumed: retrieve never takes  *)
(* more or less than one frame (ChatServer.cpp:153-179, Buffer.cpp:38-43). *)
TypeOK ==
  /\ request \in {"upgrade", "file", "other"}
  /\ frames \in Seq(Frames) /\ Len(frames) <= MaxFrames
  /\ reqLeft \in 0..ReqLen /\ received \in Nat /\ buffered \in Nat
  /\ next \in 1..Len(frames) + 1
  /\ phase \in {"http", "ws", "garbled"} /\ reading \in BOOLEAN /\ shut \in BOOLEAN
  /\ answers \in Seq({"101", "file", "400"}) /\ handled \in Seq(Nat \X BOOLEAN)
  /\ reply[1] \in 0..MaxReply
  /\ phase = "ws" => Upto(next - 1) + buffered = received

Init ==
  /\ request \in {"upgrade", "file", "other"}
  /\ frames \in IF request = "upgrade" THEN BoundedSeq(Frames, MaxFrames) ELSE {<<>>}
  /\ reqLeft = ReqLen /\ received = 0 /\ next = 1 /\ buffered = 0
  /\ phase = "http" /\ reading = FALSE /\ shut = FALSE
  /\ answers = <<>> /\ handled = <<>> /\ reply = NoReply

\* readFd got n bytes of the request.
ReceiveRequest(n) ==
  /\ phase = "http" /\ ~reading /\ n <= reqLeft
  /\ reqLeft' = reqLeft - n /\ buffered' = n
  /\ reading' = TRUE
  /\ UNCHANGED <<request, frames, received, next, phase, shut, answers, handled, reply>>

\* Fault: the connection stays open.
AnswerNoShutdown(a) == answers' = Append(answers, a) /\ UNCHANGED shut

\* send does nothing once shutdown was called.
Answer(a) ==
  /\ answers' = IF shut THEN answers ELSE Append(answers, a)
  /\ shut' = (shut \/ a # "101")

\* The bytes just read are those from FirstByte to LastByte of the request.
LastByte == ReqLen - reqLeft
FirstByte == LastByte - buffered + 1

\* The bytes read have all the headers of an upgrade request.
isWebSocketUpgrade == request = "upgrade" /\ FirstByte <= KeyStart /\ KeyEnd <= LastByte

\* handleHttpRequest: they begin like a GET request, path included.
IsGet == request \in {"upgrade", "file"} /\ FirstByte = 1 /\ PathEnd <= LastByte

\* retrieveAllAsString took the bytes; they look like an upgrade request.  If
\* there is more of the request it is read as frames: no ASCII character is
\* the first byte of a frame parseFrame accepts, so nothing ever is.
Upgrade ==
  /\ reading /\ phase = "http" /\ isWebSocketUpgrade
  /\ phase' = IF reqLeft = 0 THEN "ws" ELSE "garbled"
  /\ Answer("101")
  /\ buffered' = 0 /\ reading' = FALSE
  /\ UNCHANGED <<request, frames, reqLeft, received, next, handled, reply>>

\* A file or 404, or else 400.
Refuse ==
  /\ reading /\ phase = "http" /\ ~isWebSocketUpgrade
  /\ Answer(IF IsGet THEN "file" ELSE "400")
  /\ buffered' = 0 /\ reading' = FALSE
  /\ UNCHANGED <<request, frames, reqLeft, received, next, phase, handled, reply>>

\* readFd got n bytes of the frames.
Receive(n) ==
  /\ phase = "ws" /\ answers = <<"101">> /\ ~reading
  /\ received + n <= Upto(Len(frames))
  /\ received' = received + n /\ buffered' = buffered + n
  /\ reading' = TRUE
  /\ UNCHANGED <<request, frames, reqLeft, next, phase, shut, answers, handled, reply>>

Parsed == buffered > 0 /\ next <= Len(frames) /\ parseFrame(frames[next], buffered)

\* Fault: the payload is not retrieved.
RetrieveHeader(f) == buffered' = buffered - HeaderLen(f)

\* buffer->retrieve(frameLen).
Retrieve(f) == buffered' = buffered - FrameLen(f)

\* The payload is unmasked with maskingKey, which is uninitialised if the
\* frame has no mask.
Unmasked(f) == IF f.masked THEN {TRUE} ELSE BOOLEAN

TextFrame ==
  /\ reading /\ phase = "ws" /\ Parsed /\ frames[next].op = "text"
  /\ IF PayloadLen(frames[next]) > 0
     THEN /\ \E intact \in Unmasked(frames[next]) : handled' = Append(handled, <<next, intact>>)
          /\ \E len \in 0..MaxReply : reply' = <<len, encodeFrame(len)>>
     ELSE UNCHANGED <<handled, reply>>
  /\ Retrieve(frames[next])
  /\ next' = next + 1
  /\ UNCHANGED <<request, frames, reqLeft, received, phase, reading, shut, answers>>

\* The loop is left without retrieving the close frame.
CloseFrame ==
  /\ reading /\ phase = "ws" /\ Parsed /\ frames[next].op = "close"
  /\ shut' = TRUE
  /\ reading' = FALSE
  /\ UNCHANGED <<request, frames, reqLeft, received, next, buffered, phase, answers, handled, reply>>

\* Nothing (more) that parseFrame accepts.
StopParsing ==
  /\ reading /\ phase = "ws" /\ ~Parsed
  /\ reading' = FALSE /\ reply' = NoReply
  /\ UNCHANGED <<request, frames, reqLeft, received, next, buffered, phase, shut, answers, handled>>

Next ==
  \/ \E n \in 1..ReqLen : ReceiveRequest(n)
  \/ Upgrade \/ Refuse
  \/ \E n \in 1..Upto(Len(frames)) : Receive(n)
  \/ TextFrame \/ CloseFrame \/ StopParsing

Spec == Init /\ [][Next]_vars

-----------------------------------------------------------------------------
(* What is handled depends on the bytes received and not on how TCP cut    *)
(* them: between two reads, exactly the non-empty text frames that have    *)
(* completely arrived ahead of a close frame or of a frame parseFrame does *)
(* not accept have been handled, once each and in order, and those that    *)
(* were masked with their own text (ChatServer.cpp:153-179,                *)
(* WebSocketHandler.cpp:84-153).                                           *)
Accepted(i) == frames[i].op = "text" /\ frames[i].fin

Arrived(i) == Upto(i) <= received /\ \A j \in 1..i : Accepted(j)

HandledIsArrived ==
  /\ phase = "ws" /\ ~reading =>
       {x[1] : x \in ToSet(handled)} = {i \in 1..Len(frames) : Arrived(i) /\ frames[i].len > 0}
  /\ \A j, k \in 1..Len(handled) : j < k => handled[j][1] < handled[k][1]
  /\ \A x \in ToSet(handled) : frames[x[1]].masked => x[2]

(* However TCP cuts the request, no client is sent two answers, although   *)
(* every read is answered as if it were a request of its own: an answer    *)
(* other than 101 has closed the connection for the next one, and after    *)
(* 101 nothing is taken for a request any more (ChatServer.cpp:56-150,     *)
(* TcpConnection.cpp:214-221).  That the one answer may be given too early *)
(* is what AnswersFullRequest is about.                                    *)
AnsweredOnce ==
  /\ Len(answers) <= 1
  /\ answers # <<>> /\ answers[1] # "101" => shut

(* The client reads back every length the server writes, in the shortest   *)
(* form the protocol demands, at and around the lengths where the form     *)
(* changes (WebSocketHandler.cpp:155-184).                                 *)
RepliesReadBack ==
  /\ reply[2].len7 = LengthField(reply[1]).len7
  /\ reply[2].ext = LengthField(reply[1]).ext

-----------------------------------------------------------------------------
(* What comments say, and the code does not do.                            *)

(* "Handshake not complete - need full request in buffer"                  *)
(* (ChatServer.cpp:130): a client is answered only when all of its request *)
(* has been read.                                                          *)
AnswersFullRequest == answers # <<>> => reqLeft = 0

(* "returns whether a complete frame was parsed" (WebSocketHandler.h:15)   *)
(* and "Incomplete frame, leave remaining data in buffer for next read"    *)
(* (ChatServer.cpp:175): between two reads no complete frame stays at the  *)
(* front of the buffer of a connection that is not being closed.           *)
OnlyIncompleteLeft ==
  phase = "ws" /\ ~reading /\ ~shut /\ next <= Len(frames) => buffered < Size(frames[next])
=============================================================================
