------------------------ MODULE TcpConnectionProofs ------------------------
(***************************************************************************)
(* Proofs about TcpConnection: the connection, its channel and its entry   *)
(* in the poller stay consistent whatever the peer, the other senders and  *)
(* the base loop do, for any number of senders and any bounds.             *)
(***************************************************************************)
EXTENDS TcpConnection, FiniteSets, SequenceTheorems, FiniteSetTheorems, TLAPS

-----------------------------------------------------------------------------
(* The inductive invariant.                                                *)

(* TypeOK without the bound on the bytes accepted, which needs Accounted.  *)
Types ==
  /\ state \in States
  /\ events \subseteq {"read", "write"} /\ interest \subseteq {"read", "write"}
  /\ index \in {"new", "added", "deleted"}
  /\ registered \in BOOLEAN /\ lost \in BOOLEAN /\ shut \in BOOLEAN
  /\ inCallback \in BOOLEAN /\ removing \in BOOLEAN /\ inMap \in BOOLEAN
  /\ output \in Seq(Nat) /\ wire \in Seq(Nat)
  /\ taken \in Nat /\ issued \in 0..MaxBytes
  /\ todo \in Seq(Handlers) /\ functors \in Seq(Functors)
  /\ sending \in [Senders -> 0..MaxLen]
  /\ notified \in Seq({"up", "down"})
  /\ peer \in {"open", "fin", "reset", "gone"} /\ unread \in 0..MaxInput
  /\ killed \in {"no", "sigpipe", "epoll_ctl"}

(* The callbacks that can close the connection.                            *)
Ends == {"read", "close"}

(* An event is delivered only after connectEstablished, has at most one    *)
(* callback that can close the connection, and none is left once it is     *)
(* closed; the message callback is the callback of a read.                 *)
TodoInv ==
  /\ todo # <<>> => state # "connecting"
  /\ state = "disconnected" => \A i \in 1..Len(todo) : todo[i] \notin Ends
  /\ \A i, j \in 1..Len(todo) : todo[i] \in Ends /\ todo[j] \in Ends => i = j
  /\ inCallback => todo # <<>> /\ todo[1] = "read"

(* connectEstablished is the first functor of a connection that is not yet *)
(* up, and is nowhere else.                                                *)
FunctorInv ==
  /\ state = "connecting" => functors # <<>> /\ functors[1].op = "established"
  /\ \A i \in 1..Len(functors) :
       functors[i].op = "established" => i = 1 /\ state = "connecting"

(* A connection that is up always reads; one that is not watches nothing.  *)
EventsInv ==
  /\ state = "connecting" => index = "new" /\ output = <<>> /\ ~shut /\ ~lost
  /\ state \in {"connected", "disconnecting"} => "read" \in events
  /\ state \in {"connecting", "disconnected"} => events = {}

(* Nothing is buffered behind a lost byte or behind a FIN.                 *)
FlowInv ==
  /\ lost => peer = "gone" /\ output = <<>>
  /\ shut => output = <<>>

CInv ==
  /\ Types /\ TodoInv /\ FunctorInv /\ EventsInv /\ FlowInv
  /\ PollerInSync /\ WriteInterest

-----------------------------------------------------------------------------
(* Sequences and the poller.                                               *)

(* First and Rest cut a sequence in two.                                   *)
LEMMA Cut ==
  ASSUME NEW S, NEW s \in Seq(S), NEW k \in 0..Len(s)
  PROVE  /\ First(s, k) \in Seq(S) /\ Rest(s, k) \in Seq(S)
         /\ Len(Rest(s, k)) = Len(s) - k
         /\ First(s, k) \o Rest(s, k) = s
<1>1. Len(s) \in Nat /\ \A i \in 1..Len(s) : s[i] \in S
  BY LenProperties, ElementOfSeq
<1>2. First(s, k) \in Seq(S)
  <2>1. \A i \in 1..k : s[i] \in S
    BY <1>1
  <2> QED
    BY <1>1, <2>1, SubSeqProperties DEF First
<1>3. Rest(s, k) \in Seq(S) /\ Len(Rest(s, k)) = Len(s) - k
  <2>1. \A i \in k + 1..Len(s) : s[i] \in S
    BY <1>1
  <2>2. /\ SubSeq(s, k + 1, Len(s)) \in Seq(S)
        /\ Len(SubSeq(s, k + 1, Len(s))) =
             IF k + 1 <= Len(s) THEN Len(s) - (k + 1) + 1 ELSE 0
    BY <1>1, <2>1, SubSeqProperties
  <2> QED
    BY <1>1, <2>2 DEF Rest
<1>4. First(s, k) \o Rest(s, k) = s
  <2>1. SubSeq(s, 1, k) \o SubSeq(s, k + 1, Len(s)) = SubSeq(s, 1, Len(s))
    <3>1. 1 \in 1..Len(s) + 1 /\ k \in 1 - 1..Len(s) /\ Len(s) \in k..Len(s)
      BY <1>1
    <3> QED
      BY <3>1, ConcatAdjacentSubSeq
  <2> QED
    BY <2>1, SubSeqFull DEF First, Rest
<1> QED
  BY <1>2, <1>3, <1>4

(* The bytes sendInLoop is given are numbered after the ones it has taken. *)
LEMMA NewBytes ==
  ASSUME taken \in Nat, NEW len \in Nat
  PROVE  /\ Bytes(len) \in Seq(Nat) /\ Len(Bytes(len)) = len
         /\ \A i \in 1..len : Bytes(len)[i] = taken + i
<1>1. Bytes(len) \in [1..len -> Nat]
  BY DEF Bytes
<1>2. Bytes(len) \in Seq(Nat)
  BY <1>1, SeqDef
<1>3. Len(Bytes(len)) \in Nat /\ 1..Len(Bytes(len)) = 1..len
  BY <1>1, <1>2, LenProperties
<1> QED
  BY <1>2, <1>3 DEF Bytes

(* epoll_ctl MOD: the channel of a connection that is up changes the       *)
(* events it watches.                                                      *)
LEMMA UpdateUp ==
  ASSUME PollerInSync,
         state \in {"connected", "disconnecting"},
         NEW ev, ev # {}, UpdateChannel(ev)
  PROVE  /\ events' = ev /\ interest' = ev
         /\ index' = "added" /\ registered' = TRUE /\ killed' = "no"
  BY DEF PollerInSync, UpdateChannel, update

(* epoll_ctl DEL: the channel of a connection that is up watches nothing.  *)
LEMMA UpdateDown ==
  ASSUME PollerInSync,
         state \in {"connected", "disconnecting"},
         UpdateChannel({})
  PROVE  /\ events' = {} /\ interest' = {}
         /\ index' = "deleted" /\ registered' = FALSE /\ killed' = "no"
  BY DEF PollerInSync, UpdateChannel, update

(* epoll_ctl ADD: the channel of a connection that comes up.               *)
LEMMA UpdateNew ==
  ASSUME PollerInSync, state = "connecting", NEW ev, UpdateChannel(ev)
  PROVE  /\ events' = ev /\ interest' = ev
         /\ index' = "added" /\ registered' = TRUE /\ killed' = "no"
  BY DEF PollerInSync, UpdateChannel, update

-----------------------------------------------------------------------------
(* sendInLoop.                                                             *)

(* What sendInLoop does when it does not return early: it buffers, writes  *)
(* and buffers the rest, drops the bytes after a reset, or raises SIGPIPE. *)
Buffers(len) ==
  /\ (isWriting \/ output # <<>>)
  /\ taken' = taken + len
  /\ BufferRest(len, 0) /\ UNCHANGED <<lost, wire, peer>>

WritesSome(len, k) ==
  /\ ~isWriting /\ output = <<>> /\ k \in WriteTakes(len)
  /\ taken' = taken + len
  /\ wire' = wire \o First(Bytes(len), k)
  /\ IF k < len THEN BufferRest(len, k) ELSE UNCHANGED <<chan, output, killed>>
  /\ UNCHANGED <<lost, peer>>

DropsAll(len) ==
  /\ ~isWriting /\ output = <<>> /\ WriteReset
  /\ taken' = taken + len
  /\ lost' = TRUE /\ peer' = "gone"
  /\ UNCHANGED <<chan, output, wire, killed>>

Signals(len) ==
  /\ ~isWriting /\ output = <<>> /\ WriteSignals
  /\ taken' = taken + len
  /\ killed' = "sigpipe"
  /\ UNCHANGED <<chan, output, lost, wire, peer>>

LEMMA SendCases ==
  ASSUME NEW len, SendInLoop(len), state # "disconnected"
  PROVE  \/ Buffers(len) \/ DropsAll(len) \/ Signals(len)
         \/ \E k \in WriteTakes(len) : WritesSome(len, k)
  BY DEF SendInLoop, Buffers, WritesSome, DropsAll, Signals

(* What every step leaves of the channel and the flow.                     *)
ChannelInv == EventsInv /\ FlowInv /\ PollerInSync /\ WriteInterest

(* The rest of a send is buffered and the channel watches for writability. *)
LEMMA BufferRestEffect ==
  ASSUME CInv, state \in {"connected", "disconnecting"}, Alive,
         NEW len \in Nat \ {0}, NEW k \in 0..len, k < len, BufferRest(len, k)
  PROVE  /\ output' = output \o Rest(Bytes(len), k)
         /\ output' \in Seq(Nat) /\ output' # <<>>
         /\ "write" \in events' /\ "read" \in events' /\ events' \subseteq {"read", "write"}
         /\ interest' = events' /\ index' = "added" /\ registered' = TRUE /\ killed' = "no"
<1>1. /\ Rest(Bytes(len), k) \in Seq(Nat) /\ Len(Rest(Bytes(len), k)) = len - k
  <2>1. Bytes(len) \in Seq(Nat) /\ Len(Bytes(len)) = len
    BY NewBytes DEF CInv, Types
  <2> QED
    BY <2>1, Cut
<1>2. Rest(Bytes(len), k) # <<>>
  BY <1>1
<1>3. output \o Rest(Bytes(len), k) \in Seq(Nat) /\ output \o Rest(Bytes(len), k) # <<>>
  BY <1>1, <1>2, ConcatProperties, ConcatEqualIffEmpty DEF CInv, Types
<1>4. output' = output \o Rest(Bytes(len), k)
  BY DEF BufferRest
<1>5. CASE isWriting
  BY <1>3, <1>4, <1>5 DEF BufferRest, isWriting, chan, CInv, Types, EventsInv, PollerInSync, Alive
<1>6. CASE ~isWriting
  <2>1. UpdateChannel(events \cup {"write"})
    BY <1>6 DEF BufferRest, enableWriting
  <2>2. /\ events' = events \cup {"write"} /\ interest' = events \cup {"write"}
        /\ index' = "added" /\ registered' = TRUE /\ killed' = "no"
    BY <2>1, UpdateUp DEF CInv
  <2> QED
    BY <1>3, <1>4, <2>2 DEF CInv, Types, EventsInv
<1> QED
  BY <1>5, <1>6

(* What sendInLoop leaves alone and what it keeps consistent.              *)
Sent ==
  /\ state' = state /\ shut' = shut /\ killed' \in {"no", "sigpipe"}
  /\ output' \in Seq(Nat) /\ wire' \in Seq(Nat) /\ taken' \in Nat
  /\ events' \subseteq {"read", "write"} /\ interest' \subseteq {"read", "write"}
  /\ index' = index /\ registered' \in BOOLEAN /\ lost' \in BOOLEAN
  /\ peer' \in {"open", "fin", "reset", "gone"}
  /\ ChannelInv'

(* sendInLoop keeps channel, poller and flow consistent.                   *)
LEMMA SendEffect ==
  ASSUME CInv, Alive, state # "connecting", NEW len \in Nat \ {0}, SendInLoop(len)
  PROVE  Sent
<1> USE DEF CInv, Types, Sent, ChannelInv, EventsInv, FlowInv, PollerInSync,
            WriteInterest, Alive, isWriting
<1>0. state' = state /\ shut' = shut
  BY DEF SendInLoop
<1>1. CASE state = "disconnected"
  <2>1. UNCHANGED <<events, index, registered, interest, output, taken, lost, wire, peer, killed>>
    BY <1>1 DEF SendInLoop, chan, data
  <2> QED
    BY <1>0, <2>1
<1>2. CASE state \in {"connected", "disconnecting"}
  <2>1. CASE Buffers(len)
    <3>1. /\ BufferRest(len, 0) /\ UNCHANGED <<lost, wire, peer>> /\ taken' = taken + len
          /\ output # <<>> /\ 0 \in 0..len /\ 0 < len
      BY <1>2, <2>1 DEF Buffers
    <3>2. /\ output' \in Seq(Nat) /\ output' # <<>>
          /\ "write" \in events' /\ "read" \in events' /\ events' \subseteq {"read", "write"}
          /\ interest' = events' /\ index' = "added" /\ registered' = TRUE /\ killed' = "no"
      <4> HIDE DEF CInv, Types, Sent, ChannelInv, EventsInv, FlowInv, PollerInSync,
                   WriteInterest, Alive, isWriting
      <4> QED
        BY <1>2, <3>1, BufferRestEffect, Zenon
    <3> QED
      BY <1>0, <1>2, <3>1, <3>2, SMTT(30)
  <2>2. ASSUME NEW k \in WriteTakes(len), WritesSome(len, k)
        PROVE  Sent
    <3>1. /\ k \in 0..len /\ peer \notin {"reset", "gone"} /\ ~shut /\ ~lost
          /\ UNCHANGED <<lost, peer>> /\ taken' = taken + len
          /\ wire' = wire \o First(Bytes(len), k)
      BY <2>2 DEF WritesSome, WriteTakes
    <3>2. wire' \in Seq(Nat)
      BY <3>1, Cut, NewBytes, ConcatProperties
    <3>3. CASE k < len
      <4>1. BufferRest(len, k)
        BY <2>2, <3>3 DEF WritesSome
      <4>2. /\ output' \in Seq(Nat) /\ output' # <<>>
            /\ "write" \in events' /\ "read" \in events' /\ events' \subseteq {"read", "write"}
            /\ interest' = events' /\ index' = "added" /\ registered' = TRUE /\ killed' = "no"
        <5> HIDE DEF CInv, Types, Sent, ChannelInv, EventsInv, FlowInv, PollerInSync,
                   WriteInterest, Alive, isWriting
        <5> QED
          BY <1>2, <3>1, <3>3, <4>1, BufferRestEffect, Zenon
      <4> QED
        BY <1>0, <1>2, <3>1, <3>2, <4>2, SMTT(30)
    <3>4. CASE ~(k < len)
      <4>1. UNCHANGED <<events, index, registered, interest, output, killed>>
        BY <2>2, <3>4 DEF WritesSome, chan
      <4> QED
        BY <1>0, <1>2, <3>1, <3>2, <4>1
    <3> QED
      BY <3>3, <3>4
  <2>3. CASE DropsAll(len)
    BY <1>0, <1>2, <2>3 DEF DropsAll, chan
  <2>4. CASE Signals(len)
    BY <1>0, <1>2, <2>4 DEF Signals, chan
  <2> QED
    BY <1>2, <2>1, <2>2, <2>3, <2>4, SendCases
<1> QED
  BY <1>1, <1>2 DEF States

-----------------------------------------------------------------------------
(* Polling and the callbacks of an event.                                  *)

(* Lists of callbacks with none, and with at most one, that can close.     *)
NoEnd(s) == s \in Seq(Handlers) /\ \A i \in 1..Len(s) : s[i] \notin Ends

OneEnd(s) ==
  /\ s \in Seq(Handlers)
  /\ \A i, j \in 1..Len(s) : s[i] \in Ends /\ s[j] \in Ends => i = j

LEMMA JoinEnds ==
  ASSUME NEW s, NEW t
  PROVE  /\ NoEnd(s) /\ NoEnd(t) => NoEnd(s \o t)
         /\ NoEnd(s) /\ OneEnd(t) => OneEnd(s \o t)
         /\ OneEnd(s) /\ NoEnd(t) => OneEnd(s \o t)
<1> SUFFICES ASSUME s \in Seq(Handlers), t \in Seq(Handlers)
             PROVE  /\ NoEnd(s) /\ NoEnd(t) => NoEnd(s \o t)
                    /\ NoEnd(s) /\ OneEnd(t) => OneEnd(s \o t)
                    /\ OneEnd(s) /\ NoEnd(t) => OneEnd(s \o t)
  BY DEF NoEnd, OneEnd
<1>1. /\ s \o t \in Seq(Handlers) /\ Len(s \o t) = Len(s) + Len(t)
      /\ \A i \in 1..Len(s) + Len(t) :
           (s \o t)[i] = IF i <= Len(s) THEN s[i] ELSE t[i - Len(s)]
      /\ Len(s) \in Nat /\ Len(t) \in Nat
  BY ConcatProperties, LenProperties
<1>2. \A i \in 1..Len(s) + Len(t) :
        \/ i \in 1..Len(s) /\ (s \o t)[i] = s[i]
        \/ i - Len(s) \in 1..Len(t) /\ (s \o t)[i] = t[i - Len(s)]
  BY <1>1
<1>3. NoEnd(s) /\ NoEnd(t) => NoEnd(s \o t)
  BY <1>1, <1>2 DEF NoEnd
<1>4. NoEnd(s) /\ OneEnd(t) => OneEnd(s \o t)
  BY <1>1, <1>2 DEF NoEnd, OneEnd
<1>5. OneEnd(s) /\ NoEnd(t) => OneEnd(s \o t)
  BY <1>1, <1>2 DEF NoEnd, OneEnd
<1> QED
  BY <1>3, <1>4, <1>5

(* handleEventWithGuard makes at most one call that can close.             *)
LEMMA HandlersForEnds ==
  ASSUME NEW r
  PROVE  OneEnd(HandlersFor(r))
<1> DEFINE c == IF "hup" \in r /\ "in" \notin r THEN <<"close">> ELSE <<>>
           e == IF "err" \in r THEN <<"error">> ELSE <<>>
           d == IF "in" \in r THEN <<"read">> ELSE <<>>
           w == IF "out" \in r THEN <<"write">> ELSE <<>>
<1>1. NoEnd(e) /\ NoEnd(w) /\ OneEnd(c) /\ OneEnd(d)
  BY DEF NoEnd, OneEnd, Handlers, Ends
<1>2. NoEnd(c) \/ NoEnd(d)
  BY DEF NoEnd, Handlers, Ends
<1>3. HandlersFor(r) = ((c \o e) \o d) \o w
  BY DEF HandlersFor
<1> HIDE DEF c, e, d, w
<1> QED
  BY <1>1, <1>2, <1>3, JoinEnds

(* The callbacks after the first.                                          *)
LEMMA TailTodo ==
  ASSUME CInv, todo # <<>>
  PROVE  /\ Tail(todo) \in Seq(Handlers) /\ Head(todo) = todo[1] /\ 1 \in 1..Len(todo)
         /\ \A i \in 1..Len(Tail(todo)) : Tail(todo)[i] = todo[i + 1] /\ i + 1 \in 1..Len(todo)
                                          /\ i + 1 # 1
  BY HeadTailProperties, LenProperties, EmptySeq DEF CInv, Types

(* A callback returns, having closed the connection or not.                *)
LEMMA CallbackReturns ==
  ASSUME CInv, todo # <<>>, todo' = Tail(todo), inCallback' = FALSE,
         state' = state \/ (state' = "disconnected" /\ todo[1] \in Ends)
  PROVE  TodoInv' /\ todo' \in Seq(Handlers)
<1>1. /\ todo' \in Seq(Handlers) /\ 1 \in 1..Len(todo)
      /\ \A i \in 1..Len(todo') : todo'[i] = todo[i + 1] /\ i + 1 \in 1..Len(todo)
                                  /\ i + 1 # 1 /\ i \in Int
  BY TailTodo, LenProperties
<1>2. state' # "connecting"
  BY DEF CInv, TodoInv
<1>3. \A i, j \in 1..Len(todo') : todo'[i] \in Ends /\ todo'[j] \in Ends => i = j
  BY <1>1 DEF CInv, TodoInv
<1>4. state' = "disconnected" => \A i \in 1..Len(todo') : todo'[i] \notin Ends
  BY <1>1 DEF CInv, TodoInv
<1> QED
  BY <1>1, <1>2, <1>3, <1>4 DEF TodoInv

(* The first functor of a queue that does not start with                   *)
(* connectEstablished runs, or connectEstablished does.                    *)
LEMMA FunctorRuns ==
  ASSUME CInv, functors # <<>>, functors' = Tail(functors),
         \/ state' = state /\ Head(functors).op # "established"
         \/ state' = "connected"
  PROVE  /\ FunctorInv' /\ functors' \in Seq(Functors)
         /\ Head(functors) \in Functors
<1>1. /\ functors' \in Seq(Functors) /\ Head(functors) \in Functors
      /\ Head(functors) = functors[1] /\ 1 \in 1..Len(functors)
      /\ \A i \in 1..Len(functors') :
           functors'[i] = functors[i + 1] /\ i + 1 \in 1..Len(functors) /\ i + 1 # 1
  BY HeadTailProperties, LenProperties, EmptySeq DEF CInv, Types
<1> QED
  BY <1>1 DEF CInv, FunctorInv

(* A functor is queued behind the others.                                  *)
LEMMA FunctorQueued ==
  ASSUME CInv, NEW f \in Functors, f.op # "established",
         functors' = Append(functors, f), state' = state
  PROVE  FunctorInv' /\ functors' \in Seq(Functors)
<1>1. /\ functors' \in Seq(Functors) /\ functors' # <<>>
      /\ Len(functors') = Len(functors) + 1 /\ Len(functors) \in Nat
      /\ \A i \in 1..Len(functors) : functors'[i] = functors[i]
      /\ functors'[Len(functors) + 1] = f
      /\ functors # <<>> => 1 \in 1..Len(functors)
  <2>1. functors \in Seq(Functors) /\ Len(functors) \in Nat
    BY LenProperties DEF CInv, Types
  <2>2. functors # <<>> => 1 \in 1..Len(functors)
    BY <2>1, EmptySeq
  <2> QED
    BY <2>1, <2>2, AppendProperties
<1>2. \A i \in 1..Len(functors') : i \in 1..Len(functors) \/ i = Len(functors) + 1
  BY <1>1
<1>3. \A i \in 1..Len(functors') :
        functors'[i].op = "established" => i = 1 /\ state' = "connecting"
  BY <1>1, <1>2 DEF CInv, FunctorInv
<1>4. state' = "connecting" => functors' # <<>> /\ functors'[1].op = "established"
  BY <1>1 DEF CInv, FunctorInv
<1> QED
  BY <1>1, <1>3, <1>4 DEF FunctorInv

(* What a step that leaves the channel and the data alone keeps.           *)
LEMMA Idle ==
  ASSUME CInv, UNCHANGED <<state, chan, data, shut, killed>>,
         lost => peer' = "gone"
  PROVE  ChannelInv'
  BY DEF CInv, ChannelInv, EventsInv, FlowInv, PollerInSync, WriteInterest, Alive,
         isWriting, chan, data

-----------------------------------------------------------------------------
(* CInv is inductive.                                                      *)
LEMMA InitCInv == Init => CInv
<1> SUFFICES ASSUME Init PROVE CInv
  OBVIOUS
<1>1. [op |-> "established", len |-> 0] \in Functors
  BY DEF Functors
<1>2. functors \in Seq(Functors)
  BY <1>1 DEF Init
<1>3. sending \in [Senders -> 0..MaxLen] /\ 0 \in 0..MaxBytes /\ 0 \in 0..MaxInput
  BY BytesAssumption DEF Init
<1>4. /\ output \in Seq(Nat) /\ wire \in Seq(Nat) /\ todo \in Seq(Handlers)
      /\ notified \in Seq({"up", "down"})
  BY EmptySeq DEF Init
<1>5. taken \in Nat /\ issued \in 0..MaxBytes /\ unread \in 0..MaxInput
  BY <1>3 DEF Init
<1>6. Types
  BY <1>2, <1>3, <1>4, <1>5 DEF Init, Types, States
<1> QED
  BY <1>6 DEF Init, CInv, TodoInv, FunctorInv, EventsInv, FlowInv, PollerInSync,
              WriteInterest, Alive, isWriting

LEMMA PollCInv ==
  ASSUME CInv, Poll
  PROVE  CInv'
<1>1. /\ todo = <<>> /\ registered /\ \E r : todo' = HandlersFor(r)
      /\ UNCHANGED <<state, chan, data, serv, shut, inCallback, notified, peer, unread, killed>>
  BY DEF Poll, Between
<1>2. OneEnd(todo')
  BY <1>1, HandlersForEnds
<1>3. state \in {"connected", "disconnecting"} /\ ~inCallback
  BY <1>1 DEF CInv, PollerInSync, TodoInv
<1>4. TodoInv'
  BY <1>1, <1>2, <1>3 DEF TodoInv, OneEnd
<1>5. Types'
  BY <1>1, <1>2 DEF CInv, Types, OneEnd, chan, data, serv
<1>6. FunctorInv'
  BY <1>1 DEF CInv, FunctorInv, serv
<1>7. ChannelInv'
  BY <1>1, Idle DEF CInv, FlowInv
<1> QED
  BY <1>4, <1>5, <1>6, <1>7 DEF CInv, ChannelInv

LEMMA CloseCInv ==
  ASSUME CInv, Alive, todo # <<>>, todo[1] \in Ends, ~inCallback, Close
  PROVE  CInv' /\ state \in {"connected", "disconnecting"} /\ index' = "deleted"
<1>1. state \in {"connected", "disconnecting"}
  BY TailTodo DEF CInv, Types, States, TodoInv
<1>2. /\ events' = {} /\ interest' = {}
      /\ index' = "deleted" /\ registered' = FALSE /\ killed' = "no"
  BY <1>1, UpdateDown DEF CInv, Close, disableAll
<1>3. /\ state' = "disconnected" /\ todo' = Tail(todo) /\ removing' = TRUE
      /\ notified' = Append(notified, "down")
      /\ UNCHANGED <<output, taken, lost, wire, functors, inMap, sending, issued, shut,
                     inCallback, peer, unread>>
  BY DEF Close, data
<1>4. TodoInv' /\ todo' \in Seq(Handlers)
  BY <1>3, CallbackReturns DEF CInv, Types
<1>5. Types'
  BY <1>2, <1>3, <1>4, AppendProperties DEF CInv, Types, States
<1>6. FunctorInv'
  BY <1>1, <1>3 DEF CInv, FunctorInv
<1>7. EventsInv' /\ FlowInv' /\ PollerInSync' /\ WriteInterest'
  BY <1>1, <1>2, <1>3 DEF CInv, EventsInv, FlowInv, PollerInSync, WriteInterest, Alive
<1> QED
  BY <1>1, <1>2, <1>4, <1>5, <1>6, <1>7 DEF CInv

LEMMA HandlerCInv ==
  ASSUME CInv, HandlerStep
  PROVE  CInv'
<1>1. ASSUME Alive, todo # <<>>, todo' = Tail(todo), inCallback' = FALSE,
             lost => peer' = "gone", peer' \in {"open", "fin", "reset", "gone"},
             UNCHANGED <<state, chan, data, serv, shut, notified, unread, killed>>
      PROVE  CInv'
  <2>1. TodoInv' /\ todo' \in Seq(Handlers)
    BY <1>1, CallbackReturns
  <2>2. ChannelInv'
    BY <1>1, Idle
  <2>3. FunctorInv'
    BY <1>1 DEF CInv, FunctorInv, serv
  <2>4. Types'
    BY <1>1, <2>1 DEF CInv, Types, chan, data, serv
  <2> QED
    BY <2>1, <2>2, <2>3, <2>4 DEF CInv, ChannelInv
<1>2. CASE HandleError
  BY <1>1, <1>2 DEF HandleError, Handling, CInv, Types, FlowInv
<1>3. CASE HandleClose
  BY <1>3, CloseCInv, TailTodo DEF HandleClose, Handling, Ends
<1>4. CASE HandleReadData
  <2>1. /\ todo # <<>> /\ Head(todo) = "read" /\ inCallback' = TRUE
        /\ unread' \in 0..MaxInput
        /\ UNCHANGED <<state, chan, data, serv, shut, todo, notified, peer, killed>>
    BY <1>4, BytesAssumption DEF HandleReadData, Handling, CInv, Types
  <2>2. TodoInv'
    BY <2>1, TailTodo DEF CInv, TodoInv
  <2>3. ChannelInv'
    BY <2>1, Idle DEF CInv, FlowInv
  <2>4. FunctorInv'
    BY <2>1 DEF CInv, FunctorInv, serv
  <2>5. Types'
    BY <2>1 DEF CInv, Types, chan, data, serv
  <2> QED
    BY <2>2, <2>3, <2>4, <2>5 DEF CInv, ChannelInv
<1>5. CASE MessageCallbackReturns
  BY <1>1, <1>5 DEF MessageCallbackReturns, CInv, Types, FlowInv, TodoInv
<1>6. CASE HandleReadEof
  BY <1>6, CloseCInv, TailTodo DEF HandleReadEof, Handling, Ends
<1>7. CASE HandleReadFails
  BY <1>1, <1>7 DEF HandleReadFails, Handling, CInv, Types, FlowInv
<1>8. CASE HandleWrite
  <2>1. /\ Alive /\ todo # <<>> /\ todo' = Tail(todo) /\ inCallback' = FALSE
        /\ UNCHANGED <<state, taken, lost, serv, notified, unread>>
    BY <1>8 DEF HandleWrite, Handling, CInv, Types
  <2>2. ASSUME isWriting, NEW k \in WriteTakes(Len(output)) \ {0}, Wrote(k), UNCHANGED peer
        PROVE  CInv'
    <3>1. /\ k \in 0..Len(output) /\ k # 0 /\ ~shut /\ Len(output) \in Nat
          /\ state \in {"connected", "disconnecting"}
          /\ wire' = wire \o First(output, k) /\ output' = Rest(output, k)
      BY <2>2, LenProperties DEF WriteTakes, Wrote, CInv, Types, States, EventsInv, isWriting
    <3>2. /\ wire' \in Seq(Nat) /\ output' \in Seq(Nat) /\ Len(output') = Len(output) - k
      BY <3>1, Cut, ConcatProperties DEF CInv, Types
    <3>3. TodoInv' /\ todo' \in Seq(Handlers)
      BY <2>1, CallbackReturns
    <3>4. FunctorInv'
      BY <2>1 DEF CInv, FunctorInv, serv
    <3>5. CASE k = Len(output)
      <4>1. UpdateChannel(events \ {"write"}) /\ shut' = (state = "disconnecting")
        BY <2>2, <3>1, <3>5 DEF Wrote, disableWriting, ShutdownWhenFlushed
      <4>2. "read" \in events \ {"write"}
        BY <3>1 DEF CInv, EventsInv
      <4>3. /\ events' = events \ {"write"} /\ interest' = events \ {"write"}
            /\ index' = "added" /\ registered' = TRUE /\ killed' = "no"
        BY <3>1, <4>1, <4>2, UpdateUp DEF CInv
      <4>4. output' = <<>>
        BY <3>1, <3>2, <3>5, EmptySeq
      <4>5. Types'
        BY <2>1, <2>2, <3>1, <3>2, <3>3, <4>1, <4>3 DEF CInv, Types, serv
      <4>6. EventsInv' /\ FlowInv' /\ PollerInSync' /\ WriteInterest'
        BY <2>1, <2>2, <3>1, <4>2, <4>3, <4>4
           DEF CInv, EventsInv, FlowInv, PollerInSync, WriteInterest, Alive, isWriting
      <4> QED
        BY <3>3, <3>4, <4>5, <4>6 DEF CInv
    <3>6. CASE k # Len(output)
      <4>1. UNCHANGED <<events, index, registered, interest, killed, shut>>
        BY <2>2, <3>6 DEF Wrote, chan
      <4>2. output' # <<>> /\ output # <<>>
        BY <3>1, <3>2, <3>6
      <4>3. Types'
        BY <2>1, <2>2, <3>1, <3>2, <3>3, <4>1 DEF CInv, Types, serv
      <4>4. EventsInv' /\ FlowInv' /\ PollerInSync' /\ WriteInterest'
        BY <2>1, <2>2, <3>1, <4>1, <4>2
           DEF CInv, EventsInv, FlowInv, PollerInSync, WriteInterest, Alive, isWriting
      <4> QED
        BY <3>3, <3>4, <4>3, <4>4 DEF CInv
    <3> QED
      BY <3>5, <3>6
  <2>3. CASE /\ isWriting /\ WriteSignals /\ killed' = "sigpipe"
             /\ UNCHANGED <<chan, output, wire, shut, peer>>
    <3>1. TodoInv' /\ todo' \in Seq(Handlers)
      BY <2>1, CallbackReturns
    <3>2. FunctorInv'
      BY <2>1 DEF CInv, FunctorInv, serv
    <3>3. Types'
      BY <2>1, <2>3, <3>1 DEF CInv, Types, serv, chan
    <3>4. EventsInv' /\ FlowInv' /\ PollerInSync' /\ WriteInterest'
      BY <2>1, <2>3 DEF CInv, EventsInv, FlowInv, PollerInSync, WriteInterest, Alive, isWriting, chan
    <3> QED
      BY <3>1, <3>2, <3>3, <3>4 DEF CInv
  <2>4. CASE /\ peer' = IF isWriting /\ WriteReset THEN "gone" ELSE peer
             /\ UNCHANGED <<chan, output, wire, shut, killed>>
    BY <1>1, <2>1, <2>4 DEF CInv, Types, FlowInv, data
  <2> QED
    BY <1>8, <2>2, <2>3, <2>4 DEF HandleWrite
<1> QED
  BY <1>2, <1>3, <1>4, <1>5, <1>6, <1>7, <1>8 DEF HandlerStep

LEMMA EstablishedCInv ==
  ASSUME CInv, ConnectEstablished
  PROVE  CInv' /\ state = "connecting"
<1>1. /\ functors # <<>> /\ Head(functors).op = "established" /\ functors' = Tail(functors)
      /\ todo = <<>> /\ state' = "connected"
      /\ UpdateChannel(events \cup {"read"}) /\ notified' = Append(notified, "up")
      /\ UNCHANGED <<output, taken, lost, wire, removing, inMap, sending, issued, shut, todo,
                     inCallback, peer, unread>>
  BY DEF ConnectEstablished, NextFunctor, Between, enableReading, data
<1>2. state = "connecting"
  <2>1. 1 \in 1..Len(functors) /\ functors[1] = Head(functors)
    BY <1>1, EmptySeq DEF CInv, Types
  <2> QED
    BY <1>1, <2>1 DEF CInv, FunctorInv
<1>3. /\ events' = {"read"} /\ interest' = {"read"}
      /\ index' = "added" /\ registered' = TRUE /\ killed' = "no"
  <2>1. events \cup {"read"} = {"read"}
    BY <1>2 DEF CInv, EventsInv
  <2> QED
    BY <1>1, <1>2, <2>1, UpdateNew DEF CInv
<1>4. FunctorInv' /\ functors' \in Seq(Functors)
  BY <1>1, FunctorRuns
<1>5. Types'
  BY <1>1, <1>3, <1>4, AppendProperties DEF CInv, Types, States
<1>6. TodoInv'
  BY <1>1 DEF CInv, TodoInv
<1>7. EventsInv' /\ FlowInv' /\ PollerInSync' /\ WriteInterest'
  BY <1>1, <1>2, <1>3 DEF CInv, EventsInv, FlowInv, PollerInSync, WriteInterest, Alive, isWriting
<1> QED
  BY <1>2, <1>4, <1>5, <1>6, <1>7 DEF CInv

LEMMA RunSendCInv ==
  ASSUME CInv, RunSend
  PROVE  /\ CInv' /\ Head(functors) \in Functors /\ Head(functors).len \in 1..MaxLen
         /\ state # "connecting"
<1>1. /\ functors # <<>> /\ Head(functors).op = "send" /\ functors' = Tail(functors) /\ Alive
      /\ SendInLoop(Head(functors).len)
      /\ UNCHANGED <<removing, inMap, sending, issued, todo, inCallback, notified, unread>>
  BY DEF RunSend, NextFunctor, Between
<1>2. state' = state
  BY <1>1 DEF SendInLoop
<1>3. FunctorInv' /\ functors' \in Seq(Functors) /\ Head(functors) \in Functors
  BY <1>1, <1>2, FunctorRuns
<1>4. Head(functors).len \in 1..MaxLen /\ Head(functors).len \in Nat \ {0}
  BY <1>1, <1>3, BytesAssumption DEF Functors
<1>5. state # "connecting"
  <2>1. functors[1] = Head(functors)
    BY <1>1, EmptySeq DEF CInv, Types
  <2> QED
    BY <1>1, <2>1 DEF CInv, FunctorInv
<1>6. Sent
  BY <1>1, <1>4, <1>5, SendEffect
<1>7. Types'
  BY <1>1, <1>3, <1>6 DEF CInv, Types, Sent
<1>8. TodoInv'
  BY <1>1, <1>2 DEF CInv, TodoInv
<1> QED
  BY <1>3, <1>4, <1>5, <1>6, <1>7, <1>8 DEF CInv, Sent, ChannelInv

LEMMA SendCInv ==
  ASSUME CInv, NEW len \in 1..MaxLen, Send(len)
  PROVE  CInv'
<1>1. /\ Alive /\ state = "connected" /\ SendInLoop(len)
      /\ issued + len <= MaxBytes /\ issued' = issued + len /\ len \in Nat \ {0}
      /\ UNCHANGED <<functors, removing, inMap, sending, todo, inCallback, notified, unread>>
  BY BytesAssumption DEF Send, CanSend
<1>2. Sent
  BY <1>1, SendEffect
<1>3. issued' \in 0..MaxBytes
  BY <1>1, BytesAssumption DEF CInv, Types
<1>4. Types'
  BY <1>1, <1>2, <1>3 DEF CInv, Types, Sent
<1>5. TodoInv' /\ FunctorInv'
  BY <1>1, <1>2 DEF CInv, TodoInv, FunctorInv, Sent
<1> QED
  BY <1>2, <1>4, <1>5 DEF CInv, Sent, ChannelInv

(* In this system connectDestroyed is queued only for a connection that is *)
(* down, which RemovedOnce says; it then only removes the channel.         *)
LEMMA DestroyedCInv ==
  ASSUME CInv, ConnectDestroyed, state = "disconnected"
  PROVE  /\ CInv' /\ index' = "new" /\ UNCHANGED <<state, notified>>
<1>1. /\ functors # <<>> /\ Head(functors).op = "destroyed" /\ functors' = Tail(functors)
      /\ index' = "new" /\ UNCHANGED <<registered, interest, killed, state, events, notified>>
      /\ UNCHANGED <<output, taken, lost, wire, removing, inMap, sending, issued, shut, todo,
                     inCallback, peer, unread>>
  BY DEF ConnectDestroyed, NextFunctor, RemoveChannel, CInv, PollerInSync, data
<1>2. FunctorInv' /\ functors' \in Seq(Functors)
  BY <1>1, FunctorRuns
<1>3. Types'
  BY <1>1, <1>2 DEF CInv, Types
<1>4. TodoInv'
  BY <1>1 DEF CInv, TodoInv
<1>5. EventsInv' /\ FlowInv' /\ PollerInSync' /\ WriteInterest'
  BY <1>1 DEF CInv, EventsInv, FlowInv, PollerInSync, WriteInterest, Alive, isWriting
<1> QED
  BY <1>1, <1>2, <1>3, <1>4, <1>5 DEF CInv
-----------------------------------------------------------------------------
(* One life.                                                               *)

(* The functor at the head is taken off the queue.                         *)
LEMMA DestroyingTail ==
  ASSUME functors \in Seq(Functors), functors # <<>>, functors' = Tail(functors)
  PROVE  /\ Destroying = {} => Destroying' = {} /\ Head(functors).op # "destroyed"
         /\ \A i \in Destroying :
              Destroying = {i} =>
                IF Head(functors).op = "destroyed" THEN Destroying' = {}
                ELSE i - 1 \in Destroying' /\ Destroying' = {i - 1}
<1>1. /\ Len(functors) \in Nat \ {0} /\ Len(functors') = Len(functors) - 1
      /\ \A j \in 1..Len(functors') : functors'[j] = functors[j + 1]
      /\ Head(functors) = functors[1]
  BY HeadTailProperties, EmptySeq
<1>2. \A j \in 1..Len(functors') : j \in Destroying' <=> j + 1 \in Destroying
  BY <1>1 DEF Destroying
<1>3. Destroying' \subseteq 1..Len(functors') /\ Destroying \subseteq 1..Len(functors)
  BY DEF Destroying
<1>4. 1 \in Destroying <=> Head(functors).op = "destroyed"
  BY <1>1 DEF Destroying
<1>5. ASSUME Destroying = {}
      PROVE  Destroying' = {} /\ Head(functors).op # "destroyed"
  BY <1>2, <1>3, <1>4, <1>5
<1>6. ASSUME NEW i \in Destroying, Destroying = {i}
      PROVE  IF Head(functors).op = "destroyed" THEN Destroying' = {}
             ELSE i - 1 \in Destroying' /\ Destroying' = {i - 1}
  <2>1. CASE Head(functors).op = "destroyed"
    <3>1. i = 1
      BY <1>4, <1>6, <2>1
    <3>2. \A j \in 1..Len(functors') : j \notin Destroying'
      BY <1>1, <1>2, <1>6, <3>1
    <3> QED
      BY <1>3, <2>1, <3>2
  <2>2. CASE Head(functors).op # "destroyed"
    <3>1. i # 1 /\ i \in 1..Len(functors)
      BY <1>3, <1>4, <1>6, <2>2
    <3>2. i - 1 \in 1..Len(functors') /\ (i - 1) + 1 = i
      BY <1>1, <3>1
    <3>3. i - 1 \in Destroying'
      BY <1>2, <1>6, <3>2
    <3>4. \A j \in Destroying' : j = i - 1
      <4> SUFFICES ASSUME NEW j \in Destroying' PROVE j = i - 1
        OBVIOUS
      <4>1. j \in 1..Len(functors') /\ j + 1 \in Destroying
        BY <1>2, <1>3
      <4>2. j + 1 = i
        BY <1>6, <4>1
      <4> QED
        BY <1>1, <3>1, <4>1, <4>2
    <3> QED
      BY <2>2, <3>3, <3>4
  <2> QED
    BY <2>1, <2>2
<1> QED
  BY <1>5, <1>6

(* A functor is put at the end of the queue.                               *)
LEMMA DestroyingAppend ==
  ASSUME functors \in Seq(Functors), NEW f \in Functors, functors' = Append(functors, f)
  PROVE  /\ f.op # "destroyed" => Destroying' = Destroying
         /\ f.op = "destroyed" /\ Destroying = {} =>
              Len(functors) + 1 \in Destroying' /\ Destroying' = {Len(functors) + 1}
<1>1. /\ Len(functors) \in Nat /\ Len(functors') = Len(functors) + 1
      /\ \A j \in 1..Len(functors) : functors'[j] = functors[j]
      /\ functors'[Len(functors) + 1] = f
  BY AppendProperties, LenProperties
<1>2. \A j \in 1..Len(functors') : j \in 1..Len(functors) \/ j = Len(functors) + 1
  BY <1>1
<1>3. Destroying' \subseteq 1..Len(functors') /\ Destroying \subseteq 1..Len(functors)
      /\ 1..Len(functors) \subseteq 1..Len(functors') /\ Len(functors) + 1 \in 1..Len(functors')
      /\ Len(functors) + 1 \notin 1..Len(functors)
  BY <1>1 DEF Destroying
<1>4. \A j \in 1..Len(functors) : j \in Destroying' <=> j \in Destroying
  BY <1>1, <1>3 DEF Destroying
<1>5. Len(functors) + 1 \in Destroying' <=> f.op = "destroyed"
  BY <1>1, <1>3 DEF Destroying
<1>6. f.op # "destroyed" => Destroying' = Destroying
  BY <1>2, <1>3, <1>4, <1>5
<1>7. f.op = "destroyed" /\ Destroying = {} =>
        Len(functors) + 1 \in Destroying' /\ Destroying' = {Len(functors) + 1}
  BY <1>2, <1>3, <1>4, <1>5
<1> QED
  BY <1>6, <1>7

(* The parts of OneLife that a step with the same functors keeps.          *)
LEMMA LifeIdle ==
  ASSUME OneLife, UNCHANGED <<state, functors, removing, inMap, notified, index>>
  PROVE  OneLife'
  BY DEF OneLife, UpThenDown, RemovedOnce, Destroying, Destroyed

LEMMA UpDown == Append(<<"up">>, "down") = <<"up", "down">>
<1> DEFINE S == {"up", "down"}
           l == Append(<<"up">>, "down")
           r == <<"up", "down">>
<1>1. <<"up">> \in Seq(S) /\ Len(<<"up">>) = 1 /\ <<"up">>[1] = "up"
  OBVIOUS
<1>2. l \in Seq(S) /\ Len(l) = 2 /\ l[1] = "up" /\ l[2] = "down"
  BY <1>1, AppendProperties
<1>3. r \in Seq(S) /\ Len(r) = 2 /\ r[1] = "up" /\ r[2] = "down"
  OBVIOUS
<1> HIDE DEF l, r
<1>4. l = r
  BY <1>2, <1>3, SeqEqual
<1> QED
  BY <1>4 DEF l, r

(* handleClose: UP becomes DOWN and the connection is on its way out.      *)
LEMMA CloseLife ==
  ASSUME CInv, OneLife, Alive, todo # <<>>, todo[1] \in Ends, ~inCallback, Close
  PROVE  OneLife'
<1>1. state \in {"connected", "disconnecting"} /\ index' = "deleted"
  BY CloseCInv
<1>2. /\ state' = "disconnected" /\ removing' = TRUE
      /\ notified' = Append(notified, "down") /\ UNCHANGED <<functors, inMap>>
  BY DEF Close
<1>3. notified = <<"up">> /\ inMap /\ Destroying = {}
  BY <1>1 DEF OneLife, UpThenDown, RemovedOnce
<1>4. notified' = <<"up", "down">>
  BY <1>2, <1>3, UpDown
<1>5. Destroying' = {}
  BY <1>2, <1>3 DEF Destroying
<1> QED
  BY <1>1, <1>2, <1>3, <1>4, <1>5 DEF OneLife, UpThenDown, RemovedOnce, Destroyed

(* The other callbacks leave the life of the connection as it is.          *)
LEMMA HandlerLife ==
  ASSUME CInv, OneLife, HandlerStep
  PROVE  OneLife'
<1>1. CASE HandleClose
  BY <1>1, CloseLife, TailTodo DEF HandleClose, Handling, Ends
<1>2. CASE HandleReadEof
  BY <1>2, CloseLife, TailTodo DEF HandleReadEof, Handling, Ends
<1>3. CASE HandleError \/ HandleReadData \/ MessageCallbackReturns \/ HandleReadFails
  <2>1. UNCHANGED <<state, functors, removing, inMap, notified, index>>
    BY <1>3 DEF HandleError, HandleReadData, MessageCallbackReturns, HandleReadFails, chan, serv
  <2> QED
    BY <2>1, LifeIdle
<1>4. CASE HandleWrite
  <2>1. UNCHANGED <<state, functors, removing, inMap, notified>>
    BY <1>4 DEF HandleWrite, serv
  <2>2. CInv'
    BY HandlerCInv
  <2>3. Destroyed' = Destroyed
    <3>1. CASE state = "disconnected"
      <4>1. ~isWriting
        BY <3>1 DEF CInv, EventsInv, isWriting
      <4>2. UNCHANGED index
        BY <1>4, <4>1 DEF HandleWrite, chan
      <4> QED
        BY <2>1, <4>2 DEF Destroyed
    <3> QED
      BY <2>1, <3>1 DEF Destroyed
  <2> QED
    BY <2>1, <2>3 DEF OneLife, UpThenDown, RemovedOnce, Destroying
<1> QED
  BY <1>1, <1>2, <1>3, <1>4 DEF HandlerStep

(* connectEstablished, a queued send and connectDestroyed.                 *)
LEMMA FunctorLife ==
  ASSUME CInv, OneLife, FunctorStep
  PROVE  CInv' /\ OneLife'
<1>0. functors \in Seq(Functors)
  BY DEF CInv, Types
<1>1. CASE ConnectEstablished
  <2>1. /\ functors # <<>> /\ functors' = Tail(functors) /\ state' = "connected"
        /\ notified' = Append(notified, "up") /\ UNCHANGED <<removing, inMap>>
    BY <1>1 DEF ConnectEstablished, NextFunctor
  <2>2. CInv' /\ state = "connecting"
    BY <1>1, EstablishedCInv
  <2>3. notified = <<>> /\ inMap /\ ~removing /\ Destroying = {}
    BY <2>2 DEF OneLife, UpThenDown, RemovedOnce
  <2>4. notified' = <<"up">>
    BY <2>1, <2>3
  <2>5. Destroying' = {}
    BY <1>0, <2>1, <2>3, DestroyingTail
  <2> QED
    BY <2>1, <2>2, <2>3, <2>4, <2>5 DEF OneLife, UpThenDown, RemovedOnce
<1>2. CASE RunSend
  <2>1. /\ functors # <<>> /\ functors' = Tail(functors) /\ Head(functors).op = "send"
        /\ UNCHANGED <<removing, inMap, notified>> /\ SendInLoop(Head(functors).len) /\ Alive
    BY <1>2 DEF RunSend, NextFunctor, Between
  <2>2. CInv' /\ Head(functors).len \in Nat \ {0} /\ state # "connecting"
    BY <1>2, RunSendCInv, BytesAssumption
  <2>3. state' = state /\ index' = index
    BY <2>1, <2>2, SendEffect DEF Sent
  <2>4. Destroying = {} => Destroying' = {}
    BY <1>0, <2>1, DestroyingTail
  <2>5. (\E i \in Destroying : Destroying = {i}) => \E i \in Destroying' : Destroying' = {i}
    BY <1>0, <2>1, DestroyingTail
  <2> QED
    BY <2>1, <2>2, <2>3, <2>4, <2>5 DEF OneLife, UpThenDown, RemovedOnce, Destroyed
<1>3. CASE ConnectDestroyed
  <2>1. /\ functors # <<>> /\ functors' = Tail(functors) /\ Head(functors).op = "destroyed"
        /\ UNCHANGED <<removing, inMap>>
    BY <1>3 DEF ConnectDestroyed, NextFunctor
  <2>2. Destroying # {}
    BY <1>0, <2>1, DestroyingTail
  <2>3. state = "disconnected" /\ ~removing /\ ~inMap /\ \E i \in Destroying : Destroying = {i}
    BY <2>2 DEF OneLife, RemovedOnce
  <2>4. CInv' /\ index' = "new" /\ UNCHANGED <<state, notified>>
    BY <1>3, <2>3, DestroyedCInv
  <2>5. Destroying' = {}
    BY <1>0, <2>1, <2>3, DestroyingTail
  <2> QED
    BY <2>1, <2>3, <2>4, <2>5 DEF OneLife, UpThenDown, RemovedOnce, Destroyed
<1> QED
  BY <1>1, <1>2, <1>3 DEF FunctorStep

(* send in the loop thread, its two halves elsewhere, and shutdown.        *)
LEMMA CallerLife ==
  ASSUME CInv, OneLife, CallerStep
  PROVE  CInv' /\ OneLife'
<1>0. functors \in Seq(Functors)
  BY DEF CInv, Types
<1>1. ASSUME NEW len \in 1..MaxLen, Send(len) PROVE CInv' /\ OneLife'
  <2>1. /\ Alive /\ state = "connected" /\ SendInLoop(len) /\ len \in Nat \ {0}
        /\ UNCHANGED <<functors, removing, inMap, notified>>
    BY <1>1, BytesAssumption DEF Send, CanSend
  <2>2. state' = state /\ index' = index
    BY <2>1, SendEffect DEF Sent
  <2> QED
    BY <1>1, <2>1, <2>2, SendCInv, LifeIdle
<1>2. ASSUME NEW s \in Senders, NEW len \in 1..MaxLen, SendTest(s, len) PROVE CInv' /\ OneLife'
  <2>1. /\ state = "connected" /\ issued' = issued + len /\ issued + len <= MaxBytes
        /\ sending' = [sending EXCEPT ![s] = len]
        /\ UNCHANGED <<state, events, index, registered, interest, output, taken, lost, wire,
                       functors, removing, inMap, shut, todo, inCallback, notified, peer,
                       unread, killed>>
    BY <1>2 DEF SendTest, CanSend, chan, data
  <2>2. Types'
    BY <2>1, BytesAssumption DEF CInv, Types
  <2>3. TodoInv' /\ FunctorInv'
    BY <2>1 DEF CInv, TodoInv, FunctorInv
  <2>4. EventsInv' /\ FlowInv' /\ PollerInSync' /\ WriteInterest'
    BY <2>1 DEF CInv, EventsInv, FlowInv, PollerInSync, WriteInterest, Alive, isWriting
  <2> QED
    BY <2>1, <2>2, <2>3, <2>4, LifeIdle DEF CInv
<1>3. ASSUME NEW s \in Senders, SendQueue(s) PROVE CInv' /\ OneLife'
  <2> DEFINE f == [op |-> "send", len |-> sending[s]]
  <2>1. /\ sending[s] > 0 /\ functors' = Append(functors, f)
        /\ sending' = [sending EXCEPT ![s] = 0]
        /\ UNCHANGED <<state, events, index, registered, interest, output, taken, lost, wire,
                       removing, inMap, issued, shut, todo, inCallback, notified, peer,
                       unread, killed>>
    BY <1>3 DEF SendQueue, chan, data
  <2>2. f \in Functors /\ f.op = "send"
    BY <2>1, BytesAssumption DEF CInv, Types, Functors
  <2> HIDE DEF f
  <2>3. FunctorInv' /\ functors' \in Seq(Functors)
    BY <2>1, <2>2, FunctorQueued
  <2>4. Types'
    BY <2>1, <2>3, BytesAssumption DEF CInv, Types
  <2>5. TodoInv'
    BY <2>1 DEF CInv, TodoInv
  <2>6. EventsInv' /\ FlowInv' /\ PollerInSync' /\ WriteInterest'
    BY <2>1 DEF CInv, EventsInv, FlowInv, PollerInSync, WriteInterest, Alive, isWriting
  <2>7. Destroying' = Destroying
    BY <1>0, <2>1, <2>2, DestroyingAppend
  <2>8. OneLife'
    BY <2>1, <2>7 DEF OneLife, UpThenDown, RemovedOnce, Destroyed
  <2> QED
    BY <2>3, <2>4, <2>5, <2>6, <2>8 DEF CInv
<1>4. CASE Shutdown
  <2>1. /\ state = "connected" /\ state' = "disconnecting" /\ shut' = (shut \/ ~isWriting) /\ Alive
        /\ UNCHANGED <<events, index, registered, interest, output, taken, lost, wire, functors,
                       removing, inMap, sending, issued, todo, inCallback, notified, peer,
                       unread, killed>>
    BY <1>4 DEF Shutdown, chan, data, serv
  <2>2. Types'
    BY <2>1 DEF CInv, Types, States
  <2>3. TodoInv' /\ FunctorInv'
    BY <2>1 DEF CInv, TodoInv, FunctorInv
  <2>4. EventsInv' /\ FlowInv' /\ PollerInSync' /\ WriteInterest'
    BY <2>1 DEF CInv, EventsInv, FlowInv, PollerInSync, WriteInterest, Alive, isWriting
  <2>5. OneLife'
    BY <2>1 DEF OneLife, UpThenDown, RemovedOnce, Destroying, Destroyed
  <2> QED
    BY <2>2, <2>3, <2>4, <2>5 DEF CInv
<1> QED
  BY <1>1, <1>2, <1>3, <1>4 DEF CallerStep
(* CInv and OneLife together are inductive.                                *)
LEMMA InitLife == Init => OneLife
<1> SUFFICES ASSUME Init PROVE OneLife
  OBVIOUS
<1>1. Destroying = {}
  BY DEF Init, Destroying
<1> QED
  BY <1>1 DEF Init, OneLife, UpThenDown, RemovedOnce

LEMMA StepLife ==
  ASSUME CInv, OneLife, [Next]_vars
  PROVE  CInv' /\ OneLife'
<1>1. CASE Poll
  <2>1. UNCHANGED <<state, functors, removing, inMap, notified, index>>
    BY <1>1 DEF Poll, chan, serv
  <2> QED
    BY <1>1, <2>1, PollCInv, LifeIdle
<1>2. CASE HandlerStep
  BY <1>2, HandlerCInv, HandlerLife
<1>3. CASE FunctorStep
  BY <1>3, FunctorLife
<1>4. CASE CallerStep
  BY <1>4, CallerLife
<1>5. CASE RemoveConnectionInLoop
  <2> DEFINE f == [op |-> "destroyed", len |-> 0]
  <2>1. /\ removing /\ removing' = FALSE /\ inMap' = FALSE /\ functors' = Append(functors, f)
        /\ UNCHANGED <<state, events, index, registered, interest, output, taken, lost, wire,
                       sending, issued, shut, todo, inCallback, notified, peer, unread, killed>>
    BY <1>5 DEF RemoveConnectionInLoop, chan, data
  <2>2. f \in Functors /\ f.op = "destroyed" /\ functors \in Seq(Functors)
    BY DEF Functors, CInv, Types
  <2> HIDE DEF f
  <2>3. FunctorInv' /\ functors' \in Seq(Functors)
    BY <2>1, <2>2, FunctorQueued
  <2>4. Types'
    BY <2>1, <2>3 DEF CInv, Types
  <2>5. TodoInv'
    BY <2>1 DEF CInv, TodoInv
  <2>6. EventsInv' /\ FlowInv' /\ PollerInSync' /\ WriteInterest'
    BY <2>1 DEF CInv, EventsInv, FlowInv, PollerInSync, WriteInterest, Alive, isWriting
  <2>7. state = "disconnected" /\ Destroying = {} /\ ~Destroyed
    BY <2>1 DEF OneLife, RemovedOnce
  <2>8. \E i \in Destroying' : Destroying' = {i}
    BY <2>1, <2>2, <2>7, DestroyingAppend
  <2>9. OneLife'
    BY <2>1, <2>7, <2>8 DEF OneLife, UpThenDown, RemovedOnce, Destroyed
  <2> QED
    BY <2>3, <2>4, <2>5, <2>6, <2>9 DEF CInv
<1>6. CASE PeerSends \/ PeerFinishes \/ PeerResets
  <2>1. /\ UNCHANGED <<state, chan, data, serv, shut, todo, inCallback, notified, killed>>
        /\ peer' \in {"open", "fin", "reset", "gone"} /\ peer # "gone"
        /\ unread' \in 0..MaxInput
    BY <1>6, BytesAssumption DEF PeerSends, PeerFinishes, PeerResets, PeerStep, CInv, Types
  <2>2. ChannelInv'
    BY <2>1, Idle DEF CInv, FlowInv
  <2>3. Types' /\ TodoInv' /\ FunctorInv'
    BY <2>1 DEF CInv, Types, TodoInv, FunctorInv, chan, data, serv
  <2>4. OneLife'
    BY <2>1, LifeIdle DEF chan, serv
  <2> QED
    BY <2>2, <2>3, <2>4 DEF CInv, ChannelInv
<1>7. CASE UNCHANGED vars
  <2>1. UNCHANGED <<state, chan, data, serv, shut, todo, inCallback, notified, peer, unread, killed>>
    BY <1>7 DEF vars
  <2>2. ChannelInv'
    BY <2>1, Idle DEF CInv, FlowInv
  <2>3. Types' /\ TodoInv' /\ FunctorInv'
    BY <2>1 DEF CInv, Types, TodoInv, FunctorInv, chan, data, serv
  <2>4. OneLife'
    BY <2>1, LifeIdle DEF chan, serv
  <2> QED
    BY <2>2, <2>3, <2>4 DEF CInv, ChannelInv
<1> QED
  BY <1>1, <1>2, <1>3, <1>4, <1>5, <1>6, <1>7 DEF Next

(* PollerInSync: Channel::index_, events_ and the epoll set agree, so no   *)
(* epoll_ctl ADD or MOD fails and LOG_FATAL is not reached                 *)
(* (EPollPoller.cpp:50-83).                                                *)
THEOREM PollerStaysInSync == Spec => []PollerInSync
<1>1. CInv => PollerInSync
  BY DEF CInv
<1> QED
  BY InitCInv, InitLife, StepLife, <1>1, PTL DEF Spec, SafeSpec

(* WriteInterest: a connection that is up watches for writability exactly  *)
(* when it has output (TcpConnection.cpp:129-148,172-212).                 *)
THEOREM WatchesWhatItOwes == Spec => []WriteInterest
<1>1. CInv => WriteInterest
  BY DEF CInv
<1> QED
  BY InitCInv, InitLife, StepLife, <1>1, PTL DEF Spec, SafeSpec

(* OneLife: one UP, one DOWN, one removal, whatever is still queued        *)
(* (TcpConnection.cpp:94-109,150-158, TcpServer.cpp:105-115).              *)
THEOREM LivesOnce == Spec => []OneLife
  BY InitCInv, InitLife, StepLife, PTL DEF Spec, SafeSpec
-----------------------------------------------------------------------------
(* Bytes in order.                                                         *)

LEMMA BytesAssociate ==
  ASSUME NEW s \in Seq(Nat), NEW t \in Seq(Nat), NEW u \in Seq(Nat)
  PROVE  (s \o t) \o u = s \o (t \o u)
  BY ConcatAssociative

LEMMA BytesIdle ==
  ASSUME BytesInOrder, UNCHANGED data, Alive \/ UNCHANGED killed
  PROVE  BytesInOrder'
  BY DEF BytesInOrder, data, Alive

(* Every byte of a send is behind the ones accepted before, whether it is  *)
(* written or buffered.                                                    *)
LEMMA AllExtended ==
  ASSUME CInv, Alive, state \in {"connected", "disconnecting"}, NEW len \in Nat \ {0},
         Buffers(len) \/ \E k \in WriteTakes(len) : WritesSome(len, k)
  PROVE  /\ wire' \o output' = (wire \o output) \o Bytes(len)
         /\ ~lost /\ lost' = FALSE
<1> DEFINE B == Bytes(len)
<1>1. wire \in Seq(Nat) /\ output \in Seq(Nat) /\ lost \in BOOLEAN
  BY DEF CInv, Types
<1>2. B \in Seq(Nat) /\ Len(B) = len
  BY NewBytes DEF CInv, Types
<1>3. \A k \in 0..len : /\ First(B, k) \in Seq(Nat) /\ Rest(B, k) \in Seq(Nat)
                        /\ Len(Rest(B, k)) = len - k
                        /\ First(B, k) \o Rest(B, k) = B
  BY <1>2, Cut
<1>4. CASE Buffers(len)
  <2>1. /\ output' = output \o Rest(B, 0) /\ UNCHANGED <<lost, wire>>
        /\ output # <<>>
    BY <1>4 DEF Buffers, BufferRest, CInv, WriteInterest
  <2>2. ~lost
    BY <2>1 DEF CInv, FlowInv
  <2>3. Rest(B, 0) = B
    <3>1. First(B, 0) = <<>>
      BY SubSeqEmpty DEF First
    <3>2. 0 \in 0..len
      OBVIOUS
    <3> HIDE DEF B
    <3> QED
      BY <1>2, <1>3, <3>1, <3>2, ConcatEmptySeq
  <2> HIDE DEF B
  <2>4. wire \o (output \o B) = (wire \o output) \o B
    <3>1. (wire \o output) \o B = wire \o (output \o B)
      BY <1>1, <1>2, BytesAssociate
    <3> QED
      BY <3>1
  <2> QED
    BY <1>1, <2>1, <2>2, <2>3, <2>4 DEF B
<1>5. ASSUME NEW k \in WriteTakes(len), WritesSome(len, k)
      PROVE  /\ wire' \o output' = (wire \o output) \o B
             /\ ~lost /\ lost' = FALSE
  <2>1. /\ k \in 0..len /\ ~lost /\ lost' = lost /\ output = <<>>
        /\ wire' = wire \o First(B, k)
    BY <1>5 DEF WritesSome, WriteTakes, CInv, FlowInv
  <2>2. output' = Rest(B, k)
    <3>1. CASE k < len
      <4>1. output' = output \o Rest(B, k)
        BY <1>5, <3>1 DEF WritesSome, BufferRest
      <4> HIDE DEF B
      <4> QED
        BY <1>3, <2>1, <4>1, ConcatEmptySeq
    <3>2. CASE ~(k < len)
      <4>1. output' = <<>>
        BY <1>5, <2>1, <3>2 DEF WritesSome
      <4> HIDE DEF B
      <4>2. Len(Rest(B, k)) = 0 /\ Rest(B, k) \in Seq(Nat)
        BY <1>3, <2>1, <3>2
      <4> QED
        BY <4>1, <4>2, EmptySeq
    <3> QED
      BY <3>1, <3>2
  <2> HIDE DEF B
  <2>3. (wire \o First(B, k)) \o Rest(B, k) = wire \o B
    <3>1. /\ First(B, k) \in Seq(Nat) /\ Rest(B, k) \in Seq(Nat)
          /\ First(B, k) \o Rest(B, k) = B
      BY <1>3, <2>1
    <3>2. (wire \o First(B, k)) \o Rest(B, k) = wire \o (First(B, k) \o Rest(B, k))
      BY <1>1, <3>1, BytesAssociate
    <3> QED
      BY <3>1, <3>2
  <2>4. wire \o output = wire
    BY <1>1, <2>1, ConcatEmptySeq
  <2> QED
    BY <1>1, <2>1, <2>2, <2>3, <2>4
<1> QED
  BY <1>4, <1>5

(* sendInLoop.                                                             *)
LEMMA SendBytes ==
  ASSUME CInv, BytesInOrder, Alive, state # "connecting", NEW len \in Nat \ {0},
         SendInLoop(len)
  PROVE  BytesInOrder'
<1>1. CASE state = "disconnected"
  BY <1>1, BytesIdle DEF SendInLoop
<1>2. CASE state # "disconnected" /\ (DropsAll(len) \/ Signals(len))
  BY <1>2 DEF DropsAll, Signals, BytesInOrder, Alive
<1>3. CASE /\ state # "disconnected"
           /\ Buffers(len) \/ \E k \in WriteTakes(len) : WritesSome(len, k)
  <2> DEFINE all == wire \o output
             B == Bytes(len)
  <2>1. wire' \o output' = all \o B /\ ~lost /\ lost' = FALSE
    BY <1>3, AllExtended DEF CInv, Types, States
  <2>2. taken' = taken + len
    BY <1>3 DEF Buffers, WritesSome
  <2>3. /\ all \in Seq(Nat) /\ Len(all) = taken /\ \A i \in 1..taken : all[i] = i
        /\ taken \in Nat
    BY <2>1, ConcatProperties DEF CInv, Types, BytesInOrder
  <2>4. B \in Seq(Nat) /\ Len(B) = len /\ \A i \in 1..len : B[i] = taken + i
    BY <2>3, NewBytes
  <2> HIDE DEF all, B
  <2>5. /\ Len(all \o B) = taken + len
        /\ \A i \in 1..taken + len : (all \o B)[i] = IF i <= taken THEN all[i] ELSE B[i - taken]
    BY <2>3, <2>4, ConcatProperties
  <2>6. \A i \in 1..taken + len : (all \o B)[i] = i
    <3> SUFFICES ASSUME NEW i \in 1..taken + len PROVE (all \o B)[i] = i
      OBVIOUS
    <3>1. CASE i <= taken
      BY <2>3, <2>5, <3>1
    <3>2. CASE ~(i <= taken)
      <4>1. i - taken \in 1..len /\ taken + (i - taken) = i
        BY <2>3, <3>2
      <4> QED
        BY <2>4, <2>5, <3>2, <4>1
    <3> QED
      BY <3>1, <3>2
  <2> QED
    BY <2>1, <2>2, <2>5, <2>6 DEF BytesInOrder
<1> QED
  BY <1>1, <1>2, <1>3, SendCases

(* handleWrite moves bytes from the front of the buffer to the kernel.     *)
LEMMA WriteBytes ==
  ASSUME CInv, BytesInOrder, HandleWrite
  PROVE  BytesInOrder'
<1>1. Alive /\ UNCHANGED <<taken, lost>> /\ output \in Seq(Nat) /\ wire \in Seq(Nat)
  BY DEF HandleWrite, Handling, CInv, Types
<1>2. ASSUME isWriting, NEW k \in WriteTakes(Len(output)) \ {0}, Wrote(k)
      PROVE  BytesInOrder'
  <2>1. /\ k \in 0..Len(output) /\ ~lost
        /\ wire' = wire \o First(output, k) /\ output' = Rest(output, k)
    BY <1>2 DEF WriteTakes, Wrote, CInv, FlowInv
  <2>2. /\ First(output, k) \in Seq(Nat) /\ Rest(output, k) \in Seq(Nat)
        /\ First(output, k) \o Rest(output, k) = output
    BY <1>1, <2>1, Cut
  <2>3. (wire \o First(output, k)) \o Rest(output, k) = wire \o output
    <3>1. (wire \o First(output, k)) \o Rest(output, k)
            = wire \o (First(output, k) \o Rest(output, k))
      BY <1>1, <2>2, BytesAssociate
    <3> QED
      BY <2>2, <3>1
  <2>4. wire' \o output' = wire \o output
    BY <2>1, <2>3
  <2> QED
    BY <1>1, <2>1, <2>4 DEF BytesInOrder
<1>3. CASE UNCHANGED <<output, wire>>
  BY <1>1, <1>3 DEF BytesInOrder
<1> QED
  BY <1>2, <1>3 DEF HandleWrite

LEMMA StepBytes ==
  ASSUME CInv, BytesInOrder, [Next]_vars
  PROVE  BytesInOrder'
<1>1. CASE RunSend
  <2>1. Head(functors).len \in Nat \ {0} /\ state # "connecting"
    BY <1>1, RunSendCInv, BytesAssumption
  <2> QED
    BY <1>1, <2>1, SendBytes DEF RunSend, NextFunctor, Between
<1>2. ASSUME NEW len \in 1..MaxLen, Send(len) PROVE BytesInOrder'
  BY <1>2, SendBytes, BytesAssumption DEF Send, CanSend
<1>3. CASE HandleWrite
  BY <1>3, WriteBytes
<1>4. CASE UNCHANGED data /\ (Alive \/ UNCHANGED killed)
  BY <1>4, BytesIdle
<1>5. \/ RunSend \/ HandleWrite \/ \E len \in 1..MaxLen : Send(len)
      \/ UNCHANGED data /\ (Alive \/ UNCHANGED killed)
  BY DEF Next, vars, Poll, HandlerStep, FunctorStep, CallerStep, RemoveConnectionInLoop,
         PeerSends, PeerFinishes, PeerResets, PeerStep, HandleError, HandleClose,
         HandleReadData, MessageCallbackReturns, HandleReadEof, HandleReadFails, Close,
         ConnectEstablished, ConnectDestroyed, SendTest, CanSend, SendQueue, Shutdown,
         NextFunctor, Between, Handling
<1> QED
  BY <1>1, <1>2, <1>3, <1>4, <1>5

(* BytesInOrder: what sendInLoop accepts reaches the kernel in order and   *)
(* exactly once (TcpConnection.cpp:129-148,172-207).                       *)
THEOREM BytesStayInOrder == Spec => []BytesInOrder
<1>1. Init => BytesInOrder
  <2> SUFFICES ASSUME Init PROVE BytesInOrder
    OBVIOUS
  <2>1. wire \o output = <<>>
    BY ConcatEmptySeq, EmptySeq DEF Init
  <2> QED
    BY <2>1 DEF Init, BytesInOrder
<1> QED
  BY InitCInv, InitLife, StepLife, StepBytes, <1>1, PTL DEF Spec, SafeSpec

(* FinAfterFlush: the write side is shut only behind the last accepted     *)
(* byte (TcpConnection.cpp:139-140,209-237).                               *)
THEOREM FinIsLast == Spec => []FinAfterFlush
<1>1. CInv /\ BytesInOrder => FinAfterFlush
  <2> SUFFICES ASSUME CInv, BytesInOrder, shut
               PROVE  output = <<>> /\ (Alive /\ ~lost => Len(wire) = taken)
    BY DEF FinAfterFlush
  <2>1. output = <<>> /\ wire \in Seq(Nat)
    BY DEF CInv, FlowInv, Types
  <2>2. wire \o output = wire
    BY <2>1, ConcatEmptySeq
  <2> QED
    BY <2>1, <2>2 DEF BytesInOrder
<1>2. Spec => []CInv
  BY InitCInv, InitLife, StepLife, PTL DEF Spec, SafeSpec
<1> QED
  BY <1>1, <1>2, BytesStayInOrder, PTL
-----------------------------------------------------------------------------
(* No byte is accepted that was not handed to send.                        *)

Apart(A, B) == A \cap B = {}

(* The bytes handed to send are numbered 1..issued, and every one that is  *)
(* accepted (T), waits in a functor (F) or is in the hands of a sender     *)
(* that has tested state_ (G) is in one of these places only.              *)
Account(T, F, G, n, took, queue, held) ==
  /\ T \subseteq 1..n /\ Cardinality(T) = took
  /\ F \in [1..Len(queue) -> SUBSET (1..n)]
  /\ \A i \in 1..Len(queue) : Cardinality(F[i]) = queue[i].len
  /\ G \in [Senders -> SUBSET (1..n)]
  /\ \A s \in Senders : Cardinality(G[s]) = held[s]
  /\ \A i \in 1..Len(queue) : Apart(T, F[i])
  /\ \A s \in Senders : Apart(T, G[s])
  /\ \A i, j \in 1..Len(queue) : i # j => Apart(F[i], F[j])
  /\ \A s, r \in Senders : s # r => Apart(G[s], G[r])
  /\ \A i \in 1..Len(queue), s \in Senders : Apart(F[i], G[s])

Accounted == \E T, F, G : Account(T, F, G, issued, taken, functors, sending)

(* Sets of issued bytes are finite; the bytes of a new send are new.       *)
LEMMA IssuedSets ==
  ASSUME issued \in Nat
  PROVE  \A A \in SUBSET (1..issued) :
           IsFiniteSet(A) /\ Cardinality(A) \in Nat /\ Cardinality(A) <= issued
<1>1. IsFiniteSet(1..issued) /\ Cardinality(1..issued) = issued
  BY FS_Interval
<1> QED
  BY <1>1, FS_Subset, FS_CardinalityType

LEMMA ApartUnion ==
  ASSUME NEW A, NEW B, IsFiniteSet(A), IsFiniteSet(B), Apart(A, B)
  PROVE  IsFiniteSet(A \cup B) /\ Cardinality(A \cup B) = Cardinality(A) + Cardinality(B)
<1>1. A \cap B = {}
  BY DEF Apart
<1>2. /\ IsFiniteSet(A \cup B)
      /\ Cardinality(A \cup B) = Cardinality(A) + Cardinality(B) - Cardinality(A \cap B)
  BY FS_Union
<1>3. Cardinality(A \cap B) = 0 /\ Cardinality(A) \in Nat /\ Cardinality(B) \in Nat
  BY <1>1, FS_EmptySet, FS_CardinalityType
<1> QED
  BY <1>2, <1>3

LEMMA NewIssued ==
  ASSUME issued \in Nat, NEW len \in Nat \ {0}, issued' = issued + len
  PROVE  LET N == issued + 1..issued + len IN
         /\ N \subseteq 1..issued' /\ IsFiniteSet(N) /\ Cardinality(N) = len
         /\ 1..issued \subseteq 1..issued'
         /\ \A A \in SUBSET (1..issued) : Apart(A, N) /\ Apart(N, A)
<1> DEFINE N == issued + 1..issued + len
<1>1. IsFiniteSet(N) /\ Cardinality(N) = len
  <2>1. issued + 1 \in Int /\ issued + len \in Int /\ ~(issued + 1 > issued + len)
        /\ (issued + len) - (issued + 1) + 1 = len
    OBVIOUS
  <2> QED
    BY <2>1, FS_Interval
<1>2. N \subseteq 1..issued' /\ 1..issued \subseteq 1..issued'
  OBVIOUS
<1>3. \A A \in SUBSET (1..issued) : Apart(A, N) /\ Apart(N, A)
  BY DEF Apart
<1> QED
  BY <1>1, <1>2, <1>3

(* The first functor leaves the queue; its bytes are accepted or, if the   *)
(* connection is down, never.                                              *)
LEMMA AccountRuns ==
  ASSUME CInv, Accounted, functors # <<>>, functors' = Tail(functors),
         UNCHANGED <<issued, sending>>,
         taken' = taken \/ taken' = taken + Head(functors).len
  PROVE  Accounted'
<1>1. PICK T, F, G : Account(T, F, G, issued, taken, functors, sending)
  BY DEF Accounted
<1>2. /\ Len(functors) \in Nat \ {0} /\ Len(functors') = Len(functors) - 1
      /\ \A j \in 1..Len(functors') : functors'[j] = functors[j + 1]
      /\ Head(functors) = functors[1] /\ issued \in Nat
  BY HeadTailProperties, EmptySeq DEF CInv, Types
<1>3. \A j \in 1..Len(functors') : j + 1 \in 1..Len(functors) /\ j + 1 # 1 /\ j \in Nat
  BY <1>2
<1>4. 1 \in 1..Len(functors)
  BY <1>2
<1> DEFINE H == [i \in 1..Len(functors') |-> F[i + 1]]
           U == IF taken' = taken THEN T ELSE T \cup F[1]
<1>5. U \subseteq 1..issued /\ Cardinality(U) = taken'
  <2>1. F[1] \subseteq 1..issued /\ T \subseteq 1..issued /\ Apart(T, F[1])
        /\ Cardinality(F[1]) = Head(functors).len /\ Cardinality(T) = taken
    BY <1>1, <1>2, <1>4 DEF Account
  <2>2. Cardinality(T \cup F[1]) = Cardinality(T) + Cardinality(F[1])
    BY <1>2, <2>1, IssuedSets, ApartUnion
  <2> QED
    BY <2>1, <2>2
<1>6. /\ \A i \in 1..Len(functors') : Apart(U, H[i])
      /\ \A s \in Senders : Apart(U, G[s])
  BY <1>1, <1>3, <1>4 DEF Account, Apart
<1>7. H \in [1..Len(functors') -> SUBSET (1..issued)]
      /\ \A i \in 1..Len(functors') : Cardinality(H[i]) = functors'[i].len
  BY <1>1, <1>2, <1>3 DEF Account
<1>8. /\ \A i, j \in 1..Len(functors') : i # j => Apart(H[i], H[j])
      /\ \A i \in 1..Len(functors'), s \in Senders : Apart(H[i], G[s])
  BY <1>1, <1>2, <1>3 DEF Account
<1> HIDE DEF H, U
<1>9. Account(U, H, G, issued', taken', functors', sending')
  BY <1>1, <1>5, <1>6, <1>7, <1>8 DEF Account
<1> QED
  BY <1>9 DEF Accounted

(* A functor with the bytes of one sender, or with none, is queued.        *)
LEMMA AccountQueued ==
  ASSUME CInv, Accounted, NEW f \in Functors, functors' = Append(functors, f),
         UNCHANGED <<issued, taken>>,
         \/ f.len = 0 /\ UNCHANGED sending
         \/ \E s \in Senders : f.len = sending[s] /\ sending' = [sending EXCEPT ![s] = 0]
  PROVE  Accounted'
<1>1. PICK T, F, G : Account(T, F, G, issued, taken, functors, sending)
  BY DEF Accounted
<1>2. /\ Len(functors) \in Nat /\ Len(functors') = Len(functors) + 1
      /\ \A j \in 1..Len(functors) : functors'[j] = functors[j]
      /\ functors'[Len(functors) + 1] = f
  BY AppendProperties, LenProperties DEF CInv, Types
<1>3. \A j \in 1..Len(functors') :
        (j \in 1..Len(functors) /\ j # Len(functors) + 1) \/ j = Len(functors) + 1
  BY <1>2
<1>4. Cardinality({}) = 0 /\ \A A : Apart(A, {}) /\ Apart({}, A)
  BY FS_EmptySet DEF Apart
<1>5. \A A, B : Apart(A, B) => Apart(B, A)
  BY DEF Apart
<1>6. CASE f.len = 0 /\ UNCHANGED sending
  <2> DEFINE H == [i \in 1..Len(functors') |-> IF i = Len(functors) + 1 THEN {} ELSE F[i]]
  <2>1. H \in [1..Len(functors') -> SUBSET (1..issued)]
        /\ \A i \in 1..Len(functors') : Cardinality(H[i]) = functors'[i].len
    BY <1>1, <1>2, <1>3, <1>4, <1>6 DEF Account
  <2>2. /\ \A i \in 1..Len(functors') : Apart(T, H[i])
        /\ \A i, j \in 1..Len(functors') : i # j => Apart(H[i], H[j])
        /\ \A i \in 1..Len(functors'), s \in Senders : Apart(H[i], G[s])
    BY <1>1, <1>3, <1>4 DEF Account
  <2> HIDE DEF H
  <2>3. Account(T, H, G, issued', taken', functors', sending')
    BY <1>1, <1>6, <2>1, <2>2 DEF Account
  <2> QED
    BY <2>3 DEF Accounted
<1>7. ASSUME NEW s \in Senders, f.len = sending[s], sending' = [sending EXCEPT ![s] = 0]
      PROVE  Accounted'
  <2> DEFINE H == [i \in 1..Len(functors') |-> IF i = Len(functors) + 1 THEN G[s] ELSE F[i]]
             K == [G EXCEPT ![s] = {}]
  <2>1. H \in [1..Len(functors') -> SUBSET (1..issued)]
        /\ \A i \in 1..Len(functors') : Cardinality(H[i]) = functors'[i].len
    BY <1>1, <1>2, <1>3, <1>7 DEF Account
  <2>2. /\ K \in [Senders -> SUBSET (1..issued)]
        /\ \A r \in Senders : K[r] = IF r = s THEN {} ELSE G[r]
    BY <1>1, <1>7 DEF Account
  <2>3. \A r \in Senders : Cardinality(K[r]) = sending'[r]
    BY <1>1, <1>4, <1>7, <2>2 DEF Account, CInv, Types
  <2>4. /\ \A i \in 1..Len(functors') : Apart(T, H[i])
        /\ \A i, j \in 1..Len(functors') : i # j => Apart(H[i], H[j])
    BY <1>1, <1>3, <1>5, <1>7 DEF Account
  <2> HIDE DEF K
  <2>5. /\ \A r \in Senders : Apart(T, K[r])
        /\ \A q, r \in Senders : q # r => Apart(K[q], K[r])
        /\ \A i \in 1..Len(functors'), r \in Senders : Apart(H[i], K[r])
    <3>1. /\ \A r \in Senders : Apart(T, K[r])
          /\ \A q, r \in Senders : q # r => Apart(K[q], K[r])
      BY <1>1, <1>4, <2>2 DEF Account
    <3>2. ASSUME NEW i \in 1..Len(functors'), NEW r \in Senders
          PROVE  Apart(H[i], K[r])
      <4>1. CASE r = s
        BY <1>4, <2>2, <4>1
      <4>2. CASE r # s
        <5>1. K[r] = G[r]
          BY <2>2, <4>2
        <5>2. H[i] = G[s] \/ (i \in 1..Len(functors) /\ H[i] = F[i])
          BY <1>3
        <5> QED
          BY <1>1, <1>7, <4>2, <5>1, <5>2 DEF Account
      <4> QED
        BY <4>1, <4>2
    <3> QED
      BY <3>1, <3>2
  <2> HIDE DEF H
  <2>6. Account(T, H, K, issued', taken', functors', sending')
    BY <1>1, <2>1, <2>2, <2>3, <2>4, <2>5 DEF Account
  <2> QED
    BY <2>6 DEF Accounted
<1> QED
  BY <1>6, <1>7

(* New bytes are accepted at once, or are in the hands of a sender.        *)
LEMMA AccountIssued ==
  ASSUME CInv, Accounted, NEW len \in Nat \ {0}, issued' = issued + len,
         UNCHANGED functors,
         \/ taken' = taken + len /\ UNCHANGED sending
         \/ /\ UNCHANGED taken
            /\ \E s \in Senders : sending[s] = 0 /\ sending' = [sending EXCEPT ![s] = len]
  PROVE  Accounted'
<1>1. PICK T, F, G : Account(T, F, G, issued, taken, functors, sending)
  BY DEF Accounted
<1> DEFINE N == issued + 1..issued + len
<1>2. /\ N \subseteq 1..issued' /\ IsFiniteSet(N) /\ Cardinality(N) = len
      /\ 1..issued \subseteq 1..issued'
      /\ \A A \in SUBSET (1..issued) : Apart(A, N) /\ Apart(N, A)
  BY NewIssued DEF CInv, Types
<1> HIDE DEF N
<1>3. CASE taken' = taken + len /\ UNCHANGED sending
  <2>1. Cardinality(T \cup N) = taken + len
    <3>1. T \in SUBSET (1..issued) /\ Cardinality(T) = taken /\ IsFiniteSet(T)
      BY <1>1, IssuedSets DEF Account, CInv, Types
    <3> QED
      BY <1>2, <3>1, ApartUnion
  <2>2. /\ \A i \in 1..Len(functors) : Apart(T \cup N, F[i])
        /\ \A s \in Senders : Apart(T \cup N, G[s])
    BY <1>1, <1>2 DEF Account, Apart
  <2>3. /\ T \cup N \subseteq 1..issued'
        /\ F \in [1..Len(functors) -> SUBSET (1..issued')]
        /\ G \in [Senders -> SUBSET (1..issued')]
    BY <1>1, <1>2 DEF Account
  <2>4. Account(T \cup N, F, G, issued', taken', functors', sending')
    BY <1>1, <1>3, <2>1, <2>2, <2>3 DEF Account
  <2> QED
    BY <2>4 DEF Accounted
<1>4. ASSUME UNCHANGED taken, NEW s \in Senders, sending' = [sending EXCEPT ![s] = len]
      PROVE  Accounted'
  <2> DEFINE K == [G EXCEPT ![s] = N]
  <2>1. \A r \in Senders : K[r] = IF r = s THEN N ELSE G[r]
    BY <1>1 DEF Account
  <2>2. /\ T \subseteq 1..issued'
        /\ F \in [1..Len(functors) -> SUBSET (1..issued')]
        /\ K \in [Senders -> SUBSET (1..issued')]
    BY <1>1, <1>2 DEF Account
  <2>3. \A r \in Senders : Cardinality(K[r]) = sending'[r]
    BY <1>1, <1>2, <1>4, <2>1 DEF Account, CInv, Types
  <2> HIDE DEF K
  <2>4. /\ \A r \in Senders : Apart(T, K[r])
        /\ \A q, r \in Senders : q # r => Apart(K[q], K[r])
        /\ \A i \in 1..Len(functors), r \in Senders : Apart(F[i], K[r])
    BY <1>1, <1>2, <2>1 DEF Account
  <2>5. Account(T, F, K, issued', taken', functors', sending')
    BY <1>1, <1>4, <2>2, <2>3, <2>4 DEF Account
  <2> QED
    BY <2>5 DEF Accounted
<1> QED
  BY <1>3, <1>4
LEMMA StepAccount ==
  ASSUME CInv, Accounted, [Next]_vars
  PROVE  Accounted'
<1>1. CASE ConnectEstablished \/ ConnectDestroyed
  BY <1>1, AccountRuns DEF ConnectEstablished, ConnectDestroyed, NextFunctor, data
<1>2. CASE RunSend
  BY <1>2, AccountRuns DEF RunSend, NextFunctor, SendInLoop, data
<1>3. ASSUME NEW len \in 1..MaxLen, Send(len) PROVE Accounted'
  <2>1. taken' = taken + len /\ len \in Nat \ {0}
    BY <1>3, BytesAssumption DEF Send, CanSend, SendInLoop
  <2> QED
    BY <1>3, <2>1, AccountIssued DEF Send, CanSend
<1>4. ASSUME NEW s \in Senders, NEW len \in 1..MaxLen, SendTest(s, len) PROVE Accounted'
  <2>1. len \in Nat \ {0}
    BY BytesAssumption
  <2> QED
    BY <1>4, <2>1, AccountIssued DEF SendTest, CanSend, data
<1>5. ASSUME NEW s \in Senders, SendQueue(s) PROVE Accounted'
  <2> DEFINE f == [op |-> "send", len |-> sending[s]]
  <2>1. /\ sending[s] > 0 /\ functors' = Append(functors, f)
        /\ sending' = [sending EXCEPT ![s] = 0] /\ UNCHANGED <<issued, taken>>
    BY <1>5 DEF SendQueue, data
  <2>2. f \in Functors /\ f.len = sending[s]
    BY <2>1, BytesAssumption DEF CInv, Types, Functors
  <2> HIDE DEF f
  <2> QED
    BY <2>1, <2>2, AccountQueued
<1>6. CASE RemoveConnectionInLoop
  <2> DEFINE f == [op |-> "destroyed", len |-> 0]
  <2>1. functors' = Append(functors, f) /\ UNCHANGED <<issued, taken, sending>>
    BY <1>6 DEF RemoveConnectionInLoop, data
  <2>2. f \in Functors /\ f.len = 0
    BY DEF Functors
  <2> HIDE DEF f
  <2> QED
    BY <2>1, <2>2, AccountQueued
<1>7. CASE UNCHANGED <<issued, taken, functors, sending>>
  BY <1>7 DEF Accounted
<1>8. \/ ConnectEstablished \/ ConnectDestroyed \/ RunSend \/ RemoveConnectionInLoop
      \/ \E len \in 1..MaxLen : Send(len)
      \/ \E s \in Senders, len \in 1..MaxLen : SendTest(s, len)
      \/ \E s \in Senders : SendQueue(s)
      \/ UNCHANGED <<issued, taken, functors, sending>>
  BY DEF Next, vars, Poll, HandlerStep, FunctorStep, CallerStep, PeerSends, PeerFinishes,
         PeerResets, PeerStep, HandleError, HandleClose, HandleReadData,
         MessageCallbackReturns, HandleReadEof, HandleReadFails, HandleWrite, Close,
         Shutdown, data, serv
<1> QED
  BY <1>1, <1>2, <1>3, <1>4, <1>5, <1>6, <1>7, <1>8

(* TypeOK: the state is well formed and sendInLoop never accepts more      *)
(* bytes than were handed to send, however many senders are between their  *)
(* test of state_ and the queue (TcpConnection.cpp:172-230).               *)
THEOREM TypeCorrect == Spec => []TypeOK
<1>1. Init => Accounted
  <2> SUFFICES ASSUME Init PROVE Accounted
    OBVIOUS
  <2> DEFINE F == [i \in 1..1 |-> {}]
             G == [s \in Senders |-> {}]
  <2>1. /\ Len(functors) = 1 /\ functors[1].len = 0 /\ issued = 0 /\ taken = 0
        /\ \A s \in Senders : sending[s] = 0
    BY DEF Init
  <2>2. Cardinality({}) = 0
    BY FS_EmptySet
  <2>3. Account({}, F, G, issued, taken, functors, sending)
    BY <2>1, <2>2 DEF Account, Apart
  <2> QED
    BY <2>3 DEF Accounted
<1>2. CInv /\ Accounted => TypeOK
  <2> SUFFICES ASSUME CInv, Accounted PROVE TypeOK
    OBVIOUS
  <2>1. PICK T, F, G : Account(T, F, G, issued, taken, functors, sending)
    BY DEF Accounted
  <2>2. issued \in Nat /\ issued <= MaxBytes
    BY BytesAssumption DEF CInv, Types
  <2>3. taken <= issued
    BY <2>1, <2>2, IssuedSets DEF Account
  <2>4. taken \in 0..MaxBytes
    BY <2>2, <2>3, BytesAssumption DEF CInv, Types
  <2> QED
    BY <2>3, <2>4 DEF CInv, Types, TypeOK
<1> QED
  BY InitCInv, InitLife, StepLife, StepAccount, <1>1, <1>2, PTL DEF Spec, SafeSpec
=============================================================================
