---------------------------- MODULE TcpConnection ----------------------------
(***************************************************************************)
(* One connection of mymuduo: TcpConnection with its Channel and the entry *)
(* the Channel has in EPollPoller, from TcpServer::newConnection to        *)
(* TcpConnection::connectDestroyed.  The actors are the I/O loop that owns *)
(* the connection, the base loop that owns TcpServer::connections_, other  *)
(* loops that call send, and the kernel with the peer.                     *)
(*                                                                         *)
(* Bytes are numbered in the order in which sendInLoop accepts them, so a  *)
(* byte lost, repeated or overtaken is visible in what the kernel gets.    *)
(* The server never sets a write-complete or high-water-mark callback, and *)
(* never destroys the TcpServer (main never leaves loop()).                *)
(***************************************************************************)
EXTENDS Integers, Sequences

CONSTANTS Senders,    \* loops other than the connection's own that call send
          MaxBytes,   \* bound on the bytes handed to send in one behaviour
          MaxLen,     \* bound on the bytes of one send
          MaxInput    \* bound on the messages the peer may have outstanding

ASSUME BytesAssumption == MaxBytes \in Nat /\ MaxLen \in Nat /\ MaxInput \in Nat

VARIABLES
  state,       \* state_
  events,      \* channel_->events_
  index,       \* channel_->index_: not known to the poller, added, deleted
  registered,  \* the socket is in the epoll set
  interest,    \* the events it is registered for
  output,      \* outputBuffer_
  issued,      \* bytes handed to send so far, for the bound
  taken,       \* bytes sendInLoop has accepted
  lost,        \* an accepted byte was dropped by the faultError branch
  wire,        \* bytes the kernel has accepted, in order
  shut,        \* shutdownWrite was called
  todo,        \* callbacks handleEventWithGuard has still to make
  inCallback,  \* messageCallback_ is running
  functors,    \* this connection's entries in the I/O loop's pendingFunctors_
  removing,    \* removeConnectionInLoop waits in the base loop
  inMap,       \* the connection is in TcpServer::connections_
  sending,     \* per foreign sender: length of the send that passed its test
  notified,    \* connectionCallback_ invocations so far, "up" or "down"
  peer,        \* open, finished writing, reset, reset and error consumed
  unread,      \* messages in the socket's receive queue
  killed       \* "no", or what ended the process

chan == <<events, index, registered, interest>>
data == <<output, taken, lost, wire>>
serv == <<functors, removing, inMap, sending, issued>>
vars == <<state, chan, data, serv, shut, todo, inCallback, notified, peer, unread, killed>>

States == {"connecting", "connected", "disconnecting", "disconnected"}
Handlers == {"close", "error", "read", "write"}
Functors == [op : {"established", "destroyed"}, len : {0}]
              \cup [op : {"send"}, len : 1..MaxLen]

(* The state is well formed; in particular no byte is accepted by          *)
(* sendInLoop that was not handed to send (TcpConnection.cpp:172-230).     *)
TypeOK ==
  /\ state \in States
  /\ events \subseteq {"read", "write"} /\ interest \subseteq {"read", "write"}
  /\ index \in {"new", "added", "deleted"}
  /\ registered \in BOOLEAN /\ lost \in BOOLEAN /\ shut \in BOOLEAN
  /\ inCallback \in BOOLEAN /\ removing \in BOOLEAN /\ inMap \in BOOLEAN
  /\ output \in Seq(Nat) /\ wire \in Seq(Nat)
  /\ taken \in 0..MaxBytes /\ issued \in 0..MaxBytes
  /\ todo \in Seq(Handlers) /\ functors \in Seq(Functors)
  /\ sending \in [Senders -> 0..MaxLen]
  /\ notified \in Seq({"up", "down"})
  /\ peer \in {"open", "fin", "reset", "gone"} /\ unread \in 0..MaxInput
  /\ killed \in {"no", "sigpipe", "epoll_ctl"}
  /\ taken <= issued

\* TcpServer::newConnection has put the connection in its map and queued
\* connectEstablished in the I/O loop.
Init ==
  /\ state = "connecting"
  /\ events = {} /\ index = "new" /\ registered = FALSE /\ interest = {}
  /\ output = <<>> /\ taken = 0 /\ lost = FALSE /\ wire = <<>>
  /\ functors = <<[op |-> "established", len |-> 0]>>
  /\ issued = 0 /\ removing = FALSE /\ inMap = TRUE /\ sending = [s \in Senders |-> 0]
  /\ shut = FALSE /\ todo = <<>> /\ inCallback = FALSE /\ notified = <<>>
  /\ peer = "open" /\ unread = 0 /\ killed = "no"

-----------------------------------------------------------------------------
(* Channel and EPollPoller.                                                *)

isWriting == "write" \in events

\* EPollPoller::update: epoll_ctl sets the entry to what ADD, MOD or DEL ask
\* for.  ADD of a known descriptor and MOD of an unknown one fail, which is
\* LOG_FATAL and exits; a failing DEL is only logged.
update(operation, ev) ==
  /\ registered' = (operation # "del") /\ interest' = ev
  /\ killed' = IF operation = (IF registered THEN "add" ELSE "mod") THEN "epoll_ctl" ELSE "no"

\* Fault: a channel without events stays registered.
UpdateChannelNoDelete(ev) ==
  /\ events' = ev /\ index' = "added"
  /\ update(IF index = "added" THEN "mod" ELSE "add", ev)

\* Channel::update after events_ became ev: EPollPoller::updateChannel.
UpdateChannel(ev) ==
  /\ events' = ev
  /\ \/ index # "added" /\ index' = "added" /\ update("add", ev)
     \/ index = "added" /\ ev = {} /\ index' = "deleted" /\ update("del", ev)
     \/ index = "added" /\ ev # {} /\ UNCHANGED index /\ update("mod", ev)

enableReading == UpdateChannel(events \cup {"read"})
enableWriting == UpdateChannel(events \cup {"write"})
disableWriting == UpdateChannel(events \ {"write"})
disableAll == UpdateChannel({})

\* EPollPoller::removeChannel.
RemoveChannel ==
  /\ index' = "new"
  /\ IF index = "added" THEN update("del", {}) ELSE UNCHANGED <<registered, interest, killed>>

-----------------------------------------------------------------------------
(* Writing.                                                                *)

Bytes(len) == [i \in 1..len |-> taken + i]
First(s, k) == SubSeq(s, 1, k)
Rest(s, k) == SubSeq(s, k + 1, Len(s))

\* What write(fd) of n bytes may do.  After a reset it returns ECONNRESET
\* once; on a socket that can no longer send it raises SIGPIPE, which the
\* program neither blocks nor ignores.  Otherwise it takes some bytes or,
\* as EWOULDBLOCK, none.
WriteTakes(n) == IF peer = "reset" \/ peer = "gone" \/ shut THEN {} ELSE 0..n
WriteReset == peer = "reset"
WriteSignals == peer = "gone" \/ (shut /\ peer # "reset")

\* sendInLoop from "if(!faultError && remaining > 0)": the k bytes the
\* kernel took are not buffered.
BufferRest(len, k) ==
  /\ output' = output \o Rest(Bytes(len), k)
  /\ IF isWriting THEN UNCHANGED <<chan, killed>>
                  ELSE enableWriting

\* Fault: a non-empty output buffer is overtaken by a direct write.
SendInLoopOvertakes(len) ==
  /\ IF state = "disconnected" THEN UNCHANGED <<chan, data, peer, killed>>
     ELSE /\ taken' = taken + len
          /\ \/ \E k \in WriteTakes(len) :
                  /\ wire' = wire \o First(Bytes(len), k)
                  /\ IF k < len THEN BufferRest(len, k)
                                ELSE UNCHANGED <<chan, output, killed>>
                  /\ UNCHANGED <<lost, peer>>
             \/ /\ WriteReset
                /\ lost' = TRUE /\ peer' = "gone"
                /\ UNCHANGED <<chan, output, wire, killed>>
             \/ /\ WriteSignals
                /\ killed' = "sigpipe"
                /\ UNCHANGED <<chan, output, lost, wire, peer>>
  /\ UNCHANGED <<state, shut>>

SendInLoop(len) ==
  /\ IF state = "disconnected" THEN UNCHANGED <<chan, data, peer, killed>>
     ELSE /\ taken' = taken + len
          /\ IF isWriting \/ output # <<>> THEN
               BufferRest(len, 0) /\ UNCHANGED <<lost, wire, peer>>
             ELSE
               \/ \E k \in WriteTakes(len) :
                    /\ wire' = wire \o First(Bytes(len), k)
                    /\ IF k < len THEN BufferRest(len, k)
                                  ELSE UNCHANGED <<chan, output, killed>>
                    /\ UNCHANGED <<lost, peer>>
               \/ /\ WriteReset
                  /\ lost' = TRUE /\ peer' = "gone"
                  /\ UNCHANGED <<chan, output, wire, killed>>
               \/ /\ WriteSignals
                  /\ killed' = "sigpipe"
                  /\ UNCHANGED <<chan, output, lost, wire, peer>>
  /\ UNCHANGED <<state, shut>>

-----------------------------------------------------------------------------
(* The I/O loop of the connection.                                         *)

Alive == killed = "no"

\* The loop is between polls and may run functors, other channels' callbacks
\* (which may send on this connection) or poll again.
Between == Alive /\ todo = <<>>

\* EPollPoller::poll and fillActiveChannels, then the order in which
\* handleEventWithGuard tests revents_.
HandlersFor(r) ==
  (IF "hup" \in r /\ "in" \notin r THEN <<"close">> ELSE <<>>)
  \o (IF "err" \in r THEN <<"error">> ELSE <<>>)
  \o (IF "in" \in r THEN <<"read">> ELSE <<>>)
  \o (IF "out" \in r THEN <<"write">> ELSE <<>>)

\* What epoll_wait may report (external: kernel).  Error and hang-up are
\* always watched; a dead socket without data may lack the input flag.
Reported(r) ==
  /\ "in" \in r => "read" \in interest /\ (unread > 0 \/ peer # "open")
  /\ unread > 0 /\ "read" \in interest => "in" \in r
  /\ "out" \in r => "write" \in interest
  /\ "hup" \in r <=> peer \in {"reset", "gone"} \/ (shut /\ peer = "fin")
  /\ "err" \in r <=> peer = "reset"
  /\ peer = "fin" /\ "read" \in interest => "in" \in r

Poll ==
  /\ Between /\ registered
  /\ \E r \in SUBSET {"in", "out", "err", "hup"} :
       Reported(r) /\ r # {} /\ todo' = HandlersFor(r)
  /\ UNCHANGED <<state, chan, data, serv, shut, inCallback, notified, peer, unread, killed>>

Handling(h) == Alive /\ todo # <<>> /\ Head(todo) = h /\ ~inCallback

HandleError ==
  /\ Handling("error")
  /\ todo' = Tail(todo)
  /\ peer' = IF peer = "reset" THEN "gone" ELSE peer
  /\ UNCHANGED <<state, chan, data, serv, shut, inCallback, notified, unread, killed>>

\* Fault: closeCallback_ is not called.
CloseUnreported ==
  /\ state' = "disconnected"
  /\ disableAll
  /\ notified' = Append(notified, "down")
  /\ todo' = Tail(todo)
  /\ UNCHANGED <<data, serv, shut, inCallback, peer, unread>>

\* TcpConnection::handleClose, then TcpServer::removeConnection.
Close ==
  /\ state' = "disconnected"
  /\ disableAll
  /\ notified' = Append(notified, "down")
  /\ removing' = TRUE
  /\ todo' = Tail(todo)
  /\ UNCHANGED <<data, functors, inMap, sending, issued, shut, inCallback, peer, unread>>

HandleClose == Handling("close") /\ Close

\* readFd returned data: messageCallback_ starts.
HandleReadData ==
  /\ Handling("read") /\ unread > 0
  /\ \E n \in 1..unread : unread' = unread - n
  /\ inCallback' = TRUE
  /\ UNCHANGED <<state, chan, data, serv, shut, todo, notified, peer, killed>>

MessageCallbackReturns ==
  /\ Alive /\ inCallback
  /\ inCallback' = FALSE
  /\ todo' = Tail(todo)
  /\ UNCHANGED <<state, chan, data, serv, shut, notified, peer, unread, killed>>

\* Fault: a peer that stops writing does not close the connection.
HandleReadEofIgnored ==
  /\ Handling("read") /\ unread = 0 /\ peer \in {"fin", "gone"}
  /\ todo' = Tail(todo)
  /\ UNCHANGED <<state, chan, data, serv, shut, inCallback, notified, peer, unread, killed>>

\* readFd returned 0.
HandleReadEof ==
  /\ Handling("read") /\ unread = 0 /\ peer \in {"fin", "gone"}
  /\ Close

\* readFd failed, after a reset or transiently: handleError only reads
\* SO_ERROR and logs; the next poll reports the socket again.
HandleReadFails ==
  /\ Handling("read")
  /\ todo' = Tail(todo)
  /\ peer' = IF peer = "reset" THEN "gone" ELSE peer
  /\ UNCHANGED <<state, chan, data, serv, shut, inCallback, notified, unread, killed>>

\* Fault: the shutdown that waited for the output buffer is forgotten.
ShutdownWhenFlushedNever == UNCHANGED shut

\* handleWrite, output buffer empty: shutdownInLoop if one is waiting.  The
\* channel has just stopped writing.
ShutdownWhenFlushed == shut' = (shut \/ state = "disconnecting")

\* Fault: interest stays on when the buffer has been flushed.
WroteKeepsInterest(k) ==
  /\ wire' = wire \o First(output, k)
  /\ output' = Rest(output, k)
  /\ IF k = Len(output) THEN ShutdownWhenFlushed ELSE UNCHANGED shut
  /\ UNCHANGED <<chan, killed>>

\* handleWrite after write() took k > 0 bytes.
Wrote(k) ==
  /\ wire' = wire \o First(output, k)
  /\ output' = Rest(output, k)
  /\ IF k = Len(output) THEN disableWriting /\ ShutdownWhenFlushed
                        ELSE UNCHANGED <<chan, killed, shut>>

HandleWrite ==
  /\ Handling("write")
  /\ todo' = Tail(todo)
  /\ \/ /\ isWriting
        /\ \E k \in WriteTakes(Len(output)) \ {0} : Wrote(k)
        /\ UNCHANGED peer
     \/ /\ isWriting /\ WriteSignals
        /\ killed' = "sigpipe"
        /\ UNCHANGED <<chan, output, wire, shut, peer>>
     \/ /\ isWriting => 0 \in WriteTakes(Len(output)) \/ WriteReset
        /\ peer' = IF isWriting /\ WriteReset THEN "gone" ELSE peer
        /\ UNCHANGED <<chan, output, wire, shut, killed>>
  /\ UNCHANGED <<state, taken, lost, serv, inCallback, notified, unread>>

-----------------------------------------------------------------------------
(* Functors of the I/O loop, in the order they were queued.                *)

NextFunctor(op) == Between /\ functors # <<>> /\ Head(functors).op = op

ConnectEstablished ==
  /\ NextFunctor("established")
  /\ functors' = Tail(functors)
  /\ state' = "connected"
  /\ enableReading
  /\ notified' = Append(notified, "up")
  /\ UNCHANGED <<data, removing, inMap, sending, issued, shut, todo, inCallback, peer, unread>>

\* Fault: the functor stays queued and is run again.
RunSendAgain ==
  /\ NextFunctor("send")
  /\ SendInLoop(Head(functors).len)
  /\ UNCHANGED <<serv, todo, inCallback, notified, unread>>

RunSend ==
  /\ NextFunctor("send")
  /\ functors' = Tail(functors)
  /\ SendInLoop(Head(functors).len)
  /\ UNCHANGED <<removing, inMap, sending, issued, todo, inCallback, notified, unread>>

\* Fault: the connection callback is called without looking at state_.
ConnectDestroyedNotifies ==
  /\ NextFunctor("destroyed")
  /\ functors' = Tail(functors)
  /\ state' = "disconnected" /\ events' = {}
  /\ index' = "new" /\ registered' = FALSE /\ interest' = {}
  /\ notified' = Append(notified, "down")
  /\ UNCHANGED <<data, removing, inMap, sending, issued, shut, todo, inCallback, peer, unread, killed>>

\* connectDestroyed.  The branch for a connection still up is taken only
\* when the TcpServer is destroyed.
ConnectDestroyed ==
  /\ NextFunctor("destroyed")
  /\ functors' = Tail(functors)
  /\ IF state = "connected" THEN
       /\ state' = "disconnected" /\ events' = {}
       /\ index' = "new" /\ registered' = FALSE /\ interest' = {}
       /\ notified' = Append(notified, "down")
     ELSE RemoveChannel /\ UNCHANGED <<state, events, notified>>
  /\ UNCHANGED <<data, removing, inMap, sending, issued, shut, todo, inCallback, peer, unread, killed>>

-----------------------------------------------------------------------------
(* send and shutdown.  In the loop thread they run to the end at once,     *)
(* from this connection's callback or another's; elsewhere send tests      *)
(* state_ and only later is sendInLoop in the queue.                       *)

CanSend(len) ==
  /\ Alive /\ state = "connected"
  /\ issued + len <= MaxBytes /\ issued' = issued + len

Send(len) ==
  /\ CanSend(len)
  /\ SendInLoop(len)
  /\ UNCHANGED <<functors, removing, inMap, sending, todo, inCallback, notified, unread>>

SendTest(s, len) ==
  /\ CanSend(len) /\ sending[s] = 0
  /\ sending' = [sending EXCEPT ![s] = len]
  /\ UNCHANGED <<state, chan, data, functors, removing, inMap, shut, todo,
                 inCallback, notified, peer, unread, killed>>

SendQueue(s) ==
  /\ Alive /\ sending[s] > 0
  /\ functors' = Append(functors, [op |-> "send", len |-> sending[s]])
  /\ sending' = [sending EXCEPT ![s] = 0]
  /\ UNCHANGED <<state, chan, data, removing, inMap, issued, shut, todo, inCallback,
                 notified, peer, unread, killed>>

\* Fault: shutdown does not wait for the output buffer.
ShutdownAtOnce ==
  /\ Alive /\ inCallback /\ state = "connected"
  /\ state' = "disconnecting"
  /\ shut' = TRUE
  /\ UNCHANGED <<chan, data, serv, todo, inCallback, notified, peer, unread, killed>>

\* shutdown and shutdownInLoop, always called by this server in the
\* connection's own message callback.
Shutdown ==
  /\ Alive /\ inCallback /\ state = "connected"
  /\ state' = "disconnecting"
  /\ shut' = (shut \/ ~isWriting)
  /\ UNCHANGED <<chan, data, serv, todo, inCallback, notified, peer, unread, killed>>

-----------------------------------------------------------------------------
(* The base loop, and the peer with the kernel (external).                 *)

RemoveConnectionInLoop ==
  /\ Alive /\ removing
  /\ removing' = FALSE /\ inMap' = FALSE
  /\ functors' = Append(functors, [op |-> "destroyed", len |-> 0])
  /\ UNCHANGED <<state, chan, data, sending, issued, shut, todo, inCallback, notified,
                 peer, unread, killed>>

PeerStep(p, u) ==
  /\ Alive /\ peer' = p /\ unread' = u
  /\ UNCHANGED <<state, chan, data, serv, shut, todo, inCallback, notified, killed>>

PeerSends == peer = "open" /\ unread < MaxInput /\ PeerStep(peer, unread + 1)
PeerFinishes == peer = "open" /\ PeerStep("fin", unread)
PeerResets == peer \in {"open", "fin"} /\ PeerStep(IF peer = "open" THEN "reset" ELSE "gone", unread)

-----------------------------------------------------------------------------
HandlerStep ==
  \/ HandleError \/ HandleClose \/ HandleReadData \/ MessageCallbackReturns
  \/ HandleReadEof \/ HandleReadFails \/ HandleWrite

FunctorStep == ConnectEstablished \/ RunSend \/ ConnectDestroyed

CallerStep ==
  \/ \E len \in 1..MaxLen : Send(len)
  \/ \E s \in Senders, len \in 1..MaxLen : SendTest(s, len)
  \/ \E s \in Senders : SendQueue(s)
  \/ Shutdown

Next == Poll \/ HandlerStep \/ FunctorStep \/ CallerStep \/ RemoveConnectionInLoop
          \/ PeerSends \/ PeerFinishes \/ PeerResets

SafeSpec == Init /\ [][Next]_vars

(* The I/O loop finishes the callbacks of an event, and both polls and     *)
(* runs its functors in every round of EventLoop::loop; the base loop runs *)
(* its functors; a sender inside send finishes the call; read() does not  *)
(* fail transiently for ever (SF is over a handler whose event is level-   *)
(* triggered, so it is offered again in every round).  DrainFairness       *)
(* adds the assumption on the environment under which output is flushed:   *)
(* a peer that keeps reading, so that the socket keeps becoming writable   *)
(* and write() keeps taking bytes.                                         *)
Fairness ==
  /\ WF_vars(HandlerStep) /\ SF_vars(Poll) /\ SF_vars(FunctorStep)
  /\ SF_vars(HandleReadData \/ HandleReadEof)
  /\ WF_vars(RemoveConnectionInLoop)
  /\ \A s \in Senders : WF_vars(SendQueue(s))

PollWritable == Poll /\ \E i \in 1..Len(todo') : todo'[i] = "write"

DrainFairness == SF_vars(PollWritable) /\ SF_vars(HandleWrite /\ wire' # wire)

Spec == SafeSpec /\ Fairness /\ DrainFairness

-----------------------------------------------------------------------------
(* What sendInLoop accepts reaches the kernel in order and exactly once:   *)
(* the bytes written followed by the bytes buffered are 1, 2, 3, ..., all  *)
(* of the accepted ones unless a reset made sendInLoop drop some, and then *)
(* nothing is left to overtake them (TcpConnection.cpp:129-148,172-207).   *)
BytesInOrder ==
  LET all == wire \o output
  IN  /\ \A i \in 1..Len(all) : all[i] = i
      /\ Alive /\ ~lost => Len(all) = taken
      /\ lost => output = <<>>

(* While the connection is up the channel watches for writability exactly  *)
(* when there is something to write: no flush waits for an event that      *)
(* cannot come, and no idle socket spins the loop                          *)
(* (TcpConnection.cpp:129-148,172-212).                                    *)
WriteInterest ==
  Alive /\ state # "disconnected" => (isWriting <=> output # <<>>)

(* The write side is shut only behind the last accepted byte: shutdown()   *)
(* called with output pending waits for handleWrite, also when other       *)
(* loops' sends are still queued (TcpConnection.cpp:139-140,209-237).      *)
FinAfterFlush == shut => output = <<>> /\ (Alive /\ ~lost => Len(wire) = taken)

(* Channel::index_, the epoll set and events_ agree, so epoll_ctl ADD or   *)
(* MOD never fails and LOG_FATAL never ends the process; a connection that *)
(* is down gets no more events (EPollPoller.cpp:50-83).                    *)
PollerInSync ==
  /\ killed # "epoll_ctl"
  /\ registered <=> index = "added"
  /\ registered => interest = events
  /\ registered <=> state \in {"connected", "disconnecting"}

(* A connection has one life: its callback is called for UP once and then  *)
(* for DOWN once, as the state changes, and a closed connection is removed *)
(* exactly once, whoever else still has functors queued for it: it waits   *)
(* in the base loop, or connectDestroyed is queued, or it is gone from map *)
(* and poller (TcpConnection.cpp:94-109,150-158, TcpServer.cpp:105-115).   *)
UpThenDown ==
  notified = CASE state = "connecting" -> <<>>
               [] state \in {"connected", "disconnecting"} -> <<"up">>
               [] state = "disconnected" -> <<"up", "down">>

Destroying == {i \in 1..Len(functors) : functors[i].op = "destroyed"}

Destroyed == state = "disconnected" /\ index = "new"

RemovedOnce ==
  IF state # "disconnected" THEN inMap /\ ~removing /\ Destroying = {}
  ELSE \/ removing /\ inMap /\ Destroying = {} /\ ~Destroyed
       \/ ~removing /\ ~inMap /\ ~Destroyed /\ \E i \in Destroying : Destroying = {i}
       \/ ~removing /\ ~inMap /\ Destroyed /\ Destroying = {}

OneLife == UpThenDown /\ RemovedOnce

(* A connection whose peer finished or reset it is destroyed, with no help *)
(* from a timer (TcpConnection.cpp:115-127,150-158; TcpServer.cpp:105-115).*)
PeerGoneIsReaped == (peer # "open") ~> (Destroyed \/ ~Alive)

(* A shutdown asked for with output pending is carried out once the peer   *)
(* has read the output, or the connection closes first                     *)
(* (TcpConnection.cpp:139-140,209-237).                                    *)
ShutdownCompletes ==
  (state = "disconnecting") ~> (shut \/ state = "disconnected" \/ ~Alive)
=============================================================================
