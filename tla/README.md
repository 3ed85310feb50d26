# Verification of MyTestserver

TLA+ models of the chat server and of `mymuduo`, the event-driven network
library it is built on, with TLC configurations that check them on small
instances and TLAPS proofs of their central invariants. Paths below are those of
the repository; `module` names are files of this directory.

## 1. The system

`main` builds a `ChatServer` on a base `EventLoop` with a pool of I/O loops (three,
`ChatServer.cpp:21`), each in a thread of its own. A browser
(`web/chat.html`) opens a TCP connection, upgrades it to WebSocket and exchanges
JSON messages; the server keeps users and messages in MySQL and forwards each
chat message to every session.

| Component | State | Operations | Talks to |
|---|---|---|---|
| `EventLoop` | `quit_`, `looping_`, `pendingFunctors_` under `mutex_`, `callingPendingFunctors_`, the eventfd | `loop`, `quit`, `runInLoop`, `queueInLoop`, `wakeup` | poller, every component that crosses threads |
| `Channel`, `EPollPoller` | `events_`, `index_`, the epoll set | `enable*`, `disable*`, `handleEvent`, `updateChannel`, `removeChannel`, `poll` | kernel, `TcpConnection`, `TimerQueue` |
| `TcpConnection` | `state_`, output and input buffers | `send`, `shutdown`, `handleRead/Write/Close/Error`, `connectEstablished`, `connectDestroyed` | its loop, `TcpServer`, application callbacks |
| `TcpServer`, `Acceptor` | `connections_`, round-robin index | `newConnection`, `removeConnection` | base loop, I/O loops |
| `EventLoopThread(Pool)`, `Thread` | `loop_` under a mutex and a condition variable | `startLoop`, `getNextLoop` | `TcpServer` |
| `Buffer` | vector, `readerIndex_`, `writerIndex_` | `append`, `retrieve`, `readFd`, `makeSpace` | `TcpConnection`, `ChatServer` |
| `TimerQueue`, `Timer` | `timers_`, `activeTimers_`, `cancelingTimers_`, the timerfd | `addTimer`, `cancel`, `handleRead`, `reset` | its loop |
| `ChatServer` | `connectionStates_` (handshake done, user name) | `onConnection`, `onMessage`, dispatch of requests | `ChatService`, `WebSocketHandler` |
| `WebSocketHandler` | none | `isWebSocketUpgrade`, `parseFrame`, `encodeFrame` | `ChatServer`, `ChatService` |
| `ChatService`, `SessionManager` | `sessions_` under `mutex_` | register, login, logout, chat, heartbeat, history, disconnect, keep-alive | DAOs, connections of every loop |
| `UserDao`, `MessageDao`, `DbConnection` | one `MYSQL` handle each, `connected_` | `insertUser`, `verifyUser`, `getUserByUsername`, `saveMessage`, `getRecentMessages`, `heartBeat` | MySQL |

What is hard here: functors cross threads and the decision to wake a loop is
made outside the lock; one epoll result triggers several callbacks; direct
writes, buffered output and sends of other loops compete for a socket; sends
queued by other loops hold bare pointers; one request takes several critical
sections and database calls, which interleave with those of other loops; TCP
cuts the stream anywhere; a client can ask for a second name while it is in
session;
every loop uses the same two `MYSQL` handles without a lock, and the server
behind them may go away.
`PROJECT.json` lists these hazards line by line, with the properties that
cover each or the reason why none does.

What makes each component correct:

- *EventLoop*: no functor and no quit is lost, functors run once and in order.
- *TcpConnection*: bytes in order, write interest exactly while there is output,
  the FIN behind the data, the epoll entry in step with the channel, UP once
  and DOWN once, removed once, and dead connections reaped.
- *TcpServer*: start-up ends, connections are spread evenly, established and given
  back, and a reused descriptor never confuses two of them.
- *Buffer*: a FIFO byte queue whose indices never cross and which does not grow
  without need.
- *TimerQueue*: the timerfd never late, cancelled timers dead, others run.
- *WebSocket framing*: what is handled depends on the bytes, not on the cuts;
  the client can read what the server writes, whatever its length.
- *Chat*: sessions do not outlive connections (those of a client that logs in under
  a second name do), a sender's messages stay in order, queued broadcasts never meet
  a freed connection, nobody misses a message by joining while it is sent.
- *Database*: a thread gets the result of its own statement, nobody logs in or
  is told to be registered falsely, the keep-alive timer does not miss a lost connection.

## 2. The modules

Every module has one action per operation or, where another thread can come in
between, per step of it. Operators marked "Fault" are mutations of the operator
that follows them, kept to show that the properties can fail.

**`EventLoop`** (with `FunctorQueue` as its abstract specification). `pc` is the
place of the loop thread in `loop()`: `test` the loop condition, `poll` inside
`epoll_wait`, `events` running channel callbacks, `swap` and `run` inside
`doPendingFunctors`. `queueInLoop` is two actions, `QueueInLoop` (append under
the mutex) and `QueueInLoopWakeup` (the test and the write to the eventfd), and so
is `quit`. The loop thread may call both from inside a callback. Functors are
numbered as they are queued. `FunctorQueue` is a FIFO queue with a `Run` that is
weakly fair; the mapping takes the swapped-out vector followed by
`pendingFunctors_` for its queue.

**`TcpConnection`**: one connection with its channel and epoll entry, from
`TcpServer::newConnection` (the initial state) to `connectDestroyed`. `Poll` puts
into `todo` the callbacks `handleEventWithGuard` will make for the reported
events, and the handlers run from there one at a time, each finding the
state the earlier ones left. `send` from the owning loop is one action, from
another loop it is `SendTest` (the test of `state_`), `SendQueue` and, in the
connection's loop, `RunSend`. A write may take any number of the bytes, fail
with EAGAIN, fail with a reset, or raise SIGPIPE, which ends the process
(`killed`), as does an `epoll_ctl` that fails. Bytes are numbered as `sendInLoop`
accepts them.

**`TcpServer`**: start-up and the connections of all loops. `Spawn`, `SemWait`,
`StartLoop` are main's thread in `EventLoopThreadPool::start`, `SemPost`,
`MakeLoop`, `Publish`, `EnterLoop` a thread of the pool; a critical section of
`EventLoopThread::mutex_` is one step and `cond_.wait` may return spuriously.
`NewConnection` is `Acceptor::handleRead` with `newConnection` and `getNextLoop`, and
the kernel gives any descriptor that is not open. A closed connection travels
through `remove` in the base loop and `destroyed` in its own; only then may its
descriptor be closed and reused. `numThreads` starts with any value up to the
bound, so the server without I/O threads is covered too.

**`Buffer`** (with `ByteQueue` as its abstract specification): the methods are
operators on a record of vector, size and indices, composed as the methods call
each other; the actions are `append`, `readFd` and `retrieve`.

**`TimerQueue`**: `addTimer`, `cancel`, `handleRead` (`HandleRead` takes the expired
timers out, `Run` runs one callback, `Reset` puts repeating timers back), and
`Tick`, the clock. Time is relative, which makes the state space finite with no
bound on the length of a behaviour. `AddTimer` and `Cancel` are enabled between
callbacks and inside them. Nothing in the repository calls `cancel`: `CancelStops` is about
the class as it stands, the program only adds the keep-alive timer.

**`FrameCodec`**: `parseFrame` and `encodeFrame` as operators on a frame's header
and a number of bytes. `Base` is the number of values of a byte and `Max7` the largest
7-bit length, so that TLC checks a scaled-down codec and the proof is about the
real one; `SizeMod` is where sums of `size_t` wrap around.

**`WebSocket`**: `onMessage` on a stream that `ReceiveRequest` and `Receive` cut
arbitrarily. The HTTP request is `ReqLen` bytes, of which `PathEnd`, `KeyStart` and
`KeyEnd` say what a part of it must include to look like a GET or an upgrade. Frames
are text, close or other, with or without FIN and mask. A frame without a
mask is decoded with an uninitialised key, so its text may come out as anything
(`Unmasked`). Every handled text is answered by a message of any length up to a bound.
The reference the codec is checked against (`LengthField`) is RFC 6455. `Ends` are
the places of the byte stream where frames end; what `HandledIsArrived` says is
handled is stated by them alone: the frames that end in front of what was received.
Every read before the handshake is taken for a whole request; that a client still gets
no second answer is `AnsweredOnce`, that it is answered too early is `AnswersFullRequest`.

**`Chat`**: connections on several I/O loops. A handler is a record: the step it
is at, its connection, user name and locals. Each critical section of
`SessionManager::mutex_` and each database call is a step, `broadcastToAll` holds
the mutex over several. Functors queued for another loop are `broadcast`, `beat`
and `destroyed` entries of its queue. A `MYSQL` call is a step with both outcomes.
`saved` is the table of messages, each with the second it was stored in, and `seen` what
each client's page shows: a history replaces it, a broadcast adds to it, as in
`chat.html`. A history (`RecentMessages`) has the `HistoryLimit` newest rows, 50 in the
program, and of rows of one second any may be cut off; `listed` keeps which rows it had.
A client may send LOGIN at any time, for any name. `renamed` records the connections
that did so while in session under another name: their first session stays in the table
and nothing leads from the connection to it any more, which is where
`NoGhostSession` and `BroadcastTargetsAlive` end. The frame of a broadcast
lives in its sender's `handleChat`, so a functor that runs after
that has returned reads anything (`Contents`).

**`Database`**: the DAOs under all threads. A statement is as many steps as the
calls it makes into the client library: `escape` (`CallEscape`), which relies on the
DAO having asked `connected()`, into and out of `mysql_query`, which `query` and
`execute` guard themselves, and for a
SELECT into and out of `mysql_store_result`. What a request does with the result,
up to its next statement, is in the step that returns it. The library is
external: a query fails while another's result waits ("commands out of
sync") or after the server has dropped the connection (`Lose`), an INSERT may be carried
out and its reply be lost, and two threads inside
`mysql_query` or `mysql_store_result` with one handle are a data race, after which the
handle is `torn` and its
calls crash, fail or return anything. Escaping reads the handle only: it needs one that
is not closed, and does not tear it. `HeartBeat` is the keep-alive timer of
the base loop; a `LOG_FATAL` ends the process. The schema is not in the repository,
so the unique key on the user name is a constant, `UniqueKey`.

`EventLoopProofs`, `TcpConnectionProofs`, `TcpServerProofs`, `BufferProofs`,
`TimerQueueProofs`, `WebSocketProofs`, `ChatProofs` and `DatabaseProofs` hold the
theorems; `MC*` instantiate modules for TLC.

The modules fit together by what they leave to each other: `Chat`'s functor
queues behave as `EventLoop` is shown to implement them (FIFO, each once), its
connections are the states of `TcpConnection`, whose UP-once, DOWN-once and
removed-once `Chat` and `TcpServer` rely on, `WebSocket` assumes of the input buffer what
`Buffer` is shown to implement and uses the codec of `FrameCodec`, and `Chat`'s database
steps have the outcomes `Database` derives from the calls they make. The timer
of `Database` keeps firing because of `TimersRun` of `TimerQueue`.

## 3. The runs

| Run | Instance | Shows |
|---|---|---|
| `event_loop` | 2 foreign threads, 3 functors | no wake-up or quit lost (`NoLostWakeup`, `NoLostQuit`), every quit obeyed (`QuitStops`), refinement of `FunctorQueue` with its fairness: functors run once, in order and without waiting for the poll timeout (`ImplementsQueue`) |
| `tcp_connection` | 2 foreign senders, 3 bytes in sends of 1 or 2, 1 unread message | `BytesInOrder`, `WriteInterest`, `FinAfterFlush`, `PollerInSync`, UP once, DOWN once and removed once (`OneLife`); `PeerGoneIsReaped`, `ShutdownCompletes` |
| `tcp_server` | 0 to 3 I/O loops, 4 connections, 3 descriptors | start-up ends (`StartCompletes`), the load is even (`Balanced`), every connection is established and gives its descriptor back (`ConnectionsServed`), `channels_` finds each live connection although descriptors are reused (`ChannelFound`) |
| `buffer` | 2 + 2 cells, stack buffer of 3, 7 bytes | `IndicesOrdered`, `GrowsOnlyWhenFull`, refinement of `ByteQueue` |
| `timer_queue` | 2 timers, delays and intervals up to 2 ticks | `AlarmArmed`, `CancelStops`, `TimersRun` |
| `websocket` | a request of 4 bytes, up to 2 text, close and ping frames with and without FIN and mask, all three forms of the length | exactly the complete text frames in front of a close or unsupported frame are handled, in order (`HandledIsArrived`); no second answer to a request (`AnsweredOnce`); replies of every length are read back (`RepliesReadBack`) |
| `chat` | 2 clients on 2 loops, 2 users, up to 4 LOGINs and 2 messages, a history of 1 | only a client that took a second name leaves a session behind (`NoGhostSession`), no broadcast queued for another client meets a freed connection (`BroadcastTargetsAlive`), `SenderOrder`, and whoever joins while messages are sent misses none that a full history did not cut off (`NoGap`) |
| `database` | 2 I/O loops and the base loop, 2 users, 2 passwords | short of a data race in the library: a thread stores the result of its own query (`OwnResult`), logins and registrations that succeed are true, whoever's answer another thread is waiting for (`NoFalseLogin`, `RegisteredIsStored`), a closed handle is not used (`TypeOK`), and no beat of the keep-alive timer gets past a handle without a connection (`LostIsFatal`) |

Each but `buffer` also checks its module's `TypeOK`, which carries the relations between
variables that the other properties take for granted (which phase sets
`callingPendingFunctors_`, that the session mutex is held inside `broadcastToAll` and
nowhere else, that `timers_` and `activeTimers_` agree, whose result waits to be stored).

Four runs show the code doing something else than a comment of it
says; each is a finding in `PROJECT.json`:

| Run | Property | What happens |
|---|---|---|
| `chat_reach` | `BroadcastReachesAll` | `isOnline` and `addSession` are two critical sections: two clients log in under one name, the second takes the session, and the first, told that it is logged in, gets no broadcasts |
| `chat_intact` | `BroadcastIntact` | the functor that sends a broadcast to a client of another loop points into a local string of `handleChat`, which may have returned: the client is sent other bytes |
| `websocket_ping` | `OnlyIncompleteLeft` | a complete ping (or any frame but a whole text or close) is taken for an incomplete one and blocks the connection |
| `websocket_request` | `AnswersFullRequest` | "need full request in buffer", and the code answers whatever part of the request has arrived: a GET cut before the end of its path is answered by 400, an upgrade cut behind its path like a GET for a file (`Refuse`), and an upgrade cut after its headers is accepted and what follows is read as frames (`Upgrade`, phase `garbled`) |

Read off the models without a run of their own:

- `ChatServer.cpp:203` says "Get message history after successful login", and
  `handleLogin` having no result, a refused client gets the history too
  (`GetHistory` follows every outcome of `VerifyUser`).
- `ChatService.cpp:71` refuses a LOGIN with "User already logged in". A client logs in, logs
  in again under another name and disconnects: only the second name's session is removed,
  and whoever logs in under the first is refused with these words from then on although
  nobody is. This is why `NoGhostSession` excepts `renamed`.
- `BroadcastTargetsAlive` fails without its exception for `renamed`: a client logs in, asks for
  a second name and is refused, and sends LOGOUT, which removes no session and clears its
  name. A broadcast finds the first session while the connection is still up; the
  client's DOWN has no name to remove, so it does not wait for the session mutex the
  broadcast holds, and the connection can be destroyed before the functor queued for
  it runs.
- The keep-alive SELECT of the base loop fails as out of sync when an I/O loop has
  a result waiting, and `LOG_FATAL` says "disconnection" and ends the server although
  the connection is fine (`HeartBeat` after `SelectReturns` with another's result).

### Bounds

- *Functors 3, threads 2*: one functor running, one swapped out with it, one
  newly queued, while both threads are between append and wake-up.
- *Bytes 3, sends of 1 or 2*: part written, part buffered, part still queued by
  another loop. All but the number of bytes is bounded by the model itself.
- *Loops 0 to 3, connections 4, descriptors 3*: the index wraps, and a fourth
  connection can only have a reused descriptor.
- *Buffer sizes*: each append can fit, be fitted by compaction, or force growth,
  and a read can spill into the stack buffer. The proofs cover the real sizes.
- *Timers 2, 2 ticks*: one can be in the batch while another waits; a callback
  can take longer than the interval (`age` reaches past it).
- *WebSocket*: `Base = 2` and `Max7 = 1` scale 125 and 65535 to 1 and 3, so
  that a payload of at most 4 reaches each form; replies go up to 8. Header sizes
  are the real ones. Two frames: one that is complete, behind or in front of
  one that is not, of another kind, or partly there. `CodecRoundTrip` is about
  the real sizes.
- *Chat*: two connections are enough for every pairwise race of handlers,
  `MaxMsgs = 2` for overtaking and for one message being saved while the other is in a
  history, and `HistoryLimit = 1` for one being cut off by the other, in the same second or
  a later one. `MaxLogins` counts the LOGINs of both clients, and `LoginsAndMessages` bounds
  them together with the messages: 2 LOGINs and 2 messages, 3 and 1 or 4 and none. Two are
  two first logins, or a first and a second name; with three a client can come under a name
  another has left behind. `MaxQueued` bounds only heartbeats, which a client
  may send without limit. `ChatSymmetry` is sound as users are only compared and the two
  loops differ in nothing but the names of themselves and their clients.
- *Database*: two I/O loops and the timer are three threads between the calls of
  one handle; two names and two passwords are a login with the wrong one, an answer about
  another's name, and two competing registrations. Loops, names and passwords are only
  compared, so `Symmetric` is sound. The handles may start closed or connected and be lost
  at any time.
  `UserHandleSound` ends the exploration at a data race on the user handle, after which
  nothing is stated of users; what follows a race on the message handle is explored.
  The theorems are about any number.

Deadlock is not checked where the system may come to rest: a loop that has quit,
a connection that is destroyed, all bytes or messages of a bound used up.
`timer_queue` checks it.

### Fairness

- `EventLoop`: the loop thread goes on, callbacks return, a caller inside
  `queueInLoop` or `quit` finishes, a readable eventfd ends `epoll_wait`. Nothing
  is assumed of the ten-second timeout or of other traffic.
- `TcpConnection`: the loop polls and runs its functors in every round, hence
  strong fairness of `Poll` and `FunctorStep`, which other steps of the round
  disable; read events are level-triggered, so a handler that is offered again
  and again is not starved by transient errors. `DrainFairness` is an assumption
  on the environment: a peer that keeps reading. Only `ShutdownCompletes` is about it.
- `TcpServer`: threads go on, loops run their functors, and a handler that holds a
  copy of a connection's pointer ends. Nothing is assumed of spurious wake-ups.
- `TimerQueue`: time passes, the loop polls and finishes `handleRead`.

`Chat` and `Database` state no fairness. A handler of `Chat` waits only for the session
mutex, and `TypeOK` says that whoever holds it is inside `broadcastToAll`, where nothing
waits. That the next beat `LostIsFatal` speaks of comes at all is `TimersRun`.

### Environment

Clients behave as `web/chat.html` does: they mask frames, send LOGIN as often as
the button is pressed, also while logged in, other requests only once
logged in, and nothing after a LOGOUT was answered. The length a frame's header
gives is the length of its payload. TCP delivers bytes in order. The wall
clock is not set back.

## 4. The proofs

Every invariant and every action property that a passing run checks is a theorem
here. All theorems are about the safety part of a specification and hold for every
value of the constants that satisfies the module's assumptions: a loop thread
that is not one of the others; natural numbers for sizes and bounds; distinct
"none" values; for the framing, a byte of at least two values, and payloads that a
length field can say and that a `size_t` can count together with their header
(`FrameAssumption`; without the latter `pos + payloadLen` wraps around in
`parseFrame`). A bound such as `MaxBytes`, `MaxFrames` or `MaxMsgs` is a constant
like the others, so a theorem is about behaviours with any number of bytes, frames or
messages.

| Theorem | Says | Argument |
|---|---|---|
| `EventLoopProofs!TypeCorrect`, `NoWakeupLost`, `NoQuitLost` | `TypeOK`, `NoLostWakeup`, `NoLostQuit` | `CInv`. `NoLostWakeup` is not inductive: it says nothing while callbacks run. `WakeupInv` extends it over the phases in which a queued functor will still be swapped out, and `LoopCallsInCallback` says that the loop thread makes calls only inside callbacks |
| `FunctorsInOrder` | `AllInOrder`: functors run once each, in the order queued | the concatenation of the three sequences only ever grows at its end |
| `LoopImplementsQueue` | `SafeSpec => FQ!SafeSpec` | each step maps to `Enqueue`, `Run`, `Close` or a stutter |
| `TcpConnectionProofs!PollerStaysInSync`, `WatchesWhatItOwes` | `PollerInSync`, `WriteInterest` | `CInv`, which has both as conjuncts. They depend on the order in which callbacks and functors can come: `connectEstablished` is the first functor and runs once (`FunctorInv`), one event brings at most one callback that can close the connection and none once it is closed (`TodoInv`), a connection that is up always reads and one that is not watches nothing (`EventsInv`), nothing is buffered behind a lost byte or a FIN (`FlowInv`) |
| `LivesOnce` | `OneLife` | inductive together with `CInv`: a second `handleClose` would need a closing callback in `todo` after the first |
| `BytesStayInOrder`, `FinIsLast` | `BytesInOrder`, `FinAfterFlush` | step by step from `CInv`: a direct write happens only with an empty output buffer |
| `TypeCorrect` | `TypeOK`, with `taken <= issued` | the bytes accepted, those in queued functors and those of senders between test and queue are disjoint sets of bytes issued (`Accounted`); their cardinalities add up to no more than what was issued |
| `TcpServerProofs!TypeCorrect` | `TypeOK` | `PInv`: threads are started one after the other, a semaphore is posted only by its thread, a loop is published by its own thread |
| `ChannelsFound` | `ChannelFound` | `SInv`: a connection has a descriptor of its own from accept to its destructor, which `connectDestroyed` precedes (`ConnInv`), and the one functor of a connection that waits anywhere fits its state (`QueueInv`) |
| `StaysBalanced` | `Balanced` | `TurnInv`: the loops in front of the index have had one connection more than the others |
| `BufferProofs!IndicesInOrder`, `GrowthBounded`, `BufferIsQueue` | `TypeOK` and `IndicesOrdered`; `GrowsOnlyWhenFull`; `ImplementsByteQueue` | `BInv`: well-formed and ordered. One lemma per method says what it does to the readable bytes, for any lengths |
| `TimerQueueProofs!TimersAgree`, `AlarmAlwaysArmed`, `CancelIsFinal` | `TypeOK`, `AlarmArmed`, `CancelStops` | `TypeOK` is inductive as it stands, the other two follow from it step by step |
| `WebSocketProofs!CodecRoundTrip` | `parseFrame` accepts what `encodeFrame` makes exactly when all its bytes are there, and takes exactly those | shifting and masking put a number together again (`DivMod`, `WideReadBack`); no overflow, as the frame's size is a `size_t` |
| `RepliesAreReadBack` | `RepliesReadBack` | `ReplyEncoded`: the header of a reply is the one `encodeFrame` makes of its length; its bytes are the digits of that length |
| `OneAnswer` | `AnsweredOnce` | `RequestInv`: every answer but 101 has closed the connection, so that a second one is dropped |
| `StaysAtBoundary`, `HandlesWhatArrived` | `TypeOK`, `HandledIsArrived` | `FrameInv`: all frames in front of the buffer were accepted, those with a text are what was handled, and when `onMessage` returns the frame at the front is not there yet or ends the loop (`FlowInv`). `Ends` is strictly increasing (`EndsFacts`), and `parseFrame` decides on a header as the reference does |
| `DatabaseProofs!DatabaseTyped`, `ResultsAreOwn`, `LoginsAreTrue`, `RegistrationsAreStored` | `TypeOK`, `OwnResult`, `NoFalseLogin`, `RegisteredIsStored` | `DInv`: a thread between the two calls of a SELECT on a handle that is not torn owns the result that waits (`OwnResult`, inductive because a query fails while a result waits), that result was true when it was given and, as rows are never removed, still is (`AnswerTrue`), so that who passes `verifyUser` or was told of a registration is in the table (`ToldTrue`, with the unique key) |
| `LossEndsServer` | `LostIsFatal` | from `DInv`, by the call in which the loss is met (`BeatStep`): a handle that was never connected fails before the library is called, a lost one in `mysql_query` or in `mysql_store_result`; other threads leave the beat alone (`CallsAreOwn`) |
| `ChatProofs!TypeCorrect` | `TypeOK` | `TInv` adds what the fields of a handler are good for at each step (`Work`) |
| `NoGhosts` | `NoGhostSession` | `SInv`: the owner of a session, unless it is in `renamed`, is known by the name it is filed under, and if it is down its DOWN is being handled; `OwnStep` reduces a step to the connection it works for |
| `TargetsStayAlive` | `BroadcastTargetsAlive` | `AInv`: a connection whose removal has begun is past DOWN (`GoneOK`) and so, by `SInv`, has no session unless it is in `renamed`; the connection a broadcast is about to be queued for has one, because mutex_ is held since it was looked up (`TargetOK`) |
| `SendersStayInOrder` | `SenderOrder` | `OInv`: for each connection, what was written precedes what is queued and both precede what a handler may still send to it (`ArrivedFirst`, `PendingLast`); messages are queued only by clients of other loops (`Foreign`), and a connection not in `renamed` has one session, so that a broadcast reaches it once |
| `NobodyMissesAMessage` | `NoGap` | `GInv`: with `Blank`, the page of a client that is not logged in has no history. A message is saved before the sessions are read, a session is entered before the history is read, each step of a broadcast hands the message on (broadcast, session in the list, queue, page), and what a history leaves out is cut off (`HistoryCut`) |

The theorems about `Chat` are for any number of LOGINs, in any order and under any names, and
for any limit of the history. What they except, a connection in `renamed`, is where the
code does otherwise (section 3). The auxiliary invariants were
checked with TLC on the runs' instances before they were proved.

The provers cannot instantiate an induction theorem that takes a predicate, so
induction is over sets: `LeastNumber` gives a set of numbers its least element
(from well-foundedness, `WFMin`), and `SetInduction` follows. `SumsExist` and
`EndsUnfold` use it to show that the recursive function `Ends` exists and is what
its definition says.

Only model-checked: liveness (`QuitStops`, `PeerGoneIsReaped`, `ShutdownCompletes`,
`StartCompletes`, `ConnectionsServed`, `TimersRun`) and
the fairness part of `ImplementsQueue`; liveness under fairness is outside what the
prover does.

## 5. Not modelled

- Destructors of the server and of its threads: `main` never leaves `loop()`. This
  includes `quit()` called before `loop()`, which resets `quit_`; the only caller
  of `quit()` is the `EventLoopThread` destructor.
- The text of SQL statements and the order in which a page shows the rows of a history.
  `HistoryLimit` is the 50 of the server and of `chat.html`; a client that asks for another
  number is not.
- The unsynchronised `connectionStates_` map: a data race whose effect on the
  hash table the code does not bound. The models give each connection its own
  entry, used by its own loop.
- Exceptions of `json.hpp` other than parse errors: nothing catches them, and no
  message of `chat.html` causes one.
- Frames whose length field and payload disagree; SHA-1 and base64.
- A wall clock that is set back; `lastHeartbeat`, which is written and never read.
- Memory: the result set of every `heartBeat` is never freed. The loop that spins in
  `Acceptor::handleRead` while no descriptor is free, as a failed accept changes nothing.
- `Logger` but for `LOG_FATAL`, `TestServer`, and vendored code.

## 6. Plan

In this order:

1. `QuitStops` rests on safety facts (which phases a loop passes after a quit); state and
   prove those, leaving to TLC only that the steps happen.
2. `TcpConnection` as the refinement of a small abstract connection (a byte
   pipe with an end), which `Chat` and `TcpServer` could then be composed with.
3. `Chat` with connections that share a loop (two clients of one I/O thread), which its
   theorems cover and its runs do not.

## 7. Running it

    tlc -workers 2 -config MCChat.cfg MCChat
    tlapm ChatProofs.tla

and so for each run of `PROJECT.json` and each `*Proofs` module.
