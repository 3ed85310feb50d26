------------------------------ MODULE TcpServer ------------------------------
(***************************************************************************)
(* TcpServer with its Acceptor and EventLoopThreadPool: how the I/O loops  *)
(* are started, how accepted connections are spread over them, and how     *)
(* descriptors and the entries they have in the loops' pollers are reused. *)
(*                                                                         *)
(* Loop 0 is the base loop, run by main's thread; loop t is the one thread *)
(* t of the pool constructs.  A loop is reduced to its queue of functors,  *)
(* which EventLoop.tla shows to be FIFO, and a connection to connecting,   *)
(* up, down and destroyed; TcpConnection.tla has the rest.  A critical     *)
(* section of EventLoopThread::mutex_ is one step, cond_.wait being where  *)
(* startLoop's ends.  No thread-initialisation callback is ever set, and   *)
(* main never leaves loop(), so no destructor of these classes runs.       *)
(***************************************************************************)
EXTENDS Naturals, Sequences, FiniteSets

CONSTANTS MaxThreads,   \* bound on setThreadNum
          MaxConns,     \* bound on the connections accepted
          Fds,          \* descriptors the process may have for connections
          NoFd

ASSUME BoundsAssumption == MaxThreads \in Nat /\ MaxConns \in Nat
ASSUME NoFdAssumption == NoFd \notin Fds

VARIABLES
  numThreads,   \* numThreads_
  main,         \* where main's thread stands, from TcpServer::start to loop()
  thread,       \* per pool thread, how far it has come
  sem,          \* per pool thread, the semaphore of Thread::start
  loop,         \* per pool thread, EventLoopThread::loop_ is set
  loops,        \* loops_
  next,         \* next_
  nextConnId,   \* nextConnId_
  connections,  \* connections_, by number
  state,        \* per connection
  loopOf,       \* TcpConnection::loop_
  fdOf,         \* its descriptor, NoFd before accept
  open,         \* connections whose descriptor is open: until ~TcpConnection
  channels,     \* per loop, EPollPoller::channels_
  functors      \* per loop, pendingFunctors_

pool == <<numThreads, main, thread, sem, loop, loops>>
conns == <<next, nextConnId, connections, state, loopOf, fdOf, open, channels,
           functors>>
vars == <<pool, conns>>

Base == 0
Threads == 1..numThreads
Loops == 0..MaxThreads
Conns == 1..MaxConns
NoConn == 0

(* The state is well formed.  A loop that is in loops_ has been published  *)
(* by its thread and is there once: startLoop never hands out the pointer  *)
(* early (EventLoopThread.cpp:25-53, EventLoopThreadPool.cpp:23-36).       *)
TypeOK ==
  /\ numThreads \in 0..MaxThreads
  /\ main \in {"spawn", "sem_wait", "test", "wait", "listen", "loop"}
  /\ thread \in [1..MaxThreads -> {"none", "spawned", "posted", "made", "published", "looping"}]
  /\ sem \in [1..MaxThreads -> 0..1] /\ loop \in [1..MaxThreads -> BOOLEAN]
  /\ next \in Nat /\ nextConnId \in 1..MaxConns + 1
  /\ connections \subseteq Conns
  /\ state \in [Conns -> {"none", "connecting", "up", "down", "destroyed"}]
  /\ loopOf \in [Conns -> Loops] /\ fdOf \in [Conns -> Fds \cup {NoFd}]
  /\ open \subseteq Conns
  /\ channels \in [Loops -> [Fds -> Conns \cup {NoConn}]]
  /\ functors \in [Loops -> Seq([op : {"established", "remove", "destroyed"}, c : Conns])]
  /\ loops \in Seq(1..MaxThreads)
  /\ \A i \in 1..Len(loops) : loops[i] = i /\ loop[i] /\ thread[i] \in {"published", "looping"}

Init ==
  /\ numThreads \in 0..MaxThreads
  /\ main = "spawn"
  /\ thread = [t \in 1..MaxThreads |-> "none"]
  /\ sem = [t \in 1..MaxThreads |-> 0] /\ loop = [t \in 1..MaxThreads |-> FALSE]
  /\ loops = <<>> /\ next = 0 /\ nextConnId = 1 /\ connections = {}
  /\ state = [c \in Conns |-> "none"]
  /\ loopOf = [c \in Conns |-> Base] /\ fdOf = [c \in Conns |-> NoFd] /\ open = {}
  /\ channels = [l \in Loops |-> [f \in Fds |-> NoConn]]
  /\ functors = [l \in Loops |-> <<>>]

-----------------------------------------------------------------------------
(* TcpServer::start and EventLoopThreadPool::start, in main's thread.      *)

\* The thread being started.
Current == Len(loops) + 1

\* Thread::start creates the thread.
Spawn ==
  /\ main = "spawn" /\ Current <= numThreads
  /\ main' = "sem_wait"
  /\ thread' = [thread EXCEPT ![Current] = "spawned"]
  /\ UNCHANGED <<numThreads, sem, loop, loops, conns>>

SemWait ==
  /\ main = "sem_wait" /\ sem[Current] > 0
  /\ sem' = [sem EXCEPT ![Current] = @ - 1]
  /\ main' = "test"
  /\ UNCHANGED <<numThreads, thread, loop, loops, conns>>

\* Fault: the pointer is taken without waiting for it.
StartLoopNoWait ==
  /\ main = "test"
  /\ loops' = Append(loops, Current) /\ main' = "spawn"
  /\ UNCHANGED <<numThreads, thread, sem, loop, conns>>

\* startLoop under mutex_: the pointer, or wait.
StartLoop ==
  /\ main = "test"
  /\ IF loop[Current] THEN loops' = Append(loops, Current) /\ main' = "spawn"
                      ELSE main' = "wait" /\ UNCHANGED loops
  /\ UNCHANGED <<numThreads, thread, sem, loop, conns>>

\* cond_.wait may return without a notification.
SpuriousWakeup ==
  /\ main = "wait"
  /\ main' = "test"
  /\ UNCHANGED <<numThreads, thread, sem, loop, loops, conns>>

\* All threads are started: Acceptor::listen, run at once.
Listen ==
  /\ main = "spawn" /\ Current > numThreads
  /\ main' = "listen"
  /\ UNCHANGED <<numThreads, thread, sem, loop, loops, conns>>

\* main calls loop.loop().
BaseLoop ==
  /\ main = "listen"
  /\ main' = "loop"
  /\ UNCHANGED <<numThreads, thread, sem, loop, loops, conns>>

-----------------------------------------------------------------------------
(* A thread of the pool: the lambda of Thread::start, then threadFunc.     *)

SemPost(t) ==
  /\ thread[t] = "spawned"
  /\ thread' = [thread EXCEPT ![t] = "posted"]
  /\ sem' = [sem EXCEPT ![t] = @ + 1]
  /\ UNCHANGED <<numThreads, main, loop, loops, conns>>

MakeLoop(t) ==
  /\ thread[t] = "posted"
  /\ thread' = [thread EXCEPT ![t] = "made"]
  /\ UNCHANGED <<numThreads, main, sem, loop, loops, conns>>

\* Fault: nobody is notified.
PublishSilently(t) ==
  /\ thread[t] = "made"
  /\ thread' = [thread EXCEPT ![t] = "published"]
  /\ loop' = [loop EXCEPT ![t] = TRUE]
  /\ UNCHANGED <<numThreads, main, sem, loops, conns>>

\* loop_ = &loop and notify_one, under mutex_.
Publish(t) ==
  /\ thread[t] = "made"
  /\ thread' = [thread EXCEPT ![t] = "published"]
  /\ loop' = [loop EXCEPT ![t] = TRUE]
  /\ main' = IF main = "wait" /\ Current = t THEN "test" ELSE main
  /\ UNCHANGED <<numThreads, sem, loops, conns>>

EnterLoop(t) ==
  /\ thread[t] = "published"
  /\ thread' = [thread EXCEPT ![t] = "looping"]
  /\ UNCHANGED <<numThreads, main, sem, loop, loops, conns>>

-----------------------------------------------------------------------------
(* Connections.                                                            *)

Running(l) == IF l = Base THEN main = "loop" ELSE thread[l] = "looping"

Functor(op, c) == [op |-> op, c |-> c]

\* Fault: the last loop is left out.
NextIndexEarly == IF next + 2 >= Len(loops) THEN 0 ELSE next + 1

NextIndex == IF next + 1 >= Len(loops) THEN 0 ELSE next + 1

\* enableReading of a new channel: EPollPoller::updateChannel.
AddChannel(l, c, fd) == channels' = [channels EXCEPT ![l][fd] = c]

\* Acceptor::handleRead: accept4 returns a descriptor that is not in use.  An
\* accept that fails, as it does when there is none, is only logged.
Accepts(fd) == fd \in Fds /\ \A d \in open : fdOf[d] # fd

\* newConnection, with getNextLoop.
NewConnection(fd) ==
  LET c == nextConnId
      l == IF loops = <<>> THEN Base ELSE loops[next + 1] IN
  /\ Running(Base) /\ c <= MaxConns /\ Accepts(fd)
  /\ next' = IF loops = <<>> THEN next ELSE NextIndex
  /\ nextConnId' = nextConnId + 1
  /\ connections' = connections \cup {c}
  /\ loopOf' = [loopOf EXCEPT ![c] = l] /\ fdOf' = [fdOf EXCEPT ![c] = fd]
  /\ open' = open \cup {c}
  /\ IF l = Base
     THEN /\ state' = [state EXCEPT ![c] = "up"] /\ AddChannel(l, c, fd)
          /\ UNCHANGED functors
     ELSE /\ state' = [state EXCEPT ![c] = "connecting"]
          /\ functors' = [functors EXCEPT ![l] = Append(@, Functor("established", c))]
          /\ UNCHANGED channels
  /\ UNCHANGED pool

\* Fault: the connection is only forgotten.
RemovedForgets(c, queues) == connections' = connections \ {c} /\ functors' = queues

\* removeConnectionInLoop, with the functors as they are otherwise.
Removed(c, queues) ==
  /\ connections' = connections \ {c}
  /\ functors' = [queues EXCEPT ![loopOf[c]] = Append(@, Functor("destroyed", c))]

\* handleClose in the connection's loop: DOWN and removeConnection.  The
\* descriptor leaves the epoll set, the entry in channels_ stays.
HandleClose(c) ==
  /\ state[c] = "up" /\ Running(loopOf[c])
  /\ state' = [state EXCEPT ![c] = "down"]
  /\ IF loopOf[c] = Base
     THEN Removed(c, functors)
     ELSE /\ functors' = [functors EXCEPT ![Base] = Append(@, Functor("remove", c))]
          /\ UNCHANGED connections
  /\ UNCHANGED <<pool, next, nextConnId, loopOf, fdOf, open, channels>>

RunEstablished(l, c, rest) ==
  /\ state' = [state EXCEPT ![c] = "up"]
  /\ AddChannel(l, c, fdOf[c])
  /\ functors' = rest
  /\ UNCHANGED connections

RunRemove(l, c, rest) ==
  /\ Removed(c, rest)
  /\ UNCHANGED <<state, channels>>

\* connectDestroyed: Channel::remove erases the entry.
RunDestroyed(l, c, rest) ==
  /\ state' = [state EXCEPT ![c] = "destroyed"]
  /\ channels' = [channels EXCEPT ![l][fdOf[c]] = NoConn]
  /\ functors' = rest
  /\ UNCHANGED connections

RunFunctor(l) ==
  /\ Running(l) /\ functors[l] # <<>>
  /\ LET f == Head(functors[l])
         rest == [functors EXCEPT ![l] = Tail(@)]
     IN  \/ f.op = "established" /\ RunEstablished(l, f.c, rest)
         \/ f.op = "remove" /\ RunRemove(l, f.c, rest)
         \/ f.op = "destroyed" /\ RunDestroyed(l, f.c, rest)
  /\ UNCHANGED <<pool, next, nextConnId, loopOf, fdOf, open>>

\* Fault: the queued connectDestroyed does not keep the connection alive.
ReleaseEarly(c) ==
  /\ state[c] \in {"down", "destroyed"} /\ c \in open /\ c \notin connections
  /\ open' = open \ {c}
  /\ UNCHANGED <<pool, next, nextConnId, connections, state, loopOf, fdOf, channels, functors>>

\* The last shared pointer goes, with the functor or later with a handler
\* that still holds a copy: ~TcpConnection closes the descriptor.
Release(c) ==
  /\ state[c] = "destroyed" /\ c \in open
  /\ open' = open \ {c}
  /\ UNCHANGED <<pool, next, nextConnId, connections, state, loopOf, fdOf, channels, functors>>

-----------------------------------------------------------------------------
MainStep == Spawn \/ SemWait \/ StartLoop \/ Listen \/ BaseLoop

ThreadStep(t) == SemPost(t) \/ MakeLoop(t) \/ Publish(t) \/ EnterLoop(t)

Next ==
  \/ MainStep \/ SpuriousWakeup
  \/ \E t \in Threads : ThreadStep(t)
  \/ \E fd \in Fds : NewConnection(fd)
  \/ \E c \in Conns : HandleClose(c) \/ Release(c)
  \/ \E l \in Loops : RunFunctor(l)

SafeSpec == Init /\ [][Next]_vars

(* Threads go on, loops run their functors (EventLoop.tla), and whoever    *)
(* holds a copy of a connection's pointer gives it up.  Nothing is assumed *)
(* of spurious wake-ups.                                                   *)
Spec ==
  /\ SafeSpec /\ WF_vars(MainStep)
  /\ \A t \in 1..MaxThreads : WF_vars(t \in Threads /\ ThreadStep(t))
  /\ \A l \in Loops : WF_vars(RunFunctor(l))
  /\ \A c \in Conns : WF_vars(Release(c))

-----------------------------------------------------------------------------
(* A poller finds every established connection under its descriptor until  *)
(* the connection is destroyed, although descriptors are reused: no new    *)
(* connection's channel takes the entry of one whose connectDestroyed is   *)
(* still on its way through the base loop (EPollPoller.cpp:50-83,          *)
(* TcpServer.cpp:78-115).                                                  *)
ChannelFound ==
  \A c \in Conns : state[c] \in {"up", "down"} => channels[loopOf[c]][fdOf[c]] = c

(* Connections are spread evenly: the numbers of connections two loops     *)
(* were given never differ by more than one, at the wrap-around too        *)
(* (EventLoopThreadPool.cpp:38-48).                                        *)
Given(l) == Cardinality({c \in 1..nextConnId - 1 : loopOf[c] = l})

Balanced ==
  \A i, j \in 1..Len(loops) : Given(loops[i]) <= Given(loops[j]) + 1

(* The server comes to accept connections: main never waits for ever for a *)
(* thread that has already announced its loop (EventLoopThread.cpp:25-48,  *)
(* Thread.cpp:25-37).                                                      *)
StartCompletes == <>(main = "loop")

(* Every accepted connection is established, also when its loop has not    *)
(* entered loop() when it is accepted, and every closed one gives its      *)
(* descriptor back (TcpServer.cpp:78-115, TcpConnection.cpp:94-109).       *)
ConnectionsServed ==
  \A c \in Conns :
    /\ state[c] = "connecting" ~> state[c] = "up"
    /\ state[c] = "down" ~> c \notin open
=============================================================================
