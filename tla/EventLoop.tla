------------------------------ MODULE EventLoop ------------------------------
(***************************************************************************)
(* mymuduo/EventLoop: one loop thread that alternates between epoll_wait,  *)
(* the callbacks of the active channels and the functors other threads     *)
(* (and its own callbacks) hand it through queueInLoop.  A thread that     *)
(* queues a functor appends it under mutex_, releases the mutex, and only  *)
(* then decides whether to write the eventfd that wakes the loop; the two  *)
(* steps are two actions here, as they are for the other threads.          *)
(*                                                                         *)
(* runInLoop called in the loop thread is a plain call inside a callback   *)
(* and has no step of its own; called elsewhere it is queueInLoop.         *)
(***************************************************************************)
EXTENDS Naturals, Sequences

CONSTANTS LoopThread,   \* the thread that constructed the loop (threadId_)
          Others,       \* the threads that may call queueInLoop or quit
          MaxFunctors   \* bound on the functors queued in one behaviour

ASSUME ThreadAssumption == LoopThread \notin Others
ASSUME FunctorAssumption == MaxFunctors \in Nat

VARIABLES
  pc,               \* where the loop thread stands in EventLoop::loop
  looping, quit,    \* looping_, quit_
  active,           \* activeChannel_: the wakeup channel, some other channel
  wakeupFd,         \* the counter of the eventfd
  calling,          \* callingPendingFunctors_
  pendingFunctors,  \* pendingFunctors_, guarded by mutex_
  functors,         \* the vector doPendingFunctors swapped out, running first
  call,             \* the call a thread is in the middle of
  executed          \* history: functors whose call returned, in order

vars == <<pc, looping, quit, active, wakeupFd, calling, pendingFunctors,
          functors, call, executed>>

Threads == Others \cup {LoopThread}

Locations == {"start", "test", "poll", "events", "swap", "run", "exited"}

(* Types, and which variables a phase of the loop gives a meaning to:      *)
(* callingPendingFunctors_ is set exactly while doPendingFunctors runs,    *)
(* and the local vector is empty outside it (EventLoop.cpp:55-72,136-151). *)
TypeOK ==
  /\ pc \in Locations
  /\ looping \in BOOLEAN /\ quit \in BOOLEAN /\ calling \in BOOLEAN
  /\ active \subseteq {"wakeup", "io"}
  /\ wakeupFd \in Nat
  /\ pendingFunctors \in Seq(Nat) /\ functors \in Seq(Nat)
  /\ executed \in Seq(Nat)
  /\ call \in [Threads -> {"none", "queued", "quit"}]
  /\ calling <=> pc \in {"swap", "run"}
  /\ functors # <<>> => pc = "run"

Init ==
  /\ pc = "start" /\ looping = FALSE /\ quit = FALSE
  /\ active = {} /\ wakeupFd = 0 /\ calling = FALSE
  /\ pendingFunctors = <<>> /\ functors = <<>> /\ executed = <<>>
  /\ call = [t \in Threads |-> "none"]

-----------------------------------------------------------------------------
(* Calls made by any thread.  The loop thread makes them from inside a     *)
(* channel callback or a running functor.                                  *)

InCallback == (pc = "events" /\ "io" \in active) \/ (pc = "run" /\ functors # <<>>)

CanCall(t) == call[t] = "none" /\ (t = LoopThread => InCallback)

Queued == Len(executed) + Len(functors) + Len(pendingFunctors)

\* The critical section of queueInLoop.
QueueInLoop(t) ==
  /\ CanCall(t) /\ Queued < MaxFunctors
  /\ pendingFunctors' = Append(pendingFunctors, Queued + 1)
  /\ call' = [call EXCEPT ![t] = "queued"]
  /\ UNCHANGED <<pc, looping, quit, active, wakeupFd, calling, functors, executed>>

Wakeup == wakeupFd' = wakeupFd + 1

\* Fault: callingPendingFunctors_ is not consulted.
QueueInLoopWakeupOthersOnly(t) ==
  /\ call[t] = "queued"
  /\ IF t # LoopThread THEN Wakeup ELSE UNCHANGED wakeupFd
  /\ call' = [call EXCEPT ![t] = "none"]
  /\ UNCHANGED <<pc, looping, quit, active, calling, pendingFunctors, functors, executed>>

\* The rest of queueInLoop: wake the loop unless it is sure to reach
\* doPendingFunctors before it blocks again.
QueueInLoopWakeup(t) ==
  /\ call[t] = "queued"
  /\ IF t # LoopThread \/ calling THEN Wakeup ELSE UNCHANGED wakeupFd
  /\ call' = [call EXCEPT ![t] = "none"]
  /\ UNCHANGED <<pc, looping, quit, active, calling, pendingFunctors, functors, executed>>

\* The assignment in quit(); a repeated call changes nothing that matters.
Quit(t) ==
  /\ CanCall(t) /\ ~quit
  /\ quit' = TRUE
  /\ call' = [call EXCEPT ![t] = "quit"]
  /\ UNCHANGED <<pc, looping, active, wakeupFd, calling, pendingFunctors, functors, executed>>

\* Fault: quit() does not wake the loop.
QuitNoWakeup(t) ==
  /\ call[t] = "quit"
  /\ call' = [call EXCEPT ![t] = "none"]
  /\ UNCHANGED <<pc, looping, quit, active, wakeupFd, calling, pendingFunctors, functors, executed>>

QuitWakeup(t) ==
  /\ call[t] = "quit"
  /\ IF t # LoopThread THEN Wakeup ELSE UNCHANGED wakeupFd
  /\ call' = [call EXCEPT ![t] = "none"]
  /\ UNCHANGED <<pc, looping, quit, active, calling, pendingFunctors, functors, executed>>

-----------------------------------------------------------------------------
(* EventLoop::loop, in the loop thread.                                    *)

LoopAt(l) == pc = l /\ call[LoopThread] = "none"

StartLoop ==
  /\ LoopAt("start")
  /\ looping' = TRUE /\ quit' = FALSE /\ pc' = "test"
  /\ UNCHANGED <<active, wakeupFd, calling, pendingFunctors, functors, call, executed>>

\* while(!quit_), and activeChannel_.clear() when the body is entered.
TestQuit ==
  /\ LoopAt("test")
  /\ IF quit THEN pc' = "exited" /\ looping' = FALSE /\ UNCHANGED active
             ELSE pc' = "poll" /\ active' = {} /\ UNCHANGED looping
  /\ UNCHANGED <<quit, wakeupFd, calling, pendingFunctors, functors, call, executed>>

PollReturns(ready) ==
  /\ LoopAt("poll")
  /\ active' = ready /\ pc' = "events"
  /\ UNCHANGED <<looping, quit, wakeupFd, calling, pendingFunctors, functors, call, executed>>

\* epoll_wait reports the eventfd, perhaps with other channels.
PollWakeup == wakeupFd > 0 /\ \E io \in SUBSET {"io"} : PollReturns({"wakeup"} \cup io)

\* epoll_wait reports other channels, times out after kPollTimeMs, or fails.
PollOther == \E io \in SUBSET {"io"} : PollReturns(io)

\* EventLoop::handleRead, the read callback of the wakeup channel.
HandleRead ==
  /\ LoopAt("events") /\ "wakeup" \in active
  /\ wakeupFd' = 0
  /\ active' = active \ {"wakeup"}
  /\ UNCHANGED <<pc, looping, quit, calling, pendingFunctors, functors, call, executed>>

\* The callbacks of the other channels, which may call queueInLoop, return.
ChannelsHandled ==
  /\ LoopAt("events") /\ "io" \in active
  /\ active' = active \ {"io"}
  /\ UNCHANGED <<pc, looping, quit, wakeupFd, calling, pendingFunctors, functors, call, executed>>

\* Fault: callingPendingFunctors_ is never set.
BeginPendingUnmarked ==
  /\ LoopAt("events") /\ active = {}
  /\ pc' = "swap"
  /\ UNCHANGED <<looping, quit, active, wakeupFd, calling, pendingFunctors, functors, call, executed>>

BeginPending ==
  /\ LoopAt("events") /\ active = {}
  /\ calling' = TRUE /\ pc' = "swap"
  /\ UNCHANGED <<looping, quit, active, wakeupFd, pendingFunctors, functors, call, executed>>

\* Fault: the pending vector is copied, not swapped out.
SwapPendingCopy ==
  /\ LoopAt("swap")
  /\ functors' = pendingFunctors /\ pc' = "run"
  /\ UNCHANGED <<looping, quit, active, wakeupFd, calling, pendingFunctors, call, executed>>

SwapPending ==
  /\ LoopAt("swap")
  /\ functors' = pendingFunctors /\ pendingFunctors' = <<>> /\ pc' = "run"
  /\ UNCHANGED <<looping, quit, active, wakeupFd, calling, call, executed>>

\* The functor at the head, which may call queueInLoop or quit, returns.
FunctorReturns ==
  /\ LoopAt("run") /\ functors # <<>>
  /\ executed' = Append(executed, Head(functors))
  /\ functors' = Tail(functors)
  /\ UNCHANGED <<pc, looping, quit, active, wakeupFd, calling, pendingFunctors, call>>

EndPending ==
  /\ LoopAt("run") /\ functors = <<>>
  /\ calling' = FALSE /\ pc' = "test"
  /\ UNCHANGED <<looping, quit, active, wakeupFd, pendingFunctors, functors, call, executed>>

LoopStep ==
  \/ StartLoop \/ TestQuit \/ HandleRead \/ ChannelsHandled
  \/ BeginPending \/ SwapPending \/ FunctorReturns \/ EndPending

ThreadStep(t) ==
  \/ QueueInLoop(t) \/ QueueInLoopWakeup(t) \/ Quit(t) \/ QuitWakeup(t)

Next == LoopStep \/ PollWakeup \/ PollOther \/ \E t \in Threads : ThreadStep(t)

SafeSpec == Init /\ [][Next]_vars

(* The loop thread keeps running and callbacks and functors return; a      *)
(* thread in the middle of queueInLoop or quit finishes the call; a ready  *)
(* eventfd ends epoll_wait.  Nothing is assumed of PollOther: no property  *)
(* may rest on the ten-second timeout or on unrelated traffic.             *)
Fairness ==
  /\ WF_vars(LoopStep)
  /\ WF_vars(PollWakeup)
  /\ \A t \in Threads : WF_vars(QueueInLoopWakeup(t)) /\ WF_vars(QuitWakeup(t))

Spec == SafeSpec /\ Fairness

-----------------------------------------------------------------------------
\* Some thread other than the loop's has yet to write the eventfd, or the
\* loop thread itself has, from inside a running functor.
WakeupOwed(c) == \E t \in Threads : call[t] = c

(* No lost wake-up: when the loop is about to block, or blocked, in        *)
(* epoll_wait with functors waiting, the eventfd is readable or a thread   *)
(* inside queueInLoop is about to make it so (EventLoop.cpp:96-104).       *)
NoLostWakeup ==
  pc \in {"test", "poll"} /\ pendingFunctors # <<>> =>
    wakeupFd > 0 \/ WakeupOwed("queued")

(* A quit() made while the loop is blocked in epoll_wait wakes it: either  *)
(* the eventfd is readable or the caller has still to write it             *)
(* (EventLoop.cpp:74-78).                                                  *)
NoLostQuit == pc = "poll" /\ quit => wakeupFd > 0 \/ WakeupOwed("quit")

(* The calls of functors that have returned, the ones being run and the    *)
(* ones waiting are all the functors ever queued, each once, in queueing   *)
(* order: swapping the vector loses, repeats and reorders none             *)
(* (EventLoop.cpp:136-151).                                                *)
AllInOrder ==
  LET all == executed \o functors \o pendingFunctors
  IN  \A i \in 1..Len(all) : all[i] = i

(* A quit() that arrives once the loop is running ends it                  *)
(* (EventLoop.cpp:55-78).                                                  *)
QuitStops == (quit /\ looping) ~> (pc = "exited")

(* The loop implements the queue its users rely on: functors run once each *)
(* and in the order queued, and every one is run unless the loop is told   *)
(* to stop, which does not depend on the poll timeout                      *)
(* (EventLoop.cpp:55-72,96-151).                                           *)
FQ == INSTANCE FunctorQueue
        WITH queue <- functors \o pendingFunctors,
             done <- executed,
             closed <- (pc = "exited")

ImplementsQueue == FQ!Spec
=============================================================================
