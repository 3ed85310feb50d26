--------------------------- MODULE EventLoopProofs ---------------------------
(***************************************************************************)
(* Proofs about EventLoop for any set of threads and any number of         *)
(* functors: types, no lost wake-up, no lost quit, and functors run once   *)
(* and in order; and the step simulation of FunctorQueue.                  *)
(***************************************************************************)
EXTENDS EventLoop, SequenceTheorems, TLAPS

-----------------------------------------------------------------------------
(* Sequences used as FIFO queues.                                          *)

(* Appending to the last part of a queue appends to the queue.             *)
LEMMA ConcatAppend ==
  ASSUME NEW S, NEW s \in Seq(S), NEW t \in Seq(S), NEW e \in S
  PROVE  s \o Append(t, e) = Append(s \o t, e)
<1> DEFINE l == s \o Append(t, e)
           r == Append(s \o t, e)
<1>1. /\ t \in [1..Len(t) -> S] /\ Len(t) \in Nat
      /\ s \in [1..Len(s) -> S] /\ Len(s) \in Nat
  BY LenProperties
<1>2. /\ Append(t, e) \in Seq(S) /\ Len(Append(t, e)) = Len(t) + 1
      /\ \A i \in 1..Len(t) : Append(t, e)[i] = t[i]
      /\ Append(t, e)[Len(t) + 1] = e
  BY AppendProperties
<1>3. /\ s \o t \in Seq(S) /\ Len(s \o t) = Len(s) + Len(t)
      /\ \A i \in 1..Len(s) + Len(t) :
           (s \o t)[i] = IF i <= Len(s) THEN s[i] ELSE t[i - Len(s)]
  BY ConcatProperties
<1>4. /\ l \in Seq(S) /\ Len(l) = Len(s) + Len(t) + 1
      /\ \A i \in 1..Len(s) + Len(t) + 1 :
           l[i] = IF i <= Len(s) THEN s[i] ELSE Append(t, e)[i - Len(s)]
  <2>1. Len(s) + Len(Append(t, e)) = Len(s) + Len(t) + 1
    BY <1>1, <1>2
  <2>2. /\ l \in Seq(S) /\ Len(l) = Len(s) + Len(Append(t, e))
        /\ \A i \in 1..Len(s) + Len(Append(t, e)) :
             l[i] = IF i <= Len(s) THEN s[i] ELSE Append(t, e)[i - Len(s)]
    BY <1>2, ConcatProperties, Zenon
  <2> HIDE DEF l
  <2> QED
    BY <2>1, <2>2
<1>5. /\ r \in Seq(S) /\ Len(r) = Len(s) + Len(t) + 1
      /\ \A i \in 1..Len(s) + Len(t) : r[i] = (s \o t)[i]
      /\ r[Len(s) + Len(t) + 1] = e
  BY <1>3, AppendProperties
<1> HIDE DEF l, r
<1>6. ASSUME NEW i \in 1..Len(l) PROVE l[i] = r[i]
  <2>1. CASE i <= Len(s)
    BY <1>1, <1>3, <1>4, <1>5, <2>1
  <2>2. CASE i > Len(s) /\ i # Len(s) + Len(t) + 1
    <3>1. i - Len(s) \in 1..Len(t) /\ i \in 1..Len(s) + Len(t) /\ ~(i <= Len(s))
      BY <1>1, <1>4, <2>2
    <3> QED
      BY <1>2, <1>3, <1>4, <1>5, <3>1
  <2>3. CASE i = Len(s) + Len(t) + 1
    <3>1. i - Len(s) = Len(t) + 1 /\ ~(i <= Len(s))
      BY <1>1, <2>3
    <3> QED
      BY <1>2, <1>4, <1>5, <2>3, <3>1
  <2> QED
    BY <1>1, <1>4, <2>1, <2>2, <2>3
<1>7. l = r
  BY <1>4, <1>5, <1>6, SeqEqual
<1> QED
  BY <1>7 DEF l, r

(* Moving the head of one queue to the end of the queue before it leaves   *)
(* their concatenation as it was.                                          *)
LEMMA MoveHead ==
  ASSUME NEW S, NEW s \in Seq(S), NEW t \in Seq(S), t # <<>>
  PROVE  Append(s, Head(t)) \o Tail(t) = s \o t
<1> DEFINE l == Append(s, Head(t)) \o Tail(t)
           r == s \o t
<1>1. /\ t \in [1..Len(t) -> S] /\ Len(t) \in Nat /\ Len(t) > 0
      /\ s \in [1..Len(s) -> S] /\ Len(s) \in Nat
  BY LenProperties, EmptySeq
<1>2. /\ Head(t) \in S /\ Tail(t) \in Seq(S) /\ Len(Tail(t)) = Len(t) - 1
      /\ \A i \in 1..Len(t) - 1 : Tail(t)[i] = t[i + 1]
      /\ Head(t) = t[1]
  BY <1>1, HeadTailProperties
<1>3. /\ Append(s, Head(t)) \in Seq(S) /\ Len(Append(s, Head(t))) = Len(s) + 1
      /\ \A i \in 1..Len(s) : Append(s, Head(t))[i] = s[i]
      /\ Append(s, Head(t))[Len(s) + 1] = Head(t)
  BY <1>2, AppendProperties
<1>4. /\ l \in Seq(S) /\ Len(l) = Len(s) + Len(t)
      /\ \A i \in 1..Len(s) + Len(t) :
           l[i] = IF i <= Len(s) + 1 THEN Append(s, Head(t))[i]
                                     ELSE Tail(t)[i - (Len(s) + 1)]
  <2>1. Len(Append(s, Head(t))) + Len(Tail(t)) = Len(s) + Len(t)
    BY <1>1, <1>2, <1>3
  <2> QED
    BY <1>2, <1>3, <2>1, ConcatProperties
<1>5. /\ r \in Seq(S) /\ Len(r) = Len(s) + Len(t)
      /\ \A i \in 1..Len(s) + Len(t) :
           r[i] = IF i <= Len(s) THEN s[i] ELSE t[i - Len(s)]
  BY ConcatProperties
<1> HIDE DEF l, r
<1>6. ASSUME NEW i \in 1..Len(l) PROVE l[i] = r[i]
  <2>1. CASE i <= Len(s)
    BY <1>1, <1>3, <1>4, <1>5, <2>1
  <2>2. CASE i = Len(s) + 1
    BY <1>1, <1>2, <1>3, <1>4, <1>5, <2>2
  <2>3. CASE i > Len(s) + 1
    <3>1. i - (Len(s) + 1) \in 1..Len(t) - 1
      BY <1>1, <1>4, <2>3
    <3>2. l[i] = t[i - (Len(s) + 1) + 1]
      BY <1>1, <1>2, <1>4, <2>3, <3>1
    <3>3. i - (Len(s) + 1) + 1 = i - Len(s)
      BY <1>1, <1>4
    <3> QED
      BY <1>1, <1>4, <1>5, <2>3, <3>2, <3>3
  <2> QED
    BY <1>1, <1>4, <2>1, <2>2, <2>3
<1>7. l = r
  BY <1>4, <1>5, <1>6, SeqEqual
<1> QED
  BY <1>7 DEF l, r

(* The head of a queue in two parts is the head of its first part.         *)
LEMMA HeadTailConcat ==
  ASSUME NEW S, NEW s \in Seq(S), NEW t \in Seq(S), s # <<>>
  PROVE  /\ s \o t # <<>>
         /\ Head(s \o t) = Head(s)
         /\ Tail(s \o t) = Tail(s) \o t
<1>1. s = <<Head(s)>> \o Tail(s) /\ Head(s) \in S /\ Tail(s) \in Seq(S)
  <2>1. Append(<<>>, Head(s)) \o Tail(s) = <<>> \o s
    BY MoveHead, EmptySeq
  <2>2. <<>> \o s = s
    BY ConcatEmptySeq
  <2>3. Append(<<>>, Head(s)) = <<Head(s)>>
    OBVIOUS
  <2> QED
    BY <2>1, <2>2, <2>3, HeadTailProperties
<1>2. s \o t # <<>>
  BY ConcatEqualIffEmpty
<1>3. s \o t \in Seq(S) /\ Len(s \o t) = Len(s) + Len(t) /\ Len(s) \in Nat \ {0}
      /\ Len(t) \in Nat
  BY ConcatProperties, EmptySeq, LenProperties
<1>4. \A i \in 1..Len(s) + Len(t) :
        (s \o t)[i] = IF i <= Len(s) THEN s[i] ELSE t[i - Len(s)]
  BY ConcatProperties
<1>5. Head(s \o t) = Head(s)
  <2>1. (s \o t)[1] = s[1]
    BY <1>3, <1>4
  <2> QED
    BY <1>3, <2>1
<1>6. Tail(s \o t) = Tail(s) \o t
  <2> DEFINE l == Tail(s \o t)
             r == Tail(s) \o t
  <2>1. /\ l \in Seq(S) /\ Len(l) = Len(s) + Len(t) - 1
        /\ \A i \in 1..Len(s) + Len(t) - 1 : l[i] = (s \o t)[i + 1]
    BY <1>2, <1>3, HeadTailProperties
  <2>2. /\ Len(Tail(s)) = Len(s) - 1
        /\ \A i \in 1..Len(s) - 1 : Tail(s)[i] = s[i + 1]
    BY HeadTailProperties
  <2>3. /\ r \in Seq(S) /\ Len(r) = Len(s) + Len(t) - 1
        /\ \A i \in 1..Len(s) + Len(t) - 1 :
             r[i] = IF i <= Len(s) - 1 THEN Tail(s)[i] ELSE t[i - (Len(s) - 1)]
    <3>1. Len(Tail(s)) + Len(t) = Len(s) + Len(t) - 1
      BY <1>3, <2>2
    <3> QED
      BY <1>1, <2>2, <3>1, ConcatProperties
  <2> HIDE DEF l, r
  <2>4. ASSUME NEW i \in 1..Len(l) PROVE l[i] = r[i]
    <3>1. i \in Nat /\ i + 1 \in 1..Len(s) + Len(t) /\ i + 1 - Len(s) = i - (Len(s) - 1)
      BY <1>3, <2>1
    <3> QED
      BY <1>3, <1>4, <2>1, <2>2, <2>3, <3>1
  <2>5. l = r
    BY <2>1, <2>3, <2>4, SeqEqual
  <2> QED
    BY <2>5 DEF l, r
<1> QED
  BY <1>2, <1>5, <1>6

-----------------------------------------------------------------------------
(* The inductive invariant.                                                *)

(* The loop thread is in the middle of queueInLoop or quit only inside a   *)
(* callback or a functor, and it does not leave that callback meanwhile.   *)
LoopCallsInCallback == call[LoopThread] # "none" => InCallback

(* NoLostWakeup is not inductive: what makes it true at "test" is that it  *)
(* holds from the swap on, through every functor, and before loop() was    *)
(* entered.                                                                *)
WakeupInv ==
  pc \in {"start", "run", "test", "poll"} /\ pendingFunctors # <<>> =>
    wakeupFd > 0 \/ WakeupOwed("queued")

(* The control part of the inductive invariant.                            *)
CInv == TypeOK /\ LoopCallsInCallback /\ WakeupInv /\ NoLostQuit

(* Every initial state satisfies the control invariant: the constructed    *)
(* loop (EventLoop.cpp:28-46) has nothing pending.                         *)
LEMMA InitCInv == Init => CInv
<1> SUFFICES ASSUME Init PROVE CInv
  OBVIOUS
<1>1. TypeOK
  <2>1. looping \in BOOLEAN /\ quit \in BOOLEAN /\ calling \in BOOLEAN /\ ~calling
    BY Zenon DEF Init
  <2>2. /\ pc = "start" /\ active = {} /\ wakeupFd = 0 /\ pendingFunctors = <<>>
        /\ functors = <<>> /\ executed = <<>> /\ call = [t \in Threads |-> "none"]
    BY DEF Init
  <2> QED
    BY <2>1, <2>2 DEF TypeOK, Locations
<1>2. LoopCallsInCallback /\ WakeupInv /\ NoLostQuit
  BY DEF Init, LoopCallsInCallback, WakeupInv, NoLostQuit, Threads
<1> QED
  BY <1>1, <1>2 DEF CInv

(* Every step preserves the control invariant, whatever thread takes it.   *)
LEMMA StepCInv == CInv /\ [Next]_vars => CInv'
<1> SUFFICES ASSUME CInv, [Next]_vars PROVE CInv'
  OBVIOUS
<1> USE DEF CInv, TypeOK, LoopCallsInCallback, WakeupInv, NoLostQuit,
            WakeupOwed, InCallback, Locations
<1>0. LoopThread \in Threads
  BY DEF Threads
<1>1. ASSUME NEW t \in Threads, QueueInLoop(t) PROVE CInv'
  <2>1. Queued + 1 \in Nat
    BY LenProperties DEF Queued
  <2>2. Append(pendingFunctors, Queued + 1) \in Seq(Nat)
    BY <2>1, AppendProperties
  <2> QED
    BY <1>0, <1>1, <2>2 DEF QueueInLoop, CanCall
<1>2. ASSUME NEW t \in Threads, QueueInLoopWakeup(t) PROVE CInv'
  BY <1>0, <1>2 DEF QueueInLoopWakeup, Wakeup
<1>3. ASSUME NEW t \in Threads, Quit(t) PROVE CInv'
  BY <1>0, <1>3 DEF Quit, CanCall
<1>4. ASSUME NEW t \in Threads, QuitWakeup(t) PROVE CInv'
  BY <1>0, <1>4 DEF QuitWakeup, Wakeup
<1>5. CASE StartLoop
  BY <1>0, <1>5 DEF StartLoop, LoopAt
<1>6. CASE TestQuit
  BY <1>0, <1>6 DEF TestQuit, LoopAt
<1>7. ASSUME NEW ready \in SUBSET {"wakeup", "io"}, PollReturns(ready) PROVE CInv'
  BY <1>0, <1>7 DEF PollReturns, LoopAt
<1>8. CASE PollWakeup \/ PollOther
  BY <1>7, <1>8 DEF PollWakeup, PollOther
<1>9. CASE HandleRead
  BY <1>0, <1>9 DEF HandleRead, LoopAt
<1>10. CASE ChannelsHandled
  BY <1>0, <1>10 DEF ChannelsHandled, LoopAt
<1>11. CASE BeginPending
  BY <1>0, <1>11 DEF BeginPending, LoopAt
<1>12. CASE SwapPending
  BY <1>0, <1>12 DEF SwapPending, LoopAt
<1>13. CASE FunctorReturns
  <2>1. Head(functors) \in Nat /\ Tail(functors) \in Seq(Nat)
    BY <1>13, HeadTailProperties DEF FunctorReturns
  <2>2. Append(executed, Head(functors)) \in Seq(Nat)
    BY <2>1, AppendProperties
  <2> QED
    BY <1>0, <1>13, <2>1, <2>2 DEF FunctorReturns, LoopAt
<1>14. CASE EndPending
  BY <1>0, <1>14 DEF EndPending, LoopAt
<1>15. CASE UNCHANGED vars
  BY <1>15 DEF vars
<1> QED
  BY <1>1, <1>2, <1>3, <1>4, <1>5, <1>6, <1>8, <1>9, <1>10, <1>11, <1>12,
     <1>13, <1>14, <1>15 DEF Next, LoopStep, ThreadStep

(* Type correctness and the phase structure of loop().                     *)
THEOREM TypeCorrect == SafeSpec => []TypeOK
<1>1. CInv => TypeOK
  BY DEF CInv
<1> QED
  BY InitCInv, StepCInv, <1>1, PTL DEF SafeSpec

(* The loop never blocks in epoll_wait on work it has been given           *)
(* (EventLoop.cpp:96-104 against 136-151).                                 *)
THEOREM NoWakeupLost == SafeSpec => []NoLostWakeup
<1>1. CInv => NoLostWakeup
  BY DEF CInv, WakeupInv, NoLostWakeup
<1> QED
  BY InitCInv, StepCInv, <1>1, PTL DEF SafeSpec

(* A quit() made while the loop is blocked reaches it                      *)
(* (EventLoop.cpp:74-78).                                                  *)
THEOREM NoQuitLost == SafeSpec => []NoLostQuit
<1>1. CInv => NoLostQuit
  BY DEF CInv
<1> QED
  BY InitCInv, StepCInv, <1>1, PTL DEF SafeSpec

-----------------------------------------------------------------------------
\* The functors accepted by queueInLoop so far, in order.
All == executed \o functors \o pendingFunctors

(* A step adds at most one functor, numbered next, to the end of All: the  *)
(* swap and the run of a functor leave the sequence alone                  *)
(* (EventLoop.cpp:96-104,136-151).                                         *)
LEMMA StepAll ==
  ASSUME TypeOK, [Next]_vars
  PROVE  All' = All \/ All' = Append(All, Queued + 1)
<1> DEFINE S == Nat
<1>0. /\ executed \in Seq(S) /\ functors \in Seq(S) /\ pendingFunctors \in Seq(S)
      /\ executed \o functors \in Seq(S) /\ Queued + 1 \in S
  BY ConcatProperties, LenProperties DEF TypeOK, Queued
<1>1. CASE \E t \in Threads : QueueInLoop(t)
  <2>1. All' = (executed \o functors) \o Append(pendingFunctors, Queued + 1)
    BY <1>1 DEF QueueInLoop, All
  <2>2. (executed \o functors) \o Append(pendingFunctors, Queued + 1)
          = Append((executed \o functors) \o pendingFunctors, Queued + 1)
    BY <1>0, ConcatAppend
  <2> QED
    BY <2>1, <2>2, Zenon DEF All
<1>2. CASE SwapPending
  <2>1. functors = <<>>
    BY <1>2 DEF TypeOK, SwapPending, LoopAt
  <2>2. All = executed \o pendingFunctors
    BY <1>0, <2>1, ConcatEmptySeq DEF All
  <2>3. All' = (executed \o pendingFunctors) \o <<>>
    BY <1>2 DEF SwapPending, All
  <2>4. executed \o pendingFunctors \in Seq(S)
    BY <1>0, ConcatProperties
  <2> QED
    BY <2>2, <2>3, <2>4, ConcatEmptySeq
<1>3. CASE FunctorReturns
  <2>1. All' = (Append(executed, Head(functors)) \o Tail(functors)) \o pendingFunctors
    BY <1>3 DEF FunctorReturns, All
  <2>2. Append(executed, Head(functors)) \o Tail(functors) = executed \o functors
    BY <1>0, <1>3, MoveHead DEF FunctorReturns
  <2> QED
    BY <2>1, <2>2 DEF All
<1>4. CASE UNCHANGED <<executed, functors, pendingFunctors>>
  BY <1>4 DEF All
<1>5. \/ UNCHANGED <<executed, functors, pendingFunctors>>
      \/ SwapPending \/ FunctorReturns \/ \E t \in Threads : QueueInLoop(t)
  BY DEF Next, vars, LoopStep, ThreadStep, StartLoop, TestQuit, HandleRead,
         ChannelsHandled, BeginPending, EndPending, PollWakeup, PollOther,
         PollReturns, QueueInLoopWakeup, Quit, QuitWakeup
<1> QED
  BY <1>1, <1>2, <1>3, <1>4, <1>5

(* Queued counts the functors of All.                                      *)
LEMMA QueuedIsLen ==
  ASSUME TypeOK
  PROVE  All \in Seq(Nat) /\ Len(All) = Queued /\ Queued \in Nat
<1>1. /\ executed \o functors \in Seq(Nat)
      /\ Len(executed \o functors) = Len(executed) + Len(functors)
  BY ConcatProperties DEF TypeOK
<1>2. /\ All \in Seq(Nat)
      /\ Len(All) = Len(executed \o functors) + Len(pendingFunctors)
  BY <1>1, ConcatProperties DEF TypeOK, All
<1>3. Len(executed) \in Nat /\ Len(functors) \in Nat /\ Len(pendingFunctors) \in Nat
  BY LenProperties DEF TypeOK
<1> QED
  BY <1>1, <1>2, <1>3 DEF Queued

(* No functor is lost, repeated or reordered (EventLoop.cpp:136-151).      *)
THEOREM FunctorsInOrder == SafeSpec => []AllInOrder
<1> DEFINE OInv == CInv /\ AllInOrder
<1>1. Init => OInv
  <2> SUFFICES ASSUME Init PROVE AllInOrder
    BY InitCInv
  <2>1. executed \o functors \o pendingFunctors = <<>>
    BY DEF Init
  <2> QED
    BY <2>1 DEF AllInOrder
<1>2. OInv /\ [Next]_vars => OInv'
  <2> SUFFICES ASSUME OInv, [Next]_vars PROVE AllInOrder'
    BY StepCInv
  <2>1. TypeOK
    BY DEF CInv
  <2>2. All \in Seq(Nat) /\ Len(All) = Queued /\ Queued \in Nat
    BY <2>1, QueuedIsLen
  <2>3. \A i \in 1..Len(All) : All[i] = i
    BY DEF AllInOrder, All
  <2>4. CASE All' = All
    BY <2>3, <2>4 DEF AllInOrder, All
  <2>5. CASE All' = Append(All, Queued + 1)
    <3>1. /\ Len(All') = Queued + 1
          /\ \A i \in 1..Queued : All'[i] = All[i]
          /\ All'[Queued + 1] = Queued + 1
      BY <2>2, <2>5, AppendProperties
    <3>2. \A i \in 1..Len(All') : All'[i] = i
      BY <2>2, <2>3, <3>1
    <3> QED
      BY <3>2 DEF AllInOrder, All
  <2> QED
    BY <2>1, <2>4, <2>5, StepAll
<1>3. OInv => AllInOrder
  OBVIOUS
<1> HIDE DEF OInv
<1> QED
  BY <1>1, <1>2, <1>3, PTL DEF SafeSpec

-----------------------------------------------------------------------------
(* Every behaviour of the loop, seen as queue, done and closed, is a       *)
(* behaviour of FunctorQueue without its fairness (EventLoop.cpp:55-151).  *)
THEOREM LoopImplementsQueue == SafeSpec => FQ!SafeSpec
<1>1. Init => FQ!Init
  BY DEF Init, FQ!Init
<1>2. CInv /\ [Next]_vars => [FQ!Next]_(FQ!vars)
  <2> SUFFICES ASSUME CInv, [Next]_vars PROVE [FQ!Next]_(FQ!vars)
    OBVIOUS
  <2> DEFINE S == Nat
             queue == functors \o pendingFunctors
  <2>0. /\ executed \in Seq(S) /\ functors \in Seq(S) /\ pendingFunctors \in Seq(S)
        /\ queue \in Seq(S) /\ Len(queue) = Len(functors) + Len(pendingFunctors)
        /\ Len(executed) \in Nat /\ Len(functors) \in Nat
        /\ Len(pendingFunctors) \in Nat
    BY ConcatProperties, LenProperties DEF CInv, TypeOK
  <2>1. CASE \E t \in Threads : QueueInLoop(t)
    <3>1. /\ pendingFunctors' = Append(pendingFunctors, Queued + 1)
          /\ Queued < MaxFunctors
          /\ UNCHANGED <<functors, executed, pc>>
      BY <2>1 DEF QueueInLoop
    <3>2. Queued = Len(executed) + Len(queue) /\ Queued + 1 \in S
      BY <2>0 DEF Queued
    <3>3. queue' = Append(queue, Len(executed) + Len(queue) + 1)
      <4>1. queue' = functors \o Append(pendingFunctors, Queued + 1)
        BY <3>1
      <4>2. functors \o Append(pendingFunctors, Queued + 1) = Append(queue, Queued + 1)
        <5>1. Queued + 1 \in S /\ functors \in Seq(S) /\ pendingFunctors \in Seq(S)
          BY <2>0, <3>2
        <5> QED
          BY <5>1, ConcatAppend, SMTT(30)
      <4> QED
        BY <3>2, <4>1, <4>2, Zenon
    <3> QED
      BY <3>1, <3>2, <3>3 DEF FQ!Next, FQ!Enqueue, FQ!vars
  <2>2. CASE SwapPending
    <3>1. /\ functors = <<>> /\ functors' = pendingFunctors
          /\ pendingFunctors' = <<>> /\ UNCHANGED executed
          /\ pc # "exited" /\ pc' # "exited"
      BY <2>2 DEF CInv, TypeOK, SwapPending, LoopAt
    <3>2. queue' = queue
      BY <2>0, <3>1, ConcatEmptySeq
    <3> QED
      BY <3>1, <3>2 DEF FQ!vars
  <2>3. CASE FunctorReturns
    <3>1. /\ functors # <<>> /\ functors' = Tail(functors)
          /\ executed' = Append(executed, Head(functors))
          /\ UNCHANGED pendingFunctors
          /\ pc # "exited" /\ pc' = pc
      BY <2>3 DEF FunctorReturns, LoopAt
    <3>2. /\ queue # <<>> /\ Head(queue) = Head(functors)
          /\ Tail(queue) = Tail(functors) \o pendingFunctors
      BY <2>0, <3>1, HeadTailConcat
    <3> QED
      BY <3>1, <3>2 DEF FQ!Next, FQ!Run, FQ!vars
  <2>4. CASE TestQuit
    BY <2>4 DEF TestQuit, LoopAt, FQ!Next, FQ!Close, FQ!vars
  <2>5. CASE /\ UNCHANGED <<executed, functors, pendingFunctors>>
             /\ (pc' = "exited") = (pc = "exited")
    BY <2>5 DEF FQ!vars
  <2>6. \/ UNCHANGED <<executed, functors, pendingFunctors>>
           /\ (pc' = "exited") = (pc = "exited")
        \/ TestQuit \/ SwapPending \/ FunctorReturns
        \/ \E t \in Threads : QueueInLoop(t)
    BY DEF Next, vars, LoopStep, ThreadStep, StartLoop, HandleRead, LoopAt,
           ChannelsHandled, BeginPending, EndPending, PollWakeup, PollOther,
           PollReturns, QueueInLoopWakeup, Quit, QuitWakeup
  <2> QED
    BY <2>1, <2>2, <2>3, <2>4, <2>5, <2>6
<1> QED
  BY InitCInv, StepCInv, <1>1, <1>2, PTL DEF SafeSpec, FQ!SafeSpec
=============================================================================
