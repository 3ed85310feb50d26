---------------------------- MODULE FunctorQueue ----------------------------
(***************************************************************************)
(* What EventLoop promises to the code that hands it work: a functor given *)
(* to queueInLoop is run by the loop thread exactly once, functors are run *)
(* in the order in which they were queued, and as long as the loop has not *)
(* stopped a queued functor is eventually run.  Functors are numbered in   *)
(* the order in which they enter the queue.                                *)
(***************************************************************************)
EXTENDS Naturals, Sequences

CONSTANT MaxFunctors    \* bound on the functors queued in one behaviour

VARIABLES queue,    \* the functors waiting, the running one first
          done,     \* the functors whose call has returned, in order
          closed    \* the loop has left EventLoop::loop

vars == <<queue, done, closed>>

Init == queue = <<>> /\ done = <<>> /\ closed = FALSE

Enqueue ==
  /\ Len(done) + Len(queue) < MaxFunctors
  /\ queue' = Append(queue, Len(done) + Len(queue) + 1)
  /\ UNCHANGED <<done, closed>>

Run ==
  /\ ~closed
  /\ queue # <<>>
  /\ done' = Append(done, Head(queue))
  /\ queue' = Tail(queue)
  /\ UNCHANGED closed

Close ==
  /\ ~closed
  /\ closed' = TRUE
  /\ UNCHANGED <<queue, done>>

Next == Enqueue \/ Run \/ Close

SafeSpec == Init /\ [][Next]_vars

Spec == SafeSpec /\ WF_vars(Run)
=============================================================================
