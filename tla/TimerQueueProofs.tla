--------------------------- MODULE TimerQueueProofs ---------------------------
(***************************************************************************)
(* Proofs about TimerQueue.tla, for any number of timers and any bound on  *)
(* their intervals.  The conjunction of the three invariants is inductive: *)
(* AlarmArmed needs the disjointness of waiting and expired timers that    *)
(* TypeOK states, and CancelStops needs timers_ and activeTimers_ to agree.*)
(***************************************************************************)
EXTENDS TimerQueue, TLAPS

USE IntervalAssumption DEF Off

(* The state stays well formed and timers_ equals activeTimers_ in every   *)
(* state TimerQueue.cpp reaches.                                           *)
THEOREM TimersAgree == SafeSpec => []TypeOK
<1>1. Init => TypeOK
  <2> SUFFICES ASSUME Init PROVE TypeOK
    OBVIOUS
  <2>1. calling \in BOOLEAN /\ ready \in BOOLEAN
    BY Zenon DEF Init
  <2> QED
    BY <2>1 DEF Init, TypeOK
<1>2. TypeOK /\ [Next]_vars => TypeOK'
  <2> SUFFICES ASSUME TypeOK, [Next]_vars PROVE TypeOK'
    OBVIOUS
  <2>1. ASSUME NEW t \in Timers, NEW d \in 1..MaxInterval, NEW e \in 0..MaxInterval,
               AddTimer(t, d, e)
        PROVE  TypeOK'
    BY <2>1 DEF AddTimer, TypeOK, MayCall, ResetTimerfd
  <2>2. ASSUME NEW t \in Timers, Cancel(t) PROVE TypeOK'
    BY <2>2 DEF Cancel, TypeOK, MayCall
  <2>3. ASSUME NEW t \in Timers, Run(t) PROVE TypeOK'
    BY <2>3 DEF Run, TypeOK
  <2>4. CASE Poll
    BY <2>4 DEF Poll, TypeOK
  <2>5. CASE HandleRead
    <3>1. calling' \in BOOLEAN /\ ready' \in BOOLEAN
      BY <2>5, Zenon DEF HandleRead
    <3> QED
      BY <2>5, <3>1 DEF HandleRead, GetExpired, TypeOK
  <2>6. CASE Reset
    <3>1. calling' \in BOOLEAN /\ ready' \in BOOLEAN
      BY <2>6, Zenon DEF Reset, TypeOK
    <3>2. left' \in [Timers -> -1..MaxInterval] /\ timers' \subseteq Timers
      BY <2>6 DEF Reset, Repeated, Restarted, TypeOK
    <3>3. alarm' \in 0..Off
      BY <2>6, <3>2 DEF Reset, ResetTimerfd, TypeOK
    <3> QED
      BY <2>6, <3>1, <3>2, <3>3 DEF Reset, Repeated, TypeOK
  <2>7. CASE Tick
    BY <2>7 DEF Tick, TypeOK
  <2>8. CASE UNCHANGED vars
    BY <2>8 DEF vars, TypeOK
  <2> QED
    BY <2>1, <2>2, <2>3, <2>4, <2>5, <2>6, <2>7, <2>8 DEF Next
<1> QED
  BY <1>1, <1>2, PTL DEF SafeSpec

(* The timerfd is always set for no later than the earliest waiting timer, *)
(* whatever handlers and callbacks add, cancel and restart.                *)
THEOREM AlarmAlwaysArmed == SafeSpec => []AlarmArmed
<1>1. Init => AlarmArmed
  BY DEF Init, AlarmArmed
<1>2. TypeOK /\ AlarmArmed /\ [Next]_vars => AlarmArmed'
  <2> SUFFICES ASSUME TypeOK, AlarmArmed, [Next]_vars PROVE AlarmArmed'
    OBVIOUS
  <2>1. ASSUME NEW t \in Timers, NEW d \in 1..MaxInterval, NEW e \in 0..MaxInterval,
               AddTimer(t, d, e)
        PROVE  AlarmArmed'
    BY <2>1 DEF AddTimer, TypeOK, AlarmArmed, ResetTimerfd
  <2>2. ASSUME NEW t \in Timers, Cancel(t) PROVE AlarmArmed'
    BY <2>2 DEF Cancel, AlarmArmed
  <2>3. ASSUME NEW t \in Timers, Run(t) PROVE AlarmArmed'
    BY <2>3 DEF Run, AlarmArmed
  <2>4. CASE Poll
    BY <2>4 DEF Poll, AlarmArmed
  <2>5. CASE HandleRead
    BY <2>5 DEF HandleRead, AlarmArmed
  <2>6. CASE Reset
    <3>1. left' \in [Timers -> -1..MaxInterval] /\ timers' \subseteq Timers
      BY <2>6 DEF Reset, Repeated, Restarted, TypeOK
    <3>2. CASE timers' = {}
      BY <3>2 DEF AlarmArmed
    <3>3. ASSUME NEW t \in timers', \A o \in timers' : left'[t] <= left'[o],
                 ResetTimerfd(left'[t])
          PROVE  AlarmArmed'
      BY <3>1, <3>3 DEF AlarmArmed, ResetTimerfd
    <3> QED
      BY <2>6, <3>2, <3>3 DEF Reset
  <2>7. CASE Tick
    BY <2>7 DEF Tick, TypeOK, AlarmArmed
  <2>8. CASE UNCHANGED vars
    BY <2>8 DEF vars, AlarmArmed
  <2> QED
    BY <2>1, <2>2, <2>3, <2>4, <2>5, <2>6, <2>7, <2>8 DEF Next
<1> QED
  BY <1>1, <1>2, TimersAgree, PTL DEF SafeSpec

(* A cancelled timer is neither waiting nor restarted after its batch.     *)
THEOREM CancelIsFinal == SafeSpec => []CancelStops
<1>1. Init => CancelStops
  BY DEF Init, CancelStops
<1>2. TypeOK /\ CancelStops /\ [Next]_vars => CancelStops'
  <2> SUFFICES ASSUME TypeOK, CancelStops, [Next]_vars PROVE CancelStops'
    OBVIOUS
  <2> USE DEF CancelStops, Repeated
  <2>1. ASSUME NEW t \in Timers, NEW d \in 1..MaxInterval, NEW e \in 0..MaxInterval,
               AddTimer(t, d, e)
        PROVE  CancelStops'
    BY <2>1 DEF AddTimer, TypeOK
  <2>2. ASSUME NEW t \in Timers, Cancel(t) PROVE CancelStops'
    BY <2>2 DEF Cancel, TypeOK
  <2>3. ASSUME NEW t \in Timers, Run(t) PROVE CancelStops'
    BY <2>3 DEF Run
  <2>4. CASE Poll
    BY <2>4 DEF Poll
  <2>5. CASE HandleRead
    BY <2>5 DEF HandleRead, GetExpired, TypeOK
  <2>6. CASE Reset
    BY <2>6 DEF Reset
  <2>7. CASE Tick
    BY <2>7 DEF Tick
  <2>8. CASE UNCHANGED vars
    BY <2>8 DEF vars
  <2> QED
    BY <2>1, <2>2, <2>3, <2>4, <2>5, <2>6, <2>7, <2>8 DEF Next
<1> QED
  BY <1>1, <1>2, TimersAgree, PTL DEF SafeSpec
=============================================================================
