------------------------------ MODULE TimerQueue ------------------------------
(***************************************************************************)
(* TimerQueue and Timer: the timers of one loop and the timerfd that wakes *)
(* the loop for the earliest of them.  Everything here is run by the loop  *)
(* thread, between the handlers of other channels; a call from another     *)
(* thread arrives as a functor of EventLoop.tla.  Callbacks may add and    *)
(* cancel timers.                                                          *)
(*                                                                         *)
(* Time is counted in ticks of the 100 microseconds resetTimerfd waits at  *)
(* least, and relatively: a timer has left[t] ticks to its expiration, 0   *)
(* at that instant and -1 at any time after it, and the timerfd has alarm  *)
(* ticks to go, 0 when it is readable.                                     *)
(***************************************************************************)
EXTENDS Integers

CONSTANTS Timers,       \* Timer objects alive at the same time
          MaxInterval   \* bound on delays and intervals, in ticks

ASSUME IntervalAssumption == MaxInterval \in Nat \ {0}

VARIABLES
  left,       \* expiration_ - now
  interval,   \* interval_, 0 for a timer that does not repeat
  timers,     \* timers_
  active,     \* activeTimers_
  canceling,  \* cancelingTimers_
  calling,    \* callingExpiredTimers_, handleRead is running callbacks
  batch,      \* the vector expired of handleRead
  toRun,      \* those of batch that have not been run
  age,        \* ticks since handleRead took the time
  alarm,      \* the timerfd, Off when it is not set
  ready,      \* the poller has reported the timerfd
  cancelled   \* timers cancelInLoop was called for since they were added

vars == <<left, interval, timers, active, canceling, calling, batch, toRun, age,
          alarm, ready, cancelled>>

Off == MaxInterval + 1

(* The state is well formed, timers_ and activeTimers_ hold the same       *)
(* timers, and no timer is both waiting and in the batch handleRead has    *)
(* taken out (TimerQueue.cpp:78-129).                                      *)
TypeOK ==
  /\ left \in [Timers -> -1..MaxInterval]
  /\ interval \in [Timers -> 0..MaxInterval]
  /\ timers \subseteq Timers /\ active = timers
  /\ canceling \subseteq Timers /\ cancelled \subseteq Timers
  /\ calling \in BOOLEAN /\ ready \in BOOLEAN
  /\ batch \subseteq Timers /\ toRun \subseteq batch /\ batch \cap timers = {}
  /\ ~calling => batch = {}
  /\ age \in 0..MaxInterval + 1
  /\ alarm \in 0..Off

Init ==
  /\ left = [t \in Timers |-> 0] /\ interval = [t \in Timers |-> 0]
  /\ timers = {} /\ active = {} /\ canceling = {} /\ cancelled = {}
  /\ calling = FALSE /\ batch = {} /\ toRun = {} /\ age = 0
  /\ alarm = Off /\ ready = FALSE

-----------------------------------------------------------------------------
\* resetTimerfd: at least one tick from now.  An expiration the timerfd has
\* counted and nobody has read is forgotten.
ResetTimerfd(k) == alarm' = IF k < 1 THEN 1 ELSE k

\* Some code of the loop thread that may call the queue is running: another
\* handler, or one of the expired timers' callbacks.
MayCall == ~calling \/ toRun # batch

\* Fault: the timerfd is set only for the first timer.
AddTimerNoReset(t, delay, every) ==
  /\ MayCall /\ t \notin timers \cup batch
  /\ left' = [left EXCEPT ![t] = delay]
  /\ interval' = [interval EXCEPT ![t] = every]
  /\ timers' = timers \cup {t} /\ active' = active \cup {t}
  /\ cancelled' = cancelled \ {t}
  /\ IF timers = {} THEN ResetTimerfd(delay) ELSE UNCHANGED alarm
  /\ UNCHANGED <<canceling, calling, batch, toRun, age, ready>>

\* addTimer and addTimerInLoop with insert.
AddTimer(t, delay, every) ==
  /\ MayCall /\ t \notin timers \cup batch
  /\ left' = [left EXCEPT ![t] = delay]
  /\ interval' = [interval EXCEPT ![t] = every]
  /\ timers' = timers \cup {t} /\ active' = active \cup {t}
  /\ cancelled' = cancelled \ {t}
  /\ IF \A o \in timers : delay < left[o] THEN ResetTimerfd(delay) ELSE UNCHANGED alarm
  /\ UNCHANGED <<canceling, calling, batch, toRun, age, ready>>

\* Fault: a cancellation out of a callback finds nothing and is forgotten.
CancelForgotten(t) ==
  /\ MayCall /\ t \notin cancelled
  /\ timers' = timers \ {t} /\ active' = active \ {t}
  /\ cancelled' = cancelled \cup {t}
  /\ UNCHANGED <<left, interval, canceling, calling, batch, toRun, age, alarm, ready>>

\* cancel and cancelInLoop.
Cancel(t) ==
  /\ MayCall /\ t \notin cancelled
  /\ IF t \in active THEN /\ timers' = timers \ {t} /\ active' = active \ {t}
                          /\ UNCHANGED canceling
     ELSE /\ canceling' = IF calling THEN canceling \cup {t} ELSE canceling
          /\ UNCHANGED <<timers, active>>
  /\ cancelled' = cancelled \cup {t}
  /\ UNCHANGED <<left, interval, calling, batch, toRun, age, alarm, ready>>

\* The poller reports a readable timerfd (external: kernel).
Poll ==
  /\ alarm = 0 /\ ~ready /\ ~calling
  /\ ready' = TRUE
  /\ UNCHANGED <<left, interval, timers, active, canceling, calling, batch, toRun, age,
                 alarm, cancelled>>

\* Fault: an expired timer stays among the active ones.
GetExpiredKeepsActive == timers' = timers \ batch' /\ UNCHANGED active

\* getExpired: a timer that expires at this very instant is not expired yet,
\* because the sentry (now, nullptr) is below every entry of that time.
GetExpired == timers' = timers \ batch' /\ active' = active \ batch'

\* handleRead up to the first callback.  The read finds nothing when another
\* handler has reset the timerfd since the poll.
HandleRead ==
  /\ ready /\ ~calling
  /\ ready' = FALSE
  /\ alarm' = IF alarm = 0 THEN Off ELSE alarm
  /\ batch' = {t \in timers : left[t] < 0} /\ toRun' = batch'
  /\ GetExpired
  /\ calling' = TRUE /\ canceling' = {} /\ age' = 0
  /\ UNCHANGED <<left, interval, cancelled>>

\* Timer::run.
Run(t) ==
  /\ calling /\ t \in toRun
  /\ toRun' = toRun \ {t}
  /\ UNCHANGED <<left, interval, timers, active, canceling, calling, batch, age, alarm,
                 ready, cancelled>>

Repeated == {t \in batch : interval[t] > 0 /\ t \notin canceling}

\* Timer::restart counts from the time handleRead took.
Restarted(t) == IF interval[t] < age THEN -1 ELSE interval[t] - age

\* Fault: the timerfd is not set again.
ResetNoRearm ==
  /\ calling /\ toRun = {}
  /\ left' = [t \in Timers |-> IF t \in Repeated THEN Restarted(t) ELSE left[t]]
  /\ timers' = timers \cup Repeated /\ active' = active \cup Repeated
  /\ calling' = FALSE /\ batch' = {}
  /\ UNCHANGED <<interval, canceling, toRun, age, alarm, ready, cancelled>>

\* The end of handleRead: reset.
Reset ==
  /\ calling /\ toRun = {}
  /\ left' = [t \in Timers |-> IF t \in Repeated THEN Restarted(t) ELSE left[t]]
  /\ timers' = timers \cup Repeated /\ active' = active \cup Repeated
  /\ \/ timers' = {} /\ UNCHANGED alarm
     \/ \E t \in timers' : (\A o \in timers' : left'[t] <= left'[o]) /\ ResetTimerfd(left'[t])
  /\ calling' = FALSE /\ batch' = {}
  /\ UNCHANGED <<interval, canceling, toRun, age, ready, cancelled>>

\* Time passes (external), whatever the loop is doing.
Tick ==
  /\ left' = [t \in Timers |-> IF left[t] > -1 THEN left[t] - 1 ELSE -1]
  /\ alarm' = IF alarm \in {0, Off} THEN alarm ELSE alarm - 1
  /\ age' = IF calling /\ age <= MaxInterval THEN age + 1 ELSE age
  /\ UNCHANGED <<interval, timers, active, canceling, calling, batch, toRun, ready, cancelled>>

-----------------------------------------------------------------------------
Next ==
  \/ \E t \in Timers, d \in 1..MaxInterval, e \in 0..MaxInterval : AddTimer(t, d, e)
  \/ \E t \in Timers : Cancel(t) \/ Run(t)
  \/ Poll \/ HandleRead \/ Reset \/ Tick

SafeSpec == Init /\ [][Next]_vars

(* Time passes, and the loop polls in every round and finishes handleRead. *)
Spec == SafeSpec /\ WF_vars(Tick) /\ WF_vars(Poll) /\ WF_vars(HandleRead)
          /\ WF_vars(Reset) /\ \A t \in Timers : WF_vars(Run(t))

-----------------------------------------------------------------------------
(* While timers wait, the timerfd is set, and for no later than the        *)
(* earliest of them: adding, cancelling and restarting timers, in other    *)
(* handlers and in timer callbacks, never leaves the loop asleep past an   *)
(* expiration (TimerQueue.cpp:31-40,72-101,119-145).                       *)
AlarmArmed ==
  ~calling /\ ~ready =>
    \A t \in timers : alarm <= (IF left[t] < 1 THEN 1 ELSE left[t])

(* A cancelled timer does not come back: it is in neither set, and if it   *)
(* is in the batch whose callbacks are running it will not be restarted    *)
(* (TimerQueue.cpp:78-101,131-145).                                        *)
CancelStops ==
  \A t \in cancelled : t \notin timers /\ t \notin Repeated

(* Every timer runs, unless it is cancelled first, whatever else is added  *)
(* and cancelled meanwhile; a repeating one runs again and again           *)
(* (TimerQueue.cpp:89-145).                                                *)
TimersRun ==
  \A t \in Timers :
    /\ t \in timers ~> (t \in toRun \/ t \in cancelled)
    /\ t \in timers /\ interval[t] > 0 ~> (t \in batch \ toRun \/ t \in cancelled)
=============================================================================
