----------------------------- MODULE MCTimerQueue -----------------------------
(* TimerQueue for TLC: the constants are given in MCTimerQueue.cfg.        *)
EXTENDS TimerQueue
=============================================================================
