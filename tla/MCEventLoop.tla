----------------------------- MODULE MCEventLoop -----------------------------
(* EventLoop for TLC: the loop thread and two other threads.               *)
EXTENDS EventLoop
=============================================================================
