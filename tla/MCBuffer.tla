------------------------------- MODULE MCBuffer -------------------------------
(* Buffer for TLC, with sizes small enough to be hit from both sides.      *)
EXTENDS Buffer
=============================================================================
