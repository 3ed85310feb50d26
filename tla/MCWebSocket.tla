------------------------------ MODULE MCWebSocket ------------------------------
(* WebSocket for TLC: the constants are given in the cfg files.  Max7 and  *)
(* Max16 are scaled down so that every form of the length occurs.          *)
EXTENDS WebSocket
=============================================================================
