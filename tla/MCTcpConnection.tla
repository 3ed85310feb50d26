--------------------------- MODULE MCTcpConnection ---------------------------
(* TcpConnection for TLC: two foreign loops send besides the own loop.     *)
EXTENDS TcpConnection
=============================================================================
