----------------------------- MODULE MCTcpServer -----------------------------
(* TcpServer for TLC: the constants are given in MCTcpServer.cfg.          *)
EXTENDS TcpServer
=============================================================================
