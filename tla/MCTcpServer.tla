---------------------------- MODULE MCTcpServer ----------------------------
(* TcpServer for TLC; liveness is checked and descriptors are ordered, so   *)
(* no symmetry.                                                             *)
EXTENDS TcpServer
=============================================================================
