-------------------------- MODULE MCTcpConnection --------------------------
(* Small instances of TcpConnection for TLC; liveness is checked, so no symmetry.   *)
EXTENDS TcpConnection
=============================================================================
