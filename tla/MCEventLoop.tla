---------------------------- MODULE MCEventLoop ----------------------------
(* Small instances of EventLoop for TLC; liveness is checked, so no symmetry.   *)
EXTENDS EventLoop
=============================================================================
