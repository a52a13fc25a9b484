---------------------------- MODULE MCThreadPool ----------------------------
(* Small instances of ThreadPool for TLC; liveness is checked, so no symmetry.   *)
EXTENDS ThreadPool
=============================================================================
