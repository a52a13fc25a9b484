------------------------------ MODULE MCPoller ------------------------------
(* Instances of Poller for TLC.  Channels are interchangeable, and so are    *)
(* descriptors.                                                             *)
EXTENDS Poller, TLC

PollerSymmetry == Permutations(Channels) \cup Permutations(Fds)
=============================================================================
