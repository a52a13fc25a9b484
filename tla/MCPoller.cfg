SPECIFICATION PollerSpec
CONSTANTS
  Channels = {c1, c2, c3, c4}
  Fds = {f1, f2}
  Connectors = {k1}
  NoChannel = none
SYMMETRY PollerSymmetry
INVARIANTS RegistrationMirrors PointersLive AssertionsHold
