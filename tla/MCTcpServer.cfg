SPECIFICATION FairSpec
CONSTANTS
  MaxThreads = 2
  Fds = {1, 2}
  MaxConns = 3
  MaxCloses = 2
  MaxErrors = 1
CHECK_DEADLOCK FALSE
INVARIANTS TypeOK OpenIsTracked ReleasedIsClean WaitingIsReported SingleTeardownClean
PROPERTY ClosedIsReleased
