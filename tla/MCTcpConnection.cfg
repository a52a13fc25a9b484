CONSTANTS
  Foreign = {f1}
  MaxBytes = 3
  MaxLen = 2
  MaxMessages = 1
  SndCap = 1
SPECIFICATION FairSpec
INVARIANTS StreamInOrder OutputWatched InputWatched FinAfterData LocalTeardownClean
PROPERTIES ShutdownCompletes ClosedIsDestroyed
CHECK_DEADLOCK FALSE
