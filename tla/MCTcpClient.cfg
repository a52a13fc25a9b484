SPECIFICATION FairSpec
CONSTANTS
  MaxStarts = 3
  MaxStops = 2
  MaxCloses = 2
CHECK_DEADLOCK FALSE
INVARIANTS AssertionsHold SocketsOwned ConnectionCurrent DisconnectSafe
PROPERTIES StopIsFinal AttemptEnds
