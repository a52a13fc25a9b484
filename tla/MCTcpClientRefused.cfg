SPECIFICATION Spec
CONSTANTS
  MaxStarts = 1
  MaxStops = 0
  MaxCloses = 0
CHECK_DEADLOCK FALSE
INVARIANT HandsOverConnected
