CONSTANTS
  Foreign = {f1}
  Loop = loop
  MaxTimers = 2
  MaxTime = 4
  Expirations = {0, 1, 3}
  Intervals = {0, 1}
  Grace = 1
SPECIFICATION Spec
INVARIANTS SetsMirror TimerfdCovers CancelIsFinal
PROPERTY NeverEarly
CHECK_DEADLOCK FALSE
