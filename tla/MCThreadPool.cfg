CONSTANTS
  Workers = {w1, w2, w3}
  Submitters = {s1, s2}
  Nobody = nobody
  MaxTasks = 3
SPECIFICATION FairPoolSpec
INVARIANTS HandedOutInOrder CriticalSection NoOversleep
PROPERTY TaskStarts
CHECK_DEADLOCK FALSE
