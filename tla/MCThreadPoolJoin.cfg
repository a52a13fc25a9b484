CONSTANTS
  Workers = {w1}
  Submitters = {s1}
  Nobody = nobody
  MaxTasks = 1
SPECIFICATION FairPoolSpec
PROPERTY DestructorReturns
CHECK_DEADLOCK FALSE
