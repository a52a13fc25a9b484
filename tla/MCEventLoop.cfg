CONSTANTS
  Callers = {c1, c2}
  LoopThread = loop
  Event = event
  Channels = {io1, io2}
  MaxTasks = 3
  InitialEvents = 1
SPECIFICATION PromptSpec
INVARIANTS NoLostWakeup
PROPERTIES QueueSpec TaskRuns QuitLeavesLoop
CHECK_DEADLOCK FALSE
