SPECIFICATION FairSpec
CONSTANTS
  Huge = 99
  MaxPipelined = 1
  Messages <- AllMessages
PROPERTY OnMessageReturns
CHECK_DEADLOCK FALSE
