SPECIFICATION FairSpec
CONSTANTS
  Huge = 99
  MaxPipelined = 2
  Messages <- AllMessages
INVARIANTS RequestsAsSent AnswersInOrder
PROPERTIES CompleteIsAnswered OnMessageEnds
CHECK_DEADLOCK FALSE
