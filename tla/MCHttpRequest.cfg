\* Up to three requests of six kinds, read in pieces of any size.
SPECIFICATION Spec
CONSTANTS
  Requests <- AllRequests
  BodyLen = 2
  MaxRequests = 3
INVARIANTS
  TypeOK
  AnswersInOrder
  NotBeforeComplete
CHECK_DEADLOCK FALSE
