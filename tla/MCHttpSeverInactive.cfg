SPECIFICATION Spec
CONSTANTS
  ThreadNums = 1
  ListenQueue = 2
  MaxConns = 1
  MaxRequests = 1
  MaxErrors = 0
  IdModulus = 4
PROPERTY
  InactiveClosed
