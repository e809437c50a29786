\* Two IO loops, two clients, one at a time in the backlog, two requests; two
\* clients do not both reset and send two requests.
SPECIFICATION Spec
CONSTANTS
  ThreadNums = 2
  ListenQueue = 1
  MaxConns = 2
  MaxRequests = 2
  MaxErrors = 0
  IdModulus = 4
CONSTRAINT
  ResetsWithinBounds
INVARIANTS
  TypeOK
  AssertionsHold
  RunsInOwnLoop
  NoDanglingChannel
  EntryOfOpenConnection
  OneActiveTimer
PROPERTY
  ImplementsLifecycle
