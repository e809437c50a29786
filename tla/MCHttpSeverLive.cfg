\* One IO loop; two clients that may wait together, with one error of accept4()
\* or one request, or one client with up to three requests.
SPECIFICATION LiveSpec
CONSTANTS
  ThreadNums = 1
  ListenQueue = 2
  MaxConns = 2
  MaxRequests = 3
  MaxErrors = 1
  IdModulus = 4
PROPERTIES
  EndOfFileNoticed
  ClosedFreed
  KeepAliveCloses
