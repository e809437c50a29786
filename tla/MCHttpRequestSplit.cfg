\* Two kept requests, read in pieces of any size: a request in parts.
SPECIFICATION Spec
CONSTANTS
  Requests <- KeptOnly
  BodyLen = 2
  MaxRequests = 2
INVARIANT WaitsForWhole
CHECK_DEADLOCK FALSE
