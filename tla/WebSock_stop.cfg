\* what a client sends behind a failure
CONSTANTS
  BufSize = 5
  Requests <- MCRequests
  Scripts <- MCScripts
SPECIFICATION Spec
PROPERTIES
  ProcessingStops
CHECK_DEADLOCK FALSE
