\* the echo of a text with a zero in it
CONSTANTS
  BufSize = 5
  Requests <- MCRequests
  Scripts <- MCScripts
SPECIFICATION Spec
INVARIANTS
  EchoesAreExact
CHECK_DEADLOCK FALSE
