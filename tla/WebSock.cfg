\* a local buffer of 5 bytes, so that a read takes several turns
CONSTANTS
  BufSize = 5
  Requests <- MCRequests
  Scripts <- MCScripts
SPECIFICATION Spec
INVARIANTS
  TypeOK
  WaitingIsNext
  MessagesDelivered
  RepliesInOrder
  CallbacksBracketed
PROPERTIES
  ClosedAfterCloseFrame
  ClosingEnds
CHECK_DEADLOCK FALSE
