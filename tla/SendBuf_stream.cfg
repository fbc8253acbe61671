\* send_func may take any part of what it is offered, and keeps moving bytes
CONSTANTS
  BufferSize = 4
  TokenSizes = {1, 2, 4}
  AllOrNothing = FALSE
  MaxAccepted = 8
SPECIFICATION Spec
INVARIANTS
  TypeOK
  WireInOrder
  Conserved
  NeverSendsEmpty
PROPERTIES
  ImplementsStream
  ImplementsLiveStream
  FullIsTemporary
  EveryByteSettles
CHECK_DEADLOCK FALSE
