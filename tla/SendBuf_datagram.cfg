\* send_func is sendto() on a datagram socket
CONSTANTS
  BufferSize = 5
  TokenSizes = {2, 3}
  AllOrNothing = TRUE
  MaxAccepted = 14
SPECIFICATION Safety
INVARIANTS
  IInv
  WholeDatagrams
CHECK_DEADLOCK FALSE
