\* every kind of record, one client that may send lines
CONSTANTS
  Conns = {c1}
  Probes = {p1}
  NodeRecords = {node}
  GoneRecords = {gone}
  OtherRecords = {}
  InternalRecords = {inner}
  CountModulus = 8
  MaxPublished = 2
  MaxChanges = 1
  MaxLines = 2
SPECIFICATION Spec
INVARIANTS
  TypeOK
PROPERTIES
  EventsReachClients
CHECK_DEADLOCK FALSE
