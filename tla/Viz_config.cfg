CONSTANTS
  Conns = {c1}
  Probes = {p1}
  NodeRecords = {node}
  GoneRecords = {}
  OtherRecords = {}
  InternalRecords = {}
  CountModulus = 8
  MaxPublished = 1
  MaxChanges = 1
  MaxLines = 2
SPECIFICATION Spec
PROPERTIES
  LinesAreReceived
CHECK_DEADLOCK FALSE
