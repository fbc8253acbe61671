\* two clients, two probes, a node record and a record without text
CONSTANTS
  Conns = {c1, c2}
  Probes = {p1, p2}
  NodeRecords = {node}
  GoneRecords = {}
  OtherRecords = {other}
  InternalRecords = {}
  CountModulus = 8
  MaxPublished = 3
  MaxChanges = 0
  MaxLines = 0
SYMMETRY Interchangeable
SPECIFICATION Safety
INVARIANTS
  OutputFollowsFeed
  NoEventLost
PROPERTIES
  ImplementsBroadcast
CHECK_DEADLOCK FALSE
