CONSTANTS
  WaitTries = 10
  MaxSignals = 1
SPECIFICATION Safety
INVARIANTS
  ReportsTruly
CHECK_DEADLOCK FALSE
