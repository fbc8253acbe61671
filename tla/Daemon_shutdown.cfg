\* both modes, forks that fail, redis ending when it likes or never
CONSTANTS
  WaitTries = 10
  MaxSignals = 3
SPECIFICATION Spec
INVARIANTS
  TypeOK
  ParentReportsTruly
  RedisIsReaped
PROPERTIES
  DeadlySignalEndsRoot
CHECK_DEADLOCK FALSE
