SPECIFICATION Spec
CONSTANTS
  Actor = {"a1"}
  DriverId = {"d1"}
  ConfiguredLimit <- MCLimit
  ConfiguredWindow <- MCWindow
  Second = 2
  MaxTime = 10
  MaxRequests = 4
INVARIANTS
  TypeOK
  WindowBound
  RetryAfterIsClose
PROPERTIES
  ImplementsQuota
\* time is bounded
CHECK_DEADLOCK FALSE
