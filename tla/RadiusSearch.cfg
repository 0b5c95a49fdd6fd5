SPECIFICATION Spec
CONSTANTS
  DriverId = {d1, d2, d3}
  NoDriver = NoDriver
  Position <- MCPosition
  Distance <- MCDistance
  Request <- MCRequest
  MinRadius = 1
  RadiusStep = 20
  Limits = {1, 2, 32}
INVARIANTS
  TypeOK
  LoopMatchesClosedForm
PROPERTIES
  Terminates
\* the loop ends
CHECK_DEADLOCK FALSE
