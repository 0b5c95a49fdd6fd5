SPECIFICATION Spec
CONSTANTS
  DriverId = {d1}
  JobId = {j1}
  OfferId = {o1, o2}
  Cell = {west, east}
  CellOf <- MCCellOf
  NoOffer = NoOffer
  NoCommand = NoCommand
  MaxSeq = 6
  MaxFailures = 1
  SnapshotAt = {3, 5, 6}
INVARIANTS
  TypeOK
  OnlyUnkeptIsLost
  TimelineSurvives
  IndexSurvives
PROPERTIES
  ImplementsPromise
SYMMETRY MCSymmetry
CHECK_DEADLOCK TRUE
