SPECIFICATION Spec
CONSTANTS
  DriverId = {d1}
  JobId = {j1}
  OfferId = {o1, o2}
  Cell = {west}
  CellOf <- MCCellOf
  NoOffer = NoOffer
  NoCommand = NoCommand
  MaxSeq = 6
  MaxFailures = 0
  SnapshotAt = {1}
INVARIANTS
  ReplayIsDeterministic
SYMMETRY MCSymmetry
CHECK_DEADLOCK TRUE
