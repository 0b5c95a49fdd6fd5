SPECIFICATION FairSpec
CONSTANTS
  DriverId = {d1, d2}
  JobId = {j1}
  OfferId = {o1, o2}
  NoOffer = NoOffer
  Category <- MCCategory
  Position <- MCPosition
  Distance <- MCDistance
  Cell <- MCCell
  CellOf <- MCCellOf
  Request <- MCRequest
  Report <- MCSpreadReport
  MinRadius = 1
  RadiusStep = 20
  SubmitLimit = 3
  CandidateLimit = 32
  MaxJobEvents = 2
  MaxSequence = 4
  LapsingStatus = {"Pending", "Accepted"}
  Resubmit = FALSE
PROPERTIES
  NextCandidateIsTried
CHECK_DEADLOCK TRUE
