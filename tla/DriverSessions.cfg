SPECIFICATION Spec
CONSTANTS
  d1 = d1
  d2 = d2
  s1 = s1
  s2 = s2
  s3 = s3
  DriverId = {d1, d2}
  SessionId = {s1, s2, s3}
  DriverOf <- TwoDrivers
  MaxOffers = 2
  MaxSubmits = 2
  Cancellable = {"Pending"}
  Strays = {}
  Sweeper = Sweeper
INVARIANTS
  TypeOK
  SenderOfOpenSession
  SearchOffersReachDriver
\* all connections may have been used up
CHECK_DEADLOCK FALSE
