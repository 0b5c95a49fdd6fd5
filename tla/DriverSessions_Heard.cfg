SPECIFICATION FairSpec
CONSTANTS
  d1 = d1
  d2 = d2
  s1 = s1
  s2 = s2
  s3 = s3
  DriverId = {d1, d2}
  SessionId = {s1, s2}
  DriverOf <- OneDriver
  MaxOffers = 2
  MaxSubmits = 1
  Cancellable = {"Pending", "Overdue", "Accepted"}
  Strays = {s2}
  Sweeper = Sweeper
PROPERTIES
  DeafSessionCloses
  ExpiryIsHeard
\* all connections may have been used up
CHECK_DEADLOCK FALSE
