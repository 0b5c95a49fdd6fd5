SPECIFICATION FairSpec
CONSTANTS
  Delivery = {w1}
  MaxSkew = 1
  NonceTtl = 2
  Offsets <- MCOffsets
  Attempts = 3
  MaxTime = 4
  MaxRestarts = 1
INVARIANTS
  TypeOK
  HandledOnce
  OkMeansHandled
PROPERTIES
  EveryDeliveryEnds
\* time and restarts are bounded, and deliveries end
CHECK_DEADLOCK FALSE
