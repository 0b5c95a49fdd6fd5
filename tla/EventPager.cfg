SPECIFICATION Spec
CONSTANTS
  Kind = {"offer", "match"}
  Reading <- MCReading
  MaxJobEvents = 3
  DefaultLimit = 2
  MaxAttempts = 2
  MaxResumes = 2
  NoBound = NoBound
  NoCursor = NoCursor
  MaxLog = 4
  MaxTime = 1
INVARIANTS
  TypeOK
  NewestFirst
  NoGaps
  Complete
PROPERTIES
  ReadingEnds
\* the reader ends
CHECK_DEADLOCK FALSE
