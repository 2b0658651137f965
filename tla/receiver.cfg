SPECIFICATION FairSpec
CONSTANTS
  Datagrams <- MCDatagrams
  Minimum = 10
  Lengths = {12}
  TruncationIsError = FALSE
  MaxArrivals = 3
  MaxReceives = 3
CHECK_DEADLOCK FALSE
INVARIANTS
  TypeOK
  BufferIsTheHandlers
  
PROPERTIES
  IsAnIntake
  StopEndsThread
  NeverDeaf
