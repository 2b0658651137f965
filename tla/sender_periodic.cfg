SPECIFICATION FairSpec
CONSTANTS
  MaxDatagram = 3
  NetworkFails = FALSE
  MaxCalls = 1
CHECK_DEADLOCK FALSE
PROPERTIES
  AnnouncesPeriodically
