SPECIFICATION FairSpec
CONSTANTS
  MaxDatagram = 5
  NetworkFails = TRUE
  MaxCalls = 4
CHECK_DEADLOCK FALSE
INVARIANTS
  TypeOK
  ChainNeverForks
  StopsForAReason
  
  DatagramsGrow
PROPERTIES
  StopEndsThread
  SendReturns
  AnnouncesWhileItFits
