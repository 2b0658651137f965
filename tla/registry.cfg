SPECIFICATION FairSpec
CONSTANTS
  a = a
  b = b
  plain = plain
  changed = changed
  Malformed = Malformed
  Announcements <- MCAnnouncements
  MaxDatagram = 3
  NetworkFails = FALSE
  MaxArrivals = 4
CHECK_DEADLOCK FALSE
INVARIANTS
  TypeOK
  OneKeyPending
  RelayLog
  
  OneFront
  NoUseAfterShutdown
PROPERTIES
  ShutdownReturns
  RelayedWhileItFits
  
