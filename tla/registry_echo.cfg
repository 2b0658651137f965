SPECIFICATION FairSpec
CONSTANTS
  a = a
  b = b
  plain = plain
  changed = changed
  Malformed = Malformed
  Announcements <- MCAnnouncements
  MaxDatagram = 3
  NetworkFails = FALSE
  MaxArrivals = 2
CHECK_DEADLOCK FALSE
PROPERTIES
  EchoedToAll
