SPECIFICATION DiscoverySpec
CONSTANTS
  s1 = s1
  s2 = s2
  Services = {s1, s2}
  Announced <- MCAnnounced
  Announcements <- MCAnnouncements
  Malformed = Malformed
  MaxDatagram = 2
  NetworkFails = TRUE
  Lossy = TRUE
  MaxArrivals = 2
CHECK_DEADLOCK FALSE
INVARIANTS
  DiscoveryTypeOK
PROPERTIES
  IsADirectory
  
