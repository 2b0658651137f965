SPECIFICATION DiscoveryFairSpec
CONSTANTS
  s1 = s1
  s2 = s2
  Services = {s1, s2}
  Announced <- MCAnnounced
  Announcements <- MCAnnouncements
  Malformed = Malformed
  MaxDatagram = 1
  NetworkFails = FALSE
  Lossy = FALSE
  MaxArrivals = 2
CHECK_DEADLOCK FALSE
PROPERTIES
  Registers
