SPECIFICATION Spec
CONSTANTS
  Datagrams <- FittingDatagrams
  Minimum = 10
  Lengths = {}
  TruncationIsError = FALSE
  MaxArrivals = 3
  MaxReceives = 3
CHECK_DEADLOCK FALSE
INVARIANTS
  ReceiveGivesItsMessage
