SPECIFICATION FairSpec
CONSTANTS
  Objects = {p, q}
  Descriptors = {0, 1}
CHECK_DEADLOCK FALSE
INVARIANTS
  TypeOK
  
  ReleasedWhenDestroyed
  FailureIsContained
PROPERTIES
  ListenersStop
