SPECIFICATION FairSpec
CONSTANTS
  s1 = s1
  s2 = s2
  Services = {s1, s2}
  Cells = {1, 2}
  None = None
  Given <- MCGiven
  Pieces <- MCPieces
  Words <- MCWords
  Hosts <- MCHosts
  Numbers <- MCNumbers
INVARIANTS
  TypeOK
  NoUseAfterFree
  OneOwner
  
  
PROPERTIES
  StoppedForGood
  StopEndsThreads
  OwnerReturns
