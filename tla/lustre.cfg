SPECIFICATION FairSpec
CONSTANTS
  MaxFaults = 1
  MaxReboots = 1
INVARIANT TypeOK
PROPERTIES
  UpMeansUp
  SafeMeansDown
  BringupOrder
  NodeUnmountOrder
  BringupConverges
