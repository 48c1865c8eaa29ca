SPECIFICATION TargetSpec
CONSTANTS
  Sizes = {1, 2}
  MaxGhosts = 2
  MaxLost = 1
  MaxReboots = 1
  Campaigns <- OneOrTwo
  FreeSpace = {1, 3}
  Margin = 1
INVARIANTS
  TypeOK
  MeasuredWritten
  MarkerSound
  RefusedForItsOwnFile
PROPERTY NeverExtends
