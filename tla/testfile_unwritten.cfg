SPECIFICATION Spec
CONSTANTS
  Sizes = {1, 2}
  MaxGhosts = 0
  MaxLost = 0
  MaxReboots = 0
INVARIANT AlwaysMeasuredWritten
