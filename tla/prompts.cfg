SPECIFICATION Spec
CONSTANTS
  Near <- NearTitles
  Blank = Blank
  Torn = Torn
  NoFile = NoFile
  Corpora <- Kitchens
  N = 3
  NIndian = 1
  MaxBuilds = 1
  CutAt = {0, 4}
  MaxKills = 1
INVARIANTS
  TypeOK
  NoNearDuplicates
  DroppedIsRepresented
  PromptsFitTheirDiet
  PointersTrace
  SplitIsFair
