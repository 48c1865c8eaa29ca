SPECIFICATION Spec
CONSTANTS
  Ids = {"p1", "p2", "p3", "p4", "p5"}
  Grounding <- Excerpts
  NoExcerpt = "none"
  PromptFiles <- NodePrompts
  Histories <- Nights
  Weight <- HalfQuarterQuarter
  DropNum = 1
  DropDen = 5
INVARIANTS
  TypeOK
  CleanHasLongest
  NoPromptTwice
  NoExcerptTwice
  NearTarget
