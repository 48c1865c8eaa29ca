SPECIFICATION Spec
CONSTANTS
  Near <- NearTitles
  Blank = Blank
  Torn = Torn
  Ids = {"p1", "p2", "p3"}
  Grounding <- RowIds
  NoExcerpt = NoExcerpt
  PromptFiles <- NodePrompts
  Histories <- OneNight
  Weight <- HalfQuarterQuarter
  DropNum = 1
  DropDen = 5
INVARIANT NoRecipeTwice
