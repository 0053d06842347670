CONSTANTS
  n1 = n1
  n2 = n2
  Tool = Tool
  Nobody = Nobody
  Nodes <- MCNodes
  Sizes <- MCSizes
  MaxMsgs = 2
  Blocks = 4
  MayGiveUp = FALSE
  Packs = FALSE
  MaxPosts = 3
  MaxDeletes = 1
  MaxCrashes = 0
SPECIFICATION Spec
PROPERTIES DeletesWhatWasShown
CHECK_DEADLOCK FALSE
