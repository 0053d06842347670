CONSTANTS
  n1 = n1
  n2 = n2
  Tool = Tool
  Nobody = Nobody
  Nodes <- MCNodes
  Sizes <- MCSizes
  MaxMsgs = 2
  Blocks = 3
  MayGiveUp = TRUE
  Packs = TRUE
  MaxPosts = 3
  MaxDeletes = 1
  MaxCrashes = 1
SYMMETRY Symmetry
CONSTRAINT Bound
SPECIFICATION Spec
INVARIANTS TypeOK TextIntact NoPostLost BlocksAccounted
PROPERTIES ReplyReturns
CHECK_DEADLOCK FALSE
