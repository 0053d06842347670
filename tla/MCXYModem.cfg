CONSTANTS
  Lengths <- MCLengths
  Small = 2
  Large = 4
  BlockMod = 3
  Wires <- MCWires
  LfNumbers <- MCLfNumbers
  Mangles <- MCMangles
  MaxSendErrors = 2
  MaxConsecErrors = 1
  MaxStartTries = 2
  LineCap = 2
  MaxFaults = 1
SPECIFICATION FairSpec
INVARIANTS TypeOK
PROPERTIES CopyingSpec Ends PromptOutcome
CHECK_DEADLOCK FALSE
CONSTRAINT LateOrPrompt
