CONSTANT Scenarios <- SafetyScenarios
SPECIFICATION Spec
INVARIANTS
  TypeOK
  NoLoss
  PendingIsWhole
  NoFilesToStrangers
  EobAfterFiles
PROPERTIES
  PendingKept
CHECK_DEADLOCK FALSE
