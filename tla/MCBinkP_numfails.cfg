CONSTANT Scenarios <- ContactScenarios
SPECIFICATION FairSpec
PROPERTIES
  NumFailsAsDocumented
CHECK_DEADLOCK FALSE
