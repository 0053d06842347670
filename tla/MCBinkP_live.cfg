CONSTANT Scenarios <- LivenessScenarios
SPECIFICATION FairSpec
INVARIANTS
  PromptDelivers
PROPERTIES
  SessionEnds
CHECK_DEADLOCK FALSE
