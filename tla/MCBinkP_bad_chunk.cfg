CONSTANT Scenarios <- BadChunkScenarios
SPECIFICATION Spec
INVARIANTS
  BadChunkAborts
CHECK_DEADLOCK FALSE
