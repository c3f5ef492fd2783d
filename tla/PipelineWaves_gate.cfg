\* docs/ORCHESTRATION-PROTOCOL.md:55 against a timeout.
SPECIFICATION Spec
CONSTANTS
  Waves <- BuildersThenQa
  MaxWaves = 4
  MaxTasks = 5
  MaxResults = 3
  MaxResumes = 0
  Environments <- Questions
PROPERTIES GateStopsAdvance
CHECK_DEADLOCK FALSE
