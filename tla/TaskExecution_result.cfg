\* docs/ARCHITECTURE.md:59 against a retry, on a connection that never breaks.
SPECIFICATION Spec
CONSTANTS
  MaxRetries = 2
  Failures <- Timeouts
  Escalates = TRUE
  MaxClients = 1
  Faults = {}
INVARIANTS ResultReachesLead
CHECK_DEADLOCK FALSE
