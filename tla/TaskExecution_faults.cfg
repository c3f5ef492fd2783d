\* Any error, the connection or the daemon lost at any time, two retries, an agent that escalates.
SPECIFICATION FairSpec
CONSTANTS
  MaxRetries = 2
  Failures <- Errors
  Escalates = TRUE
  MaxClients = 3
  Faults = {"closing", "close", "crash"}
INVARIANTS TypeOK BoundedExecutions DoneNotRetried EscalatedOnce RetryCanClaim
PROPERTIES KeepsPromise EventuallyOver
CHECK_DEADLOCK FALSE
