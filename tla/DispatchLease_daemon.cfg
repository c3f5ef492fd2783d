\* Three deliveries of a task to one daemon, heartbeats in time: a retry, a
\* second copy, a delivery after a crash.
SPECIFICATION Spec
CONSTANTS
  a1 = a1  a2 = a2  a3 = a3  d1 = d1  d2 = d2  d3 = d3
  Attempts = {a1, a2, a3}
  Daemons = {d1}
  DaemonOf <- AllToOne
  LeaseMs = 2
  Ttl = 2
  Timely = TRUE
  MaxClock = 7
INVARIANT MutualExclusion
PROPERTY NoRerunWhileFresh
PROPERTY FreshRecordKept
PROPERTY OneAfterAnother
CHECK_DEADLOCK FALSE
