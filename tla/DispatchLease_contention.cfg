\* Three deliveries contend from three daemons, any timing: every file-system call interleaves.
SPECIFICATION Spec
CONSTANTS
  a1 = a1  a2 = a2  a3 = a3  d1 = d1  d2 = d2  d3 = d3
  Attempts = {a1, a2, a3}
  Daemons = {d1, d2, d3}
  DaemonOf <- OneEach
  LeaseMs = 2
  Ttl = 1
  Timely = FALSE
  MaxClock = 2
INVARIANTS TypeOK ClaimNeverLost LeaseHasOwner
CHECK_DEADLOCK FALSE
