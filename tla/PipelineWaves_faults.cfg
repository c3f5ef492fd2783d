\* A build wave and a QA wave, with everything that can go wrong, and longer without
\* rejected dispatches, rate limits, bails and stale state files.
SPECIFICATION FairSpec
CONSTANTS
  Waves <- BuildThenQa
  MaxWaves = 4
  MaxTasks = 6
  MaxResults = 1
  MaxResumes = 1
  Environments <- Troubles
INVARIANT TypeOK
INVARIANT DiskIsCurrent
INVARIANT NeverStuck
PROPERTY InWaveOrder
PROPERTY RetryCounted
PROPERTY EventuallyEnds
CHECK_DEADLOCK FALSE
