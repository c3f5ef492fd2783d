\* Three turns of one call, two verification cycles, an abort at any time.
CONSTANTS
    check = check
    look = look
    Commands <- MCCommands
    Kind <- BothTest
    MaxTurns = 3
    MaxCycles = 2
    GateTurns = 2
    StaleLimit = 2
    MaxCalls = 1
SPECIFICATION FairSpec
INVARIANT TypeOK
INVARIANT CompleteIsVerified
INVARIANT AskedBounded
PROPERTY AbortStopsTools
PROPERTY EventuallyOver
