\* A person inserts an item above the one an agent is working on.
CONSTANTS
    t1 = t1
    t2 = t2
    t3 = t3
    Texts <- MCTexts
    Start <- MCStart
    MaxItems = 2
    MaxRetries = 2
    ExtendEvery = 2
    FailLimit = 2
    SelfExtend = {FALSE}
    MaxTrouble = 1
SPECIFICATION Spec
INVARIANT DoneWasFinished
CHECK_DEADLOCK FALSE
