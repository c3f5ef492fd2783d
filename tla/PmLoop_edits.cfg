\* Two items and a third that people or the PM add, with an insertion, a reset of
\* the failed items and a crash.
CONSTANTS
    t1 = t1
    t2 = t2
    t3 = t3
    Texts <- MCTexts
    Start <- MCStart
    MaxItems = 4
    MaxRetries = 2
    ExtendEvery = 2
    FailLimit = 2
    SelfExtend = {TRUE, FALSE}
    MaxTrouble = 1
SPECIFICATION FairSpec
INVARIANT TypeOK
INVARIANT MarksAreTrue
 
 
PROPERTY EventuallyEnds
CHECK_DEADLOCK FALSE
