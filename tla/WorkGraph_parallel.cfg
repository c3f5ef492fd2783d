\* Three units on one or two lanes, with and without shell commands.
CONSTANTS
    a = a
    b = b
    c = c
    Engine = Engine
    f1 = f1
    f2 = f2
    Units <- MCUnits
    Workers <- MCWorkers
    Graphs <- MCGraphs
    Files = {f1, f2}
    NewFiles = {f2}
    Caps = {1, 2}
    Shells = {TRUE, FALSE}
    MaxCycles = 2
    MaxEdits = 1
SPECIFICATION FairSpec
INVARIANT TypeOK
INVARIANT NothingLost
INVARIANT SuccessIsComplete
PROPERTY InDependencyOrder
PROPERTY FailureStopsBatches
PROPERTY EventuallyOver
