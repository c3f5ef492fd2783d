\* Two independent units on two lanes, with shell commands: is an edit that one
\* worker alone made on disk at the end?
CONSTANTS
    a = a
    b = b
    c = c
    f1 = f1
    f2 = f2
    Engine = Engine
    Units <- PairUnits
    Workers <- PairWorkers
    Graphs <- PairGraphs
    Files = {f1, f2}
    NewFiles = {}
    Caps = {2}
    Shells = {TRUE}
    MaxCycles = 1
    MaxEdits = 1
SPECIFICATION Spec
INVARIANT EditsReachDisk
