\* Three processes of one service, started, stopped and killed at any time.
CONSTANTS
    p1 = p1
    p2 = p2
    p3 = p3
    NoPid = NoPid
    Processes = {p1, p2, p3}
    Services <- MCServices
SPECIFICATION FairSpec
INVARIANT TypeOK
INVARIANT OneInstance
PROPERTY RefusedForCause
PROPERTY PortDecides
CHECK_DEADLOCK FALSE
