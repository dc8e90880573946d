\* A process too many, a failing system call or a short read, any addrlen, slow
\* players; tracks of one block and longer ones.
SPECIFICATION Spec
CONSTANTS
    Procs = {p1, p2, p3}
    Host <- MCHost
    Far = {p3}
    N = 2
    MaxHops = 4
    MaxTry = 1
    Block = 2
    MaxFaults = 2
    AddrlenOutcomes = {TRUE, FALSE}
    Timely = FALSE
SYMMETRY Symmetry
INVARIANTS
    RingIsSound
    TrackIsTheWalk
    ReportIsComplete
    OnePotato
\* Players whose master or whose first connection died wait for ever.
CHECK_DEADLOCK FALSE
