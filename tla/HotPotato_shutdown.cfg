\* Players slower than the master's retries.
SPECIFICATION Spec
CONSTANTS
    Procs = {p1, p2}
    Host <- MCHost
    Far = {}
    N = 2
    MaxHops = 1
    MaxTry = 1
    Block = 2
    MaxFaults = 0
    AddrlenOutcomes = {TRUE}
    Timely = FALSE
PROPERTY
    ShutdownReachesAll
CHECK_DEADLOCK FALSE
