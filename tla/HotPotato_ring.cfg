\* As many processes as the master waits for, no failure, and players that
\* open their listener in time.
SPECIFICATION Spec
CONSTANTS
    Procs = {p1, p2, p3}
    Host <- MCHost
    Far = {p3}
    N = 3
    MaxHops = 3
    MaxTry = 1
    Block = 2
    MaxFaults = 0
    AddrlenOutcomes = {TRUE}
    Timely = TRUE
PROPERTY
    RingTerminates
\* The system stops when everybody has exited.
CHECK_DEADLOCK FALSE
