\* Four addresses, so that an orphan can outlive its parent and see the
\* address reused while a third thread joins; two semaphores.
SPECIFICATION Spec
CONSTANTS
    Root = root
    Threads = {root, t1, t2, t3}
    NoThread = NULL
    Sems = {s1, s2}
    MaxValue = 1
SYMMETRY Symmetry
INVARIANTS
    JoinersWillWake
    WakesOnlyJoiners
    CrashNeedsSemaphore
    RootExitIsClean
    IInv
PROPERTY
    KeepsPromise
\* The process stops when the root exits or nobody is ready.
CHECK_DEADLOCK FALSE
